------------------------------ MODULE HumanTasksProofs ------------------------------
(***************************************************************************)
(* Proofs about HumanTasks for every set of asking nodes and of people.    *)
(***************************************************************************)
EXTENDS HumanTasks, TLAPS

\* A copy in a person's hand is of a request that its node has filed.
Asked ==
  \A p \in Person :
    hand[p] # Empty => npc[hand[p].task] \notin {"new", "unconfigured"}

\* What a stored request says came from an answer or from the end of the wait.
Authored ==
  \A t \in Task :
    /\ t \in DOMAIN store /\ store[t] \in {"Approved", "Rejected", "Submitted"} =>
         [task |-> t, verdict |-> store[t]] \in acked
    /\ t \in DOMAIN store /\ store[t] = "TimedOut" => late[t]
    /\ npc[t] \in {"expiring", "marking"} => late[t]

\* The request of a polling node is there and pending until somebody answers.
Witnessed ==
  \A t \in Task :
    npc[t] \in Polling =>
      \/ t \in DOMAIN store /\ store[t] = "Pending"
      \/ \E a \in acked : a.task = t

HInv ==
  /\ TypeOK /\ Asked /\ Authored /\ Witnessed
  /\ OutcomeHasAuthor /\ PendingIsAwaited /\ PanicLosesAnswer

--------------------------------------------------------------------------------

\* The initial state satisfies the invariant.
LEMMA HInvInit == Init => HInv
<1>. SUFFICES ASSUME Init PROVE HInv
  OBVIOUS
<1>1. TypeOK
  BY DEF Init, TypeOK
<1>2. Asked /\ Authored /\ Witnessed
  BY DEF Init, Asked, Authored, Witnessed, Polling
<1>3. OutcomeHasAuthor /\ PendingIsAwaited /\ PanicLosesAnswer
  BY DEF Init, OutcomeHasAuthor, PendingIsAwaited, PanicLosesAnswer
<1>. QED
  BY <1>1, <1>2, <1>3 DEF HInv

\* One request is changed, and filed when it is not there.
Stores(t, s) ==
  /\ DOMAIN store' = DOMAIN store \cup {t}
  /\ store'[t] = s
  /\ \A i \in DOMAIN store : i # t => store'[i] = store[i]

LEMMA PutStores ==
  ASSUME NEW t, NEW s, store' = Put(t, s)
  PROVE  Stores(t, s)
BY DEF Put, Stores

\* An answer in a hand is an answer.
LEMMA HandFits ==
  ASSUME TypeOK, NEW p \in Person, hand[p] # Empty
  PROVE  /\ hand[p].task \in Task /\ hand[p].verdict \in Verdicts(kind[hand[p].task])
         /\ hand[p] = [task |-> hand[p].task, verdict |-> hand[p].verdict]
BY DEF TypeOK, Fits, Answers

\* A node's own steps.
LEMMA AskStep ==
  ASSUME HInv, NEW t \in Task, Ask(t) \/ AskNobody(t)
  PROVE  HInv'
<1>. USE DEF HInv, Goto, storeVars
<1>1. CASE Ask(t)
  <2>1. /\ npc[t] = "new" /\ npc' = [npc EXCEPT ![t] = "look"]
        /\ Stores(t, "Pending")
        /\ UNCHANGED <<kind, path, configured, late, hand, acked>>
    BY <1>1, PutStores DEF Ask
  <2>2. TypeOK'
    BY <2>1 DEF Stores, TypeOK, Polling, Ended, Decided, Fits
  <2>3. Asked'
    BY <2>1, HandFits DEF TypeOK, Asked
  <2>4. Authored' /\ Witnessed'
    BY <2>1 DEF Stores, TypeOK, Authored, Witnessed, Polling
  <2>5. OutcomeHasAuthor' /\ PendingIsAwaited' /\ PanicLosesAnswer'
    BY <2>1 DEF Stores, TypeOK, OutcomeHasAuthor, PendingIsAwaited, PanicLosesAnswer, Polling
  <2>. QED
    BY <2>2, <2>3, <2>4, <2>5
<1>2. CASE AskNobody(t)
  <2>1. /\ npc[t] = "new" /\ npc' = [npc EXCEPT ![t] = "unconfigured"]
        /\ UNCHANGED <<kind, path, configured, store, acked, late, hand>>
    BY <1>2 DEF AskNobody
  <2>2. t \notin DOMAIN store
    BY <2>1 DEF TypeOK
  <2>3. TypeOK'
    BY <2>1, <2>2 DEF TypeOK, Polling, Ended, Decided, Fits
  <2>4. Asked'
    BY <2>1, HandFits DEF TypeOK, Asked
  <2>5. Authored' /\ Witnessed'
    BY <2>1 DEF TypeOK, Authored, Witnessed, Polling
  <2>6. OutcomeHasAuthor' /\ PendingIsAwaited' /\ PanicLosesAnswer'
    BY <2>1, <2>2 DEF TypeOK, OutcomeHasAuthor, PendingIsAwaited, PanicLosesAnswer
  <2>. QED
    BY <2>3, <2>4, <2>5, <2>6
<1>. QED
  BY <1>1, <1>2

LEMMA LookStep ==
  ASSUME HInv, NEW t \in Task, Look(t)
  PROVE  HInv'
<1>. USE DEF HInv, Goto, storeVars
<1>1. /\ t \in DOMAIN store /\ npc[t] = "look"
      /\ npc' = [npc EXCEPT ![t] = AfterLook(store[t])]
      /\ UNCHANGED <<kind, path, configured, store, acked, late, hand>>
  BY DEF Look
<1>2. \/ store[t] \in {"Approved", "Submitted"} /\ AfterLook(store[t]) = "succeeded"
      \/ store[t] = "Rejected" /\ AfterLook(store[t]) = "rejected"
      \/ store[t] = "Pending" /\ AfterLook(store[t]) = "waiting"
      \/ store[t] = "TimedOut" /\ AfterLook(store[t]) = "timedOut"
  BY <1>1 DEF TypeOK, Verdicts, AfterLook
<1>3. TypeOK' /\ Asked'
  BY <1>1, <1>2, HandFits DEF TypeOK, Asked, Polling, Ended, Decided, Fits
<1>4. Authored' /\ Witnessed'
  BY <1>1, <1>2 DEF TypeOK, Authored, Witnessed, Polling
<1>5. OutcomeHasAuthor'
  BY <1>1, <1>2 DEF TypeOK, Authored, OutcomeHasAuthor
<1>6. PendingIsAwaited' /\ PanicLosesAnswer'
  BY <1>1, <1>2 DEF TypeOK, PendingIsAwaited, PanicLosesAnswer, Polling
<1>. QED
  BY <1>3, <1>4, <1>5, <1>6

\* The steps that leave the store alone and keep the node polling or end it
\* without its request.
LEMMA PollStep ==
  ASSUME HInv, NEW t \in Task,
         LookPanics(t) \/ Sleep(t) \/ Expire(t) \/ TakeToMark(t)
  PROVE  HInv'
<1>. USE DEF HInv, Goto, storeVars
<1>1. PICK s \in {"panicked", "look", "expiring", "marking", "timedOut"} :
        /\ npc[t] \in Polling /\ npc' = [npc EXCEPT ![t] = s]
        /\ s = "panicked" => t \notin DOMAIN store
        /\ s = "timedOut" => t \notin DOMAIN store
        /\ s \in {"expiring", "marking", "timedOut"} => late[t]
        /\ UNCHANGED <<kind, path, configured, store, acked, late, hand>>
  BY DEF LookPanics, Sleep, Expire, TakeToMark, Authored, Polling
<1>2. TypeOK' /\ Asked'
  BY <1>1, HandFits DEF TypeOK, Asked, Polling, Ended, Decided, Fits
<1>3. Authored' /\ Witnessed'
  BY <1>1 DEF TypeOK, Authored, Witnessed, Polling
<1>4. OutcomeHasAuthor' /\ PendingIsAwaited'
  BY <1>1 DEF TypeOK, OutcomeHasAuthor, PendingIsAwaited, Polling
<1>5. PanicLosesAnswer'
  BY <1>1 DEF TypeOK, PanicLosesAnswer, Witnessed
<1>. QED
  BY <1>2, <1>3, <1>4, <1>5

LEMMA MarkStep ==
  ASSUME HInv, NEW t \in Task, MarkTimedOut(t)
  PROVE  HInv'
<1>. USE DEF HInv, Goto
<1>1. /\ npc[t] = "marking" /\ late[t] /\ npc' = [npc EXCEPT ![t] = "timedOut"]
      /\ Stores(t, "TimedOut")
      /\ UNCHANGED <<kind, path, configured, late, hand, acked>>
  BY PutStores DEF MarkTimedOut, Authored
<1>2. TypeOK'
  BY <1>1 DEF Stores, TypeOK, Polling, Ended, Decided, Fits
<1>3. Asked'
  BY <1>1, HandFits DEF TypeOK, Asked
<1>4. Authored' /\ Witnessed'
  BY <1>1 DEF Stores, TypeOK, Authored, Witnessed, Polling
<1>5. OutcomeHasAuthor' /\ PendingIsAwaited' /\ PanicLosesAnswer'
  BY <1>1 DEF Stores, TypeOK, OutcomeHasAuthor, PendingIsAwaited, PanicLosesAnswer, Polling
<1>. QED
  BY <1>2, <1>3, <1>4, <1>5

LEMMA ElapseStep ==
  ASSUME HInv, NEW t \in Task, Elapse(t)
  PROVE  HInv'
<1>1. /\ late' = [late EXCEPT ![t] = TRUE]
      /\ UNCHANGED <<kind, path, configured, store, acked, npc, hand>>
  BY DEF Elapse, storeVars
<1>. QED
  BY <1>1
  DEF HInv, TypeOK, Asked, Authored, Witnessed, OutcomeHasAuthor, PendingIsAwaited,
      PanicLosesAnswer, Fits

LEMMA TakeStep ==
  ASSUME HInv, NEW p \in Person, NEW t \in Task, TakeToAnswer(p, t)
  PROVE  HInv'
<1>. USE DEF HInv
<1>1. PICK v \in Verdicts(kind[t]) :
        /\ t \in DOMAIN store
        /\ hand' = [hand EXCEPT ![p] = [task |-> t, verdict |-> v]]
        /\ UNCHANGED <<kind, path, configured, store, acked, npc, late>>
  BY DEF TakeToAnswer, storeVars
<1>2. v \in {"Approved", "Rejected", "Submitted"}
  BY DEF Verdicts
<1>3. TypeOK' /\ Asked'
  BY <1>1, <1>2 DEF TypeOK, Asked, Fits, Answers
<1>. QED
  BY <1>1, <1>3
  DEF Authored, Witnessed, OutcomeHasAuthor, PendingIsAwaited, PanicLosesAnswer

LEMMA AnswerStep ==
  ASSUME HInv, NEW p \in Person, Answer(p)
  PROVE  HInv'
<1>. USE DEF HInv
<1>1. /\ hand[p] # Empty
      /\ Stores(hand[p].task, hand[p].verdict)
      /\ acked' = acked \cup {hand[p]}
      /\ hand' = [hand EXCEPT ![p] = Empty]
      /\ UNCHANGED <<kind, path, configured, npc, late>>
  BY PutStores DEF Answer
<1>. DEFINE t == hand[p].task
            v == hand[p].verdict
<1>2. /\ t \in Task /\ v \in Verdicts(kind[t])
      /\ hand[p] = [task |-> t, verdict |-> v] /\ Fits(hand[p])
      /\ npc[t] \notin {"new", "unconfigured"}
  BY <1>1, HandFits DEF TypeOK, Asked
<1>3. v \in {"Approved", "Rejected", "Submitted"}
  BY <1>2 DEF Verdicts
<1>4. TypeOK' /\ Asked'
  BY <1>1, <1>2 DEF Stores, TypeOK, Asked, Fits
<1>5. Authored' /\ Witnessed'
  BY <1>1, <1>2, <1>3 DEF Stores, TypeOK, Authored, Witnessed
<1>6. OutcomeHasAuthor' /\ PendingIsAwaited' /\ PanicLosesAnswer'
  BY <1>1, <1>2, <1>3 DEF Stores, TypeOK, OutcomeHasAuthor, PendingIsAwaited, PanicLosesAnswer
<1>. QED
  BY <1>4, <1>5, <1>6

\* What is swept out was resolved, so a node that still polls was answered.
LEMMA CleanupStep ==
  ASSUME HInv, NEW S \in SUBSET Old, CleanupOld(S)
  PROVE  HInv'
<1>. USE DEF HInv
<1>1. /\ store' = [i \in DOMAIN store \ S |-> store[i]]
      /\ UNCHANGED <<kind, path, configured, npc, late, hand, acked>>
  BY DEF CleanupOld
<1>2. \A i \in S : i \in DOMAIN store /\ store[i] # "Pending"
  BY DEF Old, Resolved
<1>3. TypeOK' /\ Asked'
  BY <1>1 DEF TypeOK, Asked, Fits
<1>4. Authored' /\ Witnessed'
  BY <1>1, <1>2 DEF TypeOK, Authored, Witnessed
<1>. QED
  BY <1>1, <1>3, <1>4 DEF OutcomeHasAuthor, PendingIsAwaited, PanicLosesAnswer

LEMMA HInvStep == HInv /\ [Next]_vars => HInv'
<1>. SUFFICES ASSUME HInv, [Next]_vars PROVE HInv'
  OBVIOUS
<1>1. CASE UNCHANGED vars
  BY <1>1
  DEF vars, storeVars, HInv, TypeOK, Asked, Authored, Witnessed, OutcomeHasAuthor,
      PendingIsAwaited, PanicLosesAnswer, Fits
<1>. QED
  BY <1>1, AskStep, LookStep, PollStep, MarkStep, ElapseStep, TakeStep, AnswerStep, CleanupStep
  DEF Next, Poll

LEMMA HInvAlways == Spec => []HInv
BY HInvInit, HInvStep, PTL DEF Spec

--------------------------------------------------------------------------------

(* Type correctness, with any number of nodes and people.                  *)
THEOREM HumanTasksTypes == Spec => []TypeOK
<1>1. HInv => TypeOK
  BY DEF HInv
<1>. QED
  BY <1>1, HInvAlways, PTL

(* A node succeeds or is rejected only by an answer that was acknowledged, *)
(* and times out only after its wait, though approve, reject, submit and   *)
(* mark_timed_out all write back copies they took earlier.                 *)
THEOREM DecisionsHaveAuthors == Spec => []OutcomeHasAuthor
<1>1. HInv => OutcomeHasAuthor
  BY DEF HInv
<1>. QED
  BY <1>1, HInvAlways, PTL

(* list_pending offers only requests that a node still waits for.          *)
THEOREM NothingPendsForNobody == Spec => []PendingIsAwaited
<1>1. HInv => PendingIsAwaited
  BY DEF HInv
<1>. QED
  BY <1>1, HInvAlways, PTL

(* The expect of the polling loop fails only when an answered request was  *)
(* swept out by cleanup_old before its node looked again.                  *)
THEOREM OnlyAnsweredRequestsVanish == Spec => []PanicLosesAnswer
<1>1. HInv => PanicLosesAnswer
  BY DEF HInv
<1>. QED
  BY <1>1, HInvAlways, PTL

--------------------------------------------------------------------------------
(* What AnswerEndsWait rests on, without fairness.                         *)

AnswersStick == \A a \in acked : a.task \in DOMAIN store => store[a.task] # "Pending"

\* Nobody answers a request that its node has not filed yet.
AskedFirst == \A a \in acked : npc[a.task] # "new"

\* An answered request is not filed again.
LEMMA AskedFirstStep == ASSUME HInv, AskedFirst, [Next]_vars PROVE AskedFirst'
<1>1. ASSUME NEW t \in Task, npc'[t] = "new" PROVE npc[t] = "new"
  <2>1. CASE npc' = npc
    BY <1>1, <2>1
  <2>2. ASSUME NEW u \in Task, NEW from, NEW to, Goto(u, from, to), to # "new"
        PROVE  npc[t] = "new"
    BY <1>1, <2>2 DEF Goto, HInv, TypeOK
  <2>3. ASSUME NEW u \in Task, Look(u) PROVE npc[t] = "new"
    <3>1. AfterLook(store[u]) # "new"
      BY <2>3 DEF Look, AfterLook, HInv, TypeOK, Verdicts
    <3>. QED
      BY <2>2, <2>3, <3>1 DEF Look
  <2>4. ASSUME NEW u \in Task, TakeToMark(u) PROVE npc[t] = "new"
    BY <2>2, <2>4 DEF TakeToMark
  <2>5. ASSUME NEW u \in Task,
               Ask(u) \/ AskNobody(u) \/ LookPanics(u) \/ Sleep(u) \/ Expire(u) \/ MarkTimedOut(u)
        PROVE  npc[t] = "new"
    BY <2>2, <2>5 DEF Ask, AskNobody, LookPanics, Sleep, Expire, MarkTimedOut
  <2>. QED
    BY <2>1, <2>3, <2>4, <2>5
    DEF Next, Poll, Elapse, Answer, TakeToAnswer, CleanupOld, vars
<1>2. ASSUME NEW a \in acked' PROVE a \in acked \/ (a.task \in Task /\ npc[a.task] # "new")
  <2>1. CASE acked' = acked
    BY <1>2, <2>1
  <2>2. ASSUME NEW p \in Person, Answer(p)
        PROVE  a \in acked \/ (a.task \in Task /\ npc[a.task] # "new")
    BY <1>2, <2>2, HandFits DEF Answer, HInv, Asked
  <2>. QED
    BY <2>1, <2>2 DEF Next, Ask, AskNobody, Poll, Look, LookPanics, Sleep, Expire,
       TakeToMark, MarkTimedOut, Elapse, TakeToAnswer, CleanupOld, storeVars, vars
<1>3. \A a \in acked : a.task \in Task
  BY DEF HInv, TypeOK, Fits, Answers
<1>. QED
  BY <1>1, <1>2, <1>3 DEF AskedFirst

\* The first look of a node after its request was answered is its last.
NextLookEnds ==
  [][\A t \in Task :
       npc[t] = "look" /\ npc'[t] # "look" /\ (\E a \in acked : a.task = t)
         => npc'[t] \in Ended]_vars

(* An answer that approve, reject or submit has acknowledged is never      *)
(* undone: the request does not pend again, though a copy taken earlier,   *)
(* the node's own mark_timed_out or a sweep may still replace it.  So the  *)
(* next look of its node ends the wait, without the clock.                 *)
THEOREM AcknowledgedIsResolved == Spec => []AnswersStick /\ NextLookEnds
<1>1. Init => AskedFirst /\ AnswersStick
  BY DEF Init, AskedFirst, AnswersStick
<1>2. HInv /\ AskedFirst /\ AnswersStick /\ [Next]_vars => AnswersStick'
  <2>. SUFFICES ASSUME HInv, AskedFirst, AnswersStick, [Next]_vars, NEW a \in acked',
                       a.task \in DOMAIN store'
                PROVE  store'[a.task] # "Pending"
    BY DEF AnswersStick
  <2>1. ASSUME NEW t \in Task, Ask(t) PROVE store'[a.task] # "Pending"
    <3>1. /\ acked' = acked /\ Stores(t, "Pending")
          /\ npc[t] = "new" /\ t \notin DOMAIN store
      BY <2>1, PutStores DEF Ask, Goto, HInv, TypeOK
    <3>2. a.task # t
      BY <3>1 DEF AskedFirst
    <3>. QED
      BY <3>1, <3>2 DEF AnswersStick, Stores
  <2>2. ASSUME NEW t \in Task, MarkTimedOut(t) PROVE store'[a.task] # "Pending"
    <3>1. acked' = acked /\ Stores(t, "TimedOut")
      BY <2>2, PutStores DEF MarkTimedOut
    <3>2. CASE a.task = t
      BY <3>1, <3>2 DEF Stores
    <3>3. CASE a.task # t
      BY <3>1, <3>3 DEF Stores, AnswersStick
    <3>. QED
      BY <3>2, <3>3
  <2>3. ASSUME NEW p \in Person, Answer(p) PROVE store'[a.task] # "Pending"
    <3>1. Stores(hand[p].task, hand[p].verdict) /\ acked' = acked \cup {hand[p]}
      BY <2>3, PutStores DEF Answer
    <3>2. hand[p].verdict # "Pending"
      BY <2>3, HandFits DEF Answer, HInv, Verdicts
    <3>. QED
      BY <3>1, <3>2 DEF AnswersStick, Stores
  <2>4. ASSUME NEW S \in SUBSET Old, CleanupOld(S) PROVE store'[a.task] # "Pending"
    BY <2>4 DEF CleanupOld, AnswersStick
  <2>5. ASSUME UNCHANGED storeVars PROVE store'[a.task] # "Pending"
    BY <2>5 DEF storeVars, AnswersStick
  <2>. QED
    BY <2>1, <2>2, <2>3, <2>4, <2>5
    DEF Next, Poll, AskNobody, Look, LookPanics, Sleep, Expire, TakeToMark, Elapse,
        TakeToAnswer, vars
<1>3. HInv /\ AskedFirst /\ [Next]_vars => AskedFirst'
  BY AskedFirstStep
<1>4. HInv /\ AnswersStick /\ [Next]_vars =>
        [\A t \in Task :
           npc[t] = "look" /\ npc'[t] # "look" /\ (\E a \in acked : a.task = t)
             => npc'[t] \in Ended]_vars
  <2>. SUFFICES ASSUME HInv, AnswersStick, [Next]_vars, NEW t \in Task, npc[t] = "look",
                       npc'[t] # "look", NEW a \in acked, a.task = t
                PROVE  npc'[t] \in Ended
    OBVIOUS
  <2>1. CASE Look(t)
    <3>1. /\ t \in DOMAIN store /\ store[t] # "Pending"
          /\ npc'[t] = AfterLook(store[t])
      BY <2>1 DEF Look, Goto, AnswersStick, HInv, TypeOK
    <3>2. store[t] \in {"Approved", "Submitted", "Rejected", "TimedOut"}
      BY <3>1 DEF HInv, TypeOK, Verdicts
    <3>. QED
      BY <3>1, <3>2 DEF AfterLook, Ended, Decided
  <2>2. CASE LookPanics(t)
    BY <2>2 DEF LookPanics, Goto, HInv, TypeOK, Ended
  <2>3. ASSUME NEW u \in Task, NEW from, NEW to, Goto(u, from, to), from # "look" \/ u # t
        PROVE  FALSE
    BY <2>3 DEF Goto, HInv, TypeOK
  <2>4. CASE npc' = npc
    BY <2>4
  <2>5. ASSUME NEW u \in Task, Poll(u) PROVE Look(t) \/ LookPanics(t)
    BY <2>3, <2>5 DEF Poll, Look, LookPanics, Sleep, Expire, TakeToMark, MarkTimedOut
  <2>6. ASSUME NEW u \in Task, Ask(u) \/ AskNobody(u) PROVE FALSE
    BY <2>3, <2>6 DEF Ask, AskNobody
  <2>. QED
    BY <2>1, <2>2, <2>4, <2>5, <2>6 DEF Next, Elapse, Answer, TakeToAnswer, CleanupOld, vars
<1>. QED
  BY <1>1, <1>2, <1>3, <1>4, HInvAlways, PTL DEF Spec, NextLookEnds

================================================================================

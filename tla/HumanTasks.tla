---------------------------------- MODULE HumanTasks ----------------------------------
(***************************************************************************)
(* Approval and form nodes (oxify-engine lib.rs, approval_store.rs,        *)
(* form_store.rs): a node files a request in a store and polls it until a  *)
(* person has answered or the wait is over; persons answer through the     *)
(* store's approve, reject and submit; an application may sweep resolved   *)
(* requests out.  Every call of get, update, add and cleanup_old takes the *)
(* store's lock for itself: an answer is a get and later an update of the  *)
(* copy.  Approvals and forms share the model; a form has one verdict.     *)
(***************************************************************************)
CONSTANTS
  Task,    \* the nodes that ask, each in a run of its own
  Person,  \* the callers of approve, reject and submit
  Nobody

ASSUME HumanTasksAssumption == Nobody \notin Task

VARIABLES
  kind,       \* NodeKind of each task
  path,       \* how the run executes the node
  configured, \* the engine was built with the stores
  store,      \* the status of the requests filed: a function on their ids
  npc,        \* where the node is
  late,       \* start_time.elapsed() has reached max_wait
  hand,       \* the copy a person's call holds between get and update
  acked       \* history: the answers whose callers were told true

storeVars == <<store, acked>>
vars == <<kind, path, configured, storeVars, npc, late, hand>>

Verdicts(k) == IF k = "approval" THEN {"Approved", "Rejected"} ELSE {"Submitted"}
Resolved == {"Approved", "Rejected", "Submitted", "TimedOut"}

Polling == {"look", "waiting", "expiring", "marking"}
Decided == {"succeeded", "rejected", "timedOut"}
Ended == Decided \cup {"panicked", "unconfigured"}

\* execute_sequential and execute_from_checkpoint run the node on the engine
\* itself (lib.rs:703, 676), execute_with_config on a fresh Engine::new() per
\* node, which has no stores (lib.rs:958).
HasStore(t) == configured /\ path[t] = "sequential"

\* insert: an id that was swept out comes back.
Put(t, s) == [i \in DOMAIN store \cup {t} |-> IF i = t THEN s ELSE store[i]]

Empty == [task |-> Nobody, verdict |-> "none"]

Init ==
  /\ kind \in [Task -> {"approval", "form"}]
  /\ path \in [Task -> {"sequential", "parallel"}]
  /\ configured \in BOOLEAN
  /\ store = [i \in {} |-> "Pending"]
  /\ npc = [t \in Task |-> "new"]
  /\ late = [t \in Task |-> FALSE]
  /\ hand = [p \in Person |-> Empty]
  /\ acked = {}

Goto(t, from, to) ==
  /\ npc[t] = from
  /\ npc' = [npc EXCEPT ![t] = to]

--------------------------------------------------------------------------------

Ask(t) ==
  /\ HasStore(t)
  /\ Goto(t, "new", "look")
  /\ store' = Put(t, "Pending")
  /\ UNCHANGED <<kind, path, configured, late, hand, acked>>

AskNobody(t) ==
  /\ ~HasStore(t)
  /\ Goto(t, "new", "unconfigured")
  /\ UNCHANGED <<kind, path, configured, storeVars, late, hand>>

\* A slip: a rejection is waited out.
AfterLookNoReject(s) ==
  CASE s \in {"Approved", "Submitted"} -> "succeeded"
    [] s \in {"Pending", "Rejected"} -> "waiting"
    [] s = "TimedOut" -> "timedOut"

\* The match on the status.
AfterLook(s) ==
  CASE s \in {"Approved", "Submitted"} -> "succeeded"
    [] s = "Rejected" -> "rejected"
    [] s = "Pending" -> "waiting"
    [] s = "TimedOut" -> "timedOut"

Look(t) ==
  /\ t \in DOMAIN store
  /\ Goto(t, "look", AfterLook(store[t]))
  /\ UNCHANGED <<kind, path, configured, storeVars, late, hand>>

\* .expect("Approval should exist")
LookPanics(t) ==
  /\ t \notin DOMAIN store
  /\ Goto(t, "look", "panicked")
  /\ UNCHANGED <<kind, path, configured, storeVars, late, hand>>

\* The clock is read after the lock is released.
Sleep(t) ==
  /\ ~late[t]
  /\ Goto(t, "waiting", "look")
  /\ UNCHANGED <<kind, path, configured, storeVars, late, hand>>

\* A slip: the wait is over whenever nobody has answered.
ExpireAtOnce(t) ==
  /\ Goto(t, "waiting", "expiring")
  /\ UNCHANGED <<kind, path, configured, storeVars, late, hand>>

Expire(t) ==
  /\ late[t]
  /\ Goto(t, "waiting", "expiring")
  /\ UNCHANGED <<kind, path, configured, storeVars, late, hand>>

\* The second get: whatever the copy says, it will be marked.
TakeToMark(t) ==
  /\ Goto(t, "expiring", IF t \in DOMAIN store THEN "marking" ELSE "timedOut")
  /\ UNCHANGED <<kind, path, configured, storeVars, late, hand>>

\* A slip: the marked copy is not put back.
MarkCopyOnly(t) ==
  /\ Goto(t, "marking", "timedOut")
  /\ UNCHANGED <<kind, path, configured, storeVars, late, hand>>

MarkTimedOut(t) ==
  /\ Goto(t, "marking", "timedOut")
  /\ store' = Put(t, "TimedOut")
  /\ UNCHANGED <<kind, path, configured, late, hand, acked>>

Poll(t) ==
  \/ Look(t) \/ LookPanics(t) \/ Sleep(t)
  \/ Expire(t) \/ TakeToMark(t) \/ MarkTimedOut(t)

Elapse(t) ==
  /\ npc[t] \in Polling /\ ~late[t]
  /\ late' = [late EXCEPT ![t] = TRUE]
  /\ UNCHANGED <<kind, path, configured, storeVars, npc, hand>>

--------------------------------------------------------------------------------

\* A slip: an id that is not there is answered, too.
AnswerUnknown(p, t) ==
  /\ hand[p] = Empty
  /\ \E v \in Verdicts(kind[t]) :
       hand' = [hand EXCEPT ![p] = [task |-> t, verdict |-> v]]
  /\ UNCHANGED <<kind, path, configured, storeVars, npc, late>>

\* The status of the copy is not looked at.  A call for an id that is not there
\* returns false and changes nothing.
TakeToAnswer(p, t) ==
  /\ hand[p] = Empty
  /\ t \in DOMAIN store
  /\ \E v \in Verdicts(kind[t]) :
       hand' = [hand EXCEPT ![p] = [task |-> t, verdict |-> v]]
  /\ UNCHANGED <<kind, path, configured, storeVars, npc, late>>

Answer(p) ==
  /\ hand[p] # Empty
  /\ store' = Put(hand[p].task, hand[p].verdict)
  /\ acked' = acked \cup {hand[p]}
  /\ hand' = [hand EXCEPT ![p] = Empty]
  /\ UNCHANGED <<kind, path, configured, npc, late>>

\* A slip: requests without resolved_at go, too.
Sweepable == {t \in DOMAIN store : TRUE}

Old == {t \in DOMAIN store : store[t] \in Resolved}

\* cleanup_old: S are the requests resolved longer ago than the caller allows.
CleanupOld(S) ==
  /\ S # {}
  /\ store' = [i \in DOMAIN store \ S |-> store[i]]
  /\ UNCHANGED <<kind, path, configured, npc, late, hand, acked>>

Next ==
  \/ \E t \in Task : Ask(t) \/ AskNobody(t) \/ Poll(t) \/ Elapse(t)
  \/ \E p \in Person : Answer(p) \/ \E t \in Task : TakeToAnswer(p, t)
  \/ \E S \in SUBSET Old : CleanupOld(S)

Spec == Init /\ [][Next]_vars

\* The polling loop wakes up after every sleep.  Persons need not answer, and
\* nothing is assumed of the clock.
FairSpec == Spec /\ \A t \in Task : WF_vars(Poll(t))

--------------------------------------------------------------------------------

(* Every variable has its type, and every answer fits the kind of request  *)
(* it was given to.                                                        *)
Answers == {[task |-> t, verdict |-> v] : t \in Task, v \in {"Approved", "Rejected", "Submitted"}}
Fits(a) == a \in Answers /\ a.verdict \in Verdicts(kind[a.task])

TypeOK ==
  /\ kind \in [Task -> {"approval", "form"}]
  /\ path \in [Task -> {"sequential", "parallel"}]
  /\ configured \in BOOLEAN
  /\ DOMAIN store \subseteq Task
  /\ \A t \in DOMAIN store :
       /\ store[t] \in {"Pending", "TimedOut"} \cup Verdicts(kind[t])
       /\ npc[t] \notin {"new", "unconfigured"}
  /\ npc \in [Task -> {"new"} \cup Polling \cup Ended]
  /\ late \in [Task -> BOOLEAN]
  /\ \A p \in Person : hand[p] = Empty \/ Fits(hand[p])
  /\ \A a \in acked : Fits(a)

(* What a node ends with was decided by somebody: it succeeds or is        *)
(* rejected only if a caller of approve, reject or submit was told true    *)
(* for that very verdict, and it times out only when its wait is over,     *)
(* however answers, sweeps and the two looks of an expiring poller fall.   *)
OutcomeHasAuthor ==
  \A t \in Task :
    /\ npc[t] = "succeeded" =>
         \E v \in {"Approved", "Submitted"} : [task |-> t, verdict |-> v] \in acked
    /\ npc[t] = "rejected" => [task |-> t, verdict |-> "Rejected"] \in acked
    /\ npc[t] = "timedOut" => late[t]

(* A request that list_pending offers to people has a node that waits for  *)
(* it: when the node has ended, in whatever way, its request is resolved   *)
(* or gone, and stays so.                                                  *)
PendingIsAwaited ==
  \A t \in DOMAIN store : store[t] = "Pending" => npc[t] \in Polling

(* The expect in the polling loop fails only when a person has answered    *)
(* and the answer was swept out before the node saw it: nothing else takes *)
(* a request away from a node that waits.                                  *)
PanicLosesAnswer ==
  \A t \in Task : npc[t] = "panicked" => \E a \in acked : a.task = t

(* A node whose request was answered, or whose wait is over, ends: an      *)
(* answer need not wait for the clock, and nobody needs to answer once     *)
(* the wait is over.                                                       *)
Due(t) == late[t] \/ \E a \in acked : a.task = t
AnswerEndsWait == \A t \in Task : Due(t) ~> npc[t] \in Ended

================================================================================

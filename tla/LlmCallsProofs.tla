------------------------------ MODULE LlmCallsProofs ------------------------------
(***************************************************************************)
(* Proofs about LlmCalls for every set of callers and requests and every   *)
(* pair of thresholds.                                                     *)
(***************************************************************************)
EXTENDS LlmCalls, TLAPS

\* A follower waits for a call that is not over and has its own key, and a slot
\* that is free holds no result.
Followers ==
  \A c \in Caller :
    /\ pc[c] = "following" => /\ pc[leader[c]] # "free"
                              /\ req[leader[c]].keyed = req[c].keyed
    /\ pc[c] = "free" => res[c] = NoRequest

\* A call that waited for another's is given the result of a request with its
\* own prompt, system prompt, temperature and token limit, or the error that the
\* result was lost.
AnswerForOwnKey ==
  \A c \in Caller : res[c] \in Request => res[c].keyed = req[c].keyed

LInv == TypeOK /\ BreakerCounters /\ EntriesLead /\ Followers /\ AnswerForOwnKey

--------------------------------------------------------------------------------

\* The initial state satisfies the invariant.
LEMMA LInvInit == Init => LInv
BY LlmCallsAssumption
DEF Init, LInv, TypeOK, BreakerCounters, EntriesLead, Followers, AnswerForOwnKey, Leading

\* Every step keeps the types.
LEMMA TypeStep == TypeOK /\ [Next]_vars => TypeOK'
<1>. SUFFICES ASSUME TypeOK, [Next]_vars PROVE TypeOK'
  OBVIOUS
<1>. USE DEF TypeOK, Leading, Key, callVars, breakerVars, Goto
<1>1. CASE UNCHANGED vars
  BY <1>1 DEF vars
<1>2. ASSUME NEW c \in Caller, NEW q \in Request, Follow(c, q) PROVE TypeOK'
  BY <1>2 DEF Follow
<1>3. ASSUME NEW c \in Caller, NEW q \in Request, Miss(c, q) PROVE TypeOK'
  BY <1>3 DEF Miss
<1>4. ASSUME NEW c \in Caller, Insert(c) PROVE TypeOK'
  BY <1>4 DEF Insert
<1>5. ASSUME NEW c \in Caller, Refuse(c) \/ Admit(c) PROVE TypeOK'
  <2>1. CASE Refuse(c)
    BY <2>1 DEF Refuse
  <2>2. CASE Admit(c)
    BY <2>2 DEF Admit
  <2>. QED
    BY <1>5, <2>1, <2>2
<1>6. ASSUME NEW c \in Caller, RecordSuccess(c) PROVE TypeOK'
  BY <1>6 DEF RecordSuccess, Close
<1>7. ASSUME NEW c \in Caller, RecordFailure(c) PROVE TypeOK'
  BY <1>7 DEF RecordFailure
<1>8. ASSUME NEW c \in Caller, Send(c) PROVE TypeOK'
  BY <1>8 DEF Send
<1>9. ASSUME NEW c \in Caller, Remove(c) PROVE TypeOK'
  BY <1>9 DEF Remove
<1>10. ASSUME NEW c \in Caller, Closed(c) PROVE TypeOK'
  BY <1>10 DEF Closed
<1>11. ASSUME NEW c \in Caller, Drop(c) PROVE TypeOK'
  BY <1>11 DEF Drop, Awaiting
<1>12. ASSUME NEW c \in Caller, Free(c) PROVE TypeOK'
  BY <1>12 DEF Free
<1>13. CASE Elapse
  BY <1>13 DEF Elapse
<1>14. CASE Reset
  BY <1>14 DEF Reset, Close
<1>15. CASE Clear
  BY <1>15 DEF Clear
<1>. QED
  BY <1>1, <1>2, <1>3, <1>4, <1>5, <1>6, <1>7, <1>8, <1>9, <1>10, <1>11, <1>12,
     <1>13, <1>14, <1>15 DEF Next, Step

\* The breaker's state and counters move together, whichever call reports.
LEMMA BreakerStep == TypeOK /\ BreakerCounters /\ [Next]_vars => BreakerCounters'
<1>. SUFFICES ASSUME TypeOK, BreakerCounters, [Next]_vars PROVE BreakerCounters'
  OBVIOUS
<1>. USE LlmCallsAssumption DEF BreakerCounters, breakerVars
<1>1. CASE UNCHANGED breakerVars
  BY <1>1
<1>2. ASSUME NEW c \in Caller, Admit(c) PROVE BreakerCounters'
  BY <1>2 DEF Admit, Recovers
<1>3. ASSUME NEW c \in Caller, RecordSuccess(c) PROVE BreakerCounters'
  BY <1>3 DEF RecordSuccess, Close, TypeOK
<1>4. ASSUME NEW c \in Caller, RecordFailure(c) PROVE BreakerCounters'
  BY <1>4 DEF RecordFailure, TypeOK
<1>5. CASE Elapse
  BY <1>5 DEF Elapse
<1>6. CASE Reset
  BY <1>6 DEF Reset, Close
<1>. QED
  BY <1>1, <1>2, <1>3, <1>4, <1>5, <1>6
  DEF Next, Step, vars, Follow, Miss, Insert, Refuse, Send, Remove, Closed, Drop, Free, Clear

\* No step leaves an entry to a call that is over.
LEMMA EntriesStep == TypeOK /\ EntriesLead /\ [Next]_vars => EntriesLead'
<1>. SUFFICES ASSUME TypeOK, EntriesLead, [Next]_vars PROVE EntriesLead'
  OBVIOUS
<1>. USE DEF TypeOK, EntriesLead, Leading, Key, Goto
<1>1. CASE UNCHANGED <<callVars, in_flight>>
  BY <1>1 DEF callVars
<1>2. ASSUME NEW c \in Caller, NEW q \in Request, Follow(c, q) \/ Miss(c, q) PROVE EntriesLead'
  BY <1>2 DEF Follow, Miss
<1>3. ASSUME NEW c \in Caller, Insert(c) PROVE EntriesLead'
  BY <1>3 DEF Insert
<1>4. ASSUME NEW c \in Caller, Refuse(c) \/ Admit(c) PROVE EntriesLead'
  BY <1>4 DEF Refuse, Admit
<1>5. ASSUME NEW c \in Caller, RecordSuccess(c) \/ RecordFailure(c) PROVE EntriesLead'
  BY <1>5 DEF RecordSuccess, RecordFailure
<1>6. ASSUME NEW c \in Caller, Send(c) PROVE EntriesLead'
  BY <1>6 DEF Send
<1>7. ASSUME NEW c \in Caller, Remove(c) PROVE EntriesLead'
  BY <1>7 DEF Remove
<1>8. ASSUME NEW c \in Caller, Closed(c) PROVE EntriesLead'
  BY <1>8 DEF Closed
<1>9. ASSUME NEW c \in Caller, Drop(c) PROVE EntriesLead'
  BY <1>9 DEF Drop, Awaiting
<1>10. ASSUME NEW c \in Caller, Free(c) PROVE EntriesLead'
  BY <1>10 DEF Free, Registered
<1>11. CASE Clear
  BY <1>11 DEF Clear, callVars
<1>. QED
  BY <1>1, <1>2, <1>3, <1>4, <1>5, <1>6, <1>7, <1>8, <1>9, <1>10, <1>11
  DEF Next, Step, vars, Elapse, Reset

\* A follower keeps a leader of its own key, and results go to followers only.
LEMMA FollowersStep ==
  TypeOK /\ EntriesLead /\ Followers /\ AnswerForOwnKey /\ [Next]_vars
    => Followers' /\ AnswerForOwnKey'
<1>. SUFFICES ASSUME TypeOK, EntriesLead, Followers, AnswerForOwnKey, [Next]_vars
              PROVE  Followers' /\ AnswerForOwnKey'
  OBVIOUS
<1>. USE LlmCallsAssumption DEF TypeOK, Followers, AnswerForOwnKey, Leading, Goto
<1>1. CASE UNCHANGED callVars
  BY <1>1 DEF callVars
<1>2. ASSUME NEW c \in Caller, NEW q \in Request, Follow(c, q)
      PROVE  Followers' /\ AnswerForOwnKey'
  <2>1. LET d == in_flight[RequestKey(q)] IN
          d \in Caller /\ pc[d] # "free" /\ req[d].keyed = q.keyed
    BY <1>2 DEF Follow, EntriesLead, Key, RequestKey
  <2>. QED
    BY <1>2, <2>1 DEF Follow
<1>3. ASSUME NEW c \in Caller, NEW q \in Request, Miss(c, q)
      PROVE  Followers' /\ AnswerForOwnKey'
  BY <1>3 DEF Miss
<1>4. ASSUME NEW c \in Caller, Insert(c) \/ Refuse(c) \/ Admit(c) \/ Remove(c)
      PROVE  Followers' /\ AnswerForOwnKey'
  BY <1>4 DEF Insert, Refuse, Admit, Remove
<1>5. ASSUME NEW c \in Caller, RecordSuccess(c) \/ RecordFailure(c)
      PROVE  Followers' /\ AnswerForOwnKey'
  BY <1>5 DEF RecordSuccess, RecordFailure
<1>6. ASSUME NEW c \in Caller, Send(c) PROVE Followers' /\ AnswerForOwnKey'
  BY <1>6 DEF Send
<1>7. ASSUME NEW c \in Caller, Closed(c) PROVE Followers' /\ AnswerForOwnKey'
  BY <1>7 DEF Closed
<1>8. ASSUME NEW c \in Caller, Drop(c) PROVE Followers' /\ AnswerForOwnKey'
  BY <1>8 DEF Drop, Awaiting
<1>9. ASSUME NEW c \in Caller, Free(c) PROVE Followers' /\ AnswerForOwnKey'
  BY <1>9 DEF Free
<1>. QED
  BY <1>1, <1>2, <1>3, <1>4, <1>5, <1>6, <1>7, <1>8, <1>9
  DEF Next, Step, vars, Elapse, Reset, Clear

LEMMA LInvStep == LInv /\ [Next]_vars => LInv'
BY TypeStep, BreakerStep, EntriesStep, FollowersStep DEF LInv

LEMMA LInvAlways == Spec => []LInv
BY LInvInit, LInvStep, PTL DEF Spec

--------------------------------------------------------------------------------

(* Type correctness of the two wrappers, with any number of calls.         *)
THEOREM LlmCallsTypes == Spec => []TypeOK
<1>1. LInv => TypeOK
  BY DEF LInv
<1>. QED
  BY <1>1, LInvAlways, PTL

(* The breaker's counters agree with its state for all thresholds, however *)
(* many calls report their results late (record_success, record_failure,   *)
(* check_and_update_state): an open circuit can always recover.            *)
THEOREM BreakerStaysConsistent == Spec => []BreakerCounters
<1>1. LInv => BreakerCounters
  BY DEF LInv
<1>. QED
  BY <1>1, LInvAlways, PTL

(* Only calls that still lead, or were dropped, have an entry in the       *)
(* in-flight map, although Insert replaces and Remove takes away whatever  *)
(* entry the key has by then.                                              *)
THEOREM NoEntryOutlivesItsCall == Spec => []EntriesLead
<1>1. LInv => EntriesLead
  BY DEF LInv
<1>. QED
  BY <1>1, LInvAlways, PTL

(* A follower never receives the result of a request with another key,     *)
(* though entries are replaced and removed by other calls, leaders dropped *)
(* and their slots used again.  Nothing is said of tools and images: the   *)
(* key leaves them out, and requests that differ there share an answer.    *)
THEOREM AnswersStayWithinTheirKey == Spec => []AnswerForOwnKey
<1>1. LInv => AnswerForOwnKey
  BY DEF LInv
<1>. QED
  BY <1>1, LInvAlways, PTL

--------------------------------------------------------------------------------
(* What AnsweredUnlessAbandoned rests on, without fairness.                *)

\* The call has a next step of its own: a leader always, a follower when the
\* last sender of its channel is gone.
CanStep(c) ==
  \/ pc[c] \in Leading
  \/ pc[c] = "following" /\ ~ChannelOpen(leader[c])

WaitsForACall == \A c \in Caller : Waits(c) => CanStep(c) \/ CanStep(leader[c]) \/ Abandoned(c)

(* A call that waits can go on by itself, or waits for a call that can, or *)
(* for one whose caller has dropped it: followers do not wait for          *)
(* followers, and the entry a finished call might leave in the map, which  *)
(* would keep the channel of complete open for ever, is never there.       *)
THEOREM NobodyWaitsInVain == Spec => []WaitsForACall
<1>1. ASSUME TypeOK, EntriesLead, NEW c \in Caller, Waits(c), ~CanStep(c), ~Abandoned(c)
      PROVE  CanStep(leader[c])
  <2>1. pc[c] = "following" /\ ChannelOpen(leader[c]) /\ pc[leader[c]] # "dropped"
    BY <1>1 DEF Waits, CanStep, Abandoned
  <2>2. CASE Registered(leader[c])
    BY <1>1, <2>1, <2>2 DEF Registered, EntriesLead, CanStep
  <2>3. CASE pc[leader[c]] \in Leading
    BY <2>3 DEF CanStep
  <2>. QED
    BY <2>1, <2>2, <2>3 DEF ChannelOpen
<1>2. LInv => WaitsForACall
  BY <1>1 DEF LInv, WaitsForACall
<1>. QED
  BY <1>2, LInvAlways, PTL

================================================================================

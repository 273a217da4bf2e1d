---------------------------------- MODULE LlmCalls ----------------------------------
(***************************************************************************)
(* Two wrappers of oxify-connect-llm around a provider, one in the other:  *)
(* DedupProvider (dedup.rs) lets callers with the same key wait for the    *)
(* first one's answer, CircuitBreakerProvider (circuit_breaker.rs) refuses *)
(* calls after too many failures.  Look-up, insertion and removal of an    *)
(* in-flight entry take the lock one by one, and so do the check before    *)
(* and the record after a provider's call.  A caller's future may be       *)
(* dropped at every await (TimeoutProvider does it).                       *)
(***************************************************************************)
EXTENDS Integers

CONSTANTS
  Caller,    \* slots for calls of complete, used again and again
  Request,   \* records: the fields of the RequestKey, and the rest
  NoCaller,
  failure_threshold,
  success_threshold

NoRequest == [keyed |-> "none", rest |-> "none"]
Lost == [keyed |-> "lost", rest |-> "lost"]

ASSUME LlmCallsAssumption ==
  /\ NoCaller \notin Caller
  /\ NoRequest \notin Request /\ Lost \notin Request
  /\ failure_threshold \in Nat \ {0}
  /\ success_threshold \in Nat \ {0}

VARIABLES
  pc,        \* where each call is
  req,       \* its request
  leader,    \* whose channel it has subscribed to
  res,       \* the request whose result it has received
  in_flight, \* the map: a function from keys to the caller who inserted
  circuit,   \* CircuitState
  failure_count,
  success_count,
  last_failure \* last_failure_time: none, or how it compares with recovery_timeout

callVars == <<pc, req, leader, res>>
breakerVars == <<circuit, failure_count, success_count, last_failure>>
vars == <<callVars, in_flight, breakerVars>>

\* Tools and images are not part of the key: the result that Send hands to a
\* follower may be one for other tools or other images than its own.
RequestKey(q) == q.keyed
Key(c) == RequestKey(req[c])

Leading == {"missed", "entered", "calling", "answered", "sent"}
\* The awaits of a leader.
Awaiting == {"missed", "entered", "calling", "sent"}

\* The sender of a channel is held by the leader's call and by its entry.
Registered(c) == \E k \in DOMAIN in_flight : in_flight[k] = c
ChannelOpen(c) == pc[c] \in Leading \/ Registered(c)

--------------------------------------------------------------------------------

Init ==
  /\ pc = [c \in Caller |-> "free"]
  /\ req = [c \in Caller |-> NoRequest]
  /\ leader = [c \in Caller |-> NoCaller]
  /\ res = [c \in Caller |-> NoRequest]
  /\ in_flight = [k \in {} |-> NoCaller]
  /\ circuit = "Closed"
  /\ failure_count = 0
  /\ success_count = 0
  /\ last_failure = "none"

Goto(c, from, to) ==
  /\ pc[c] = from
  /\ pc' = [pc EXCEPT ![c] = to]

\* A slip: the follower waits on a channel of its own.
FollowItself(c, q) ==
  /\ RequestKey(q) \in DOMAIN in_flight
  /\ Goto(c, "free", "following")
  /\ req' = [req EXCEPT ![c] = q]
  /\ UNCHANGED <<leader, res, in_flight, breakerVars>>

\* complete looks for an entry, and subscribes under the same read lock.
Follow(c, q) ==
  /\ RequestKey(q) \in DOMAIN in_flight
  /\ Goto(c, "free", "following")
  /\ req' = [req EXCEPT ![c] = q]
  /\ leader' = [leader EXCEPT ![c] = in_flight[RequestKey(q)]]
  /\ UNCHANGED <<res, in_flight, breakerVars>>

Miss(c, q) ==
  /\ RequestKey(q) \notin DOMAIN in_flight
  /\ Goto(c, "free", "missed")
  /\ req' = [req EXCEPT ![c] = q]
  /\ UNCHANGED <<leader, res, in_flight, breakerVars>>

\* The map is not looked at again: another's entry is replaced.
Insert(c) ==
  /\ Goto(c, "missed", "entered")
  /\ in_flight' = [k \in DOMAIN in_flight \cup {Key(c)} |->
                     IF k = Key(c) THEN c ELSE in_flight[k]]
  /\ UNCHANGED <<req, leader, res, breakerVars>>

\* recv ends in an error when the last sender is dropped.
Closed(c) ==
  /\ pc[c] = "following" /\ ~ChannelOpen(leader[c])
  /\ pc' = [pc EXCEPT ![c] = "got"]
  /\ res' = [res EXCEPT ![c] = Lost]
  /\ UNCHANGED <<req, leader, in_flight, breakerVars>>

--------------------------------------------------------------------------------

\* check_and_update_state
Recovers == circuit = "Open" /\ last_failure = "old"

Refuse(c) ==
  /\ circuit = "Open" /\ ~Recovers
  /\ Goto(c, "entered", "answered")
  /\ UNCHANGED <<req, leader, res, in_flight, breakerVars>>

Admit(c) ==
  /\ circuit # "Open" \/ Recovers
  /\ Goto(c, "entered", "calling")
  /\ circuit' = IF Recovers THEN "HalfOpen" ELSE circuit
  /\ success_count' = IF Recovers THEN 0 ELSE success_count
  /\ UNCHANGED <<req, leader, res, in_flight, failure_count, last_failure>>

Close ==
  /\ circuit' = "Closed"
  /\ failure_count' = 0
  /\ success_count' = 0
  /\ last_failure' = "none"

\* The provider has answered Ok.  A late success closes an open circuit.
RecordSuccess(c) ==
  /\ Goto(c, "calling", "answered")
  /\ \/ /\ circuit = "Closed"
        /\ failure_count' = 0
        /\ UNCHANGED <<circuit, success_count, last_failure>>
     \/ /\ circuit = "HalfOpen" /\ success_count + 1 < success_threshold
        /\ success_count' = success_count + 1
        /\ UNCHANGED <<circuit, failure_count, last_failure>>
     \/ /\ circuit = "HalfOpen" /\ success_count + 1 >= success_threshold
        /\ Close
     \/ /\ circuit = "Open"
        /\ Close
  /\ UNCHANGED <<req, leader, res, in_flight>>

\* A slip: a failure while half open leaves the successes counted.
RecordFailureKeeps(c) ==
  /\ Goto(c, "calling", "answered")
  /\ last_failure' = "recent"
  /\ failure_count' = IF circuit = "Closed" THEN failure_count + 1 ELSE failure_count
  /\ circuit' = IF circuit = "Closed" /\ failure_count' < failure_threshold
                THEN "Closed" ELSE "Open"
  /\ UNCHANGED <<req, leader, res, in_flight, success_count>>

\* The provider has answered Err.  A late failure starts the recovery time of an open circuit anew.
RecordFailure(c) ==
  /\ Goto(c, "calling", "answered")
  /\ last_failure' = "recent"
  /\ failure_count' = IF circuit = "Closed" THEN failure_count + 1 ELSE failure_count
  /\ circuit' = IF circuit = "Closed" /\ failure_count' < failure_threshold
                THEN "Closed" ELSE "Open"
  /\ success_count' = IF circuit = "HalfOpen" THEN 0 ELSE success_count
  /\ UNCHANGED <<req, leader, res, in_flight>>

\* recovery_timeout has passed since the last failure: it is asked only while
\* the circuit is open, and the failure that opens it starts the time anew.
Elapse ==
  /\ circuit = "Open" /\ last_failure = "recent"
  /\ last_failure' = "old"
  /\ UNCHANGED <<callVars, in_flight, circuit, failure_count, success_count>>

Reset ==
  /\ Close
  /\ UNCHANGED <<callVars, in_flight>>

--------------------------------------------------------------------------------

\* tx.send reaches those who have subscribed to this channel by now.
Send(c) ==
  LET subscribed == {f \in Caller : pc[f] = "following" /\ leader[f] = c} IN
  /\ pc[c] = "answered"
  /\ pc' = [d \in Caller |-> IF d = c THEN "sent"
                             ELSE IF d \in subscribed THEN "got" ELSE pc[d]]
  /\ res' = [d \in Caller |-> IF d \in subscribed THEN req[c] ELSE res[d]]
  /\ UNCHANGED <<req, leader, in_flight, breakerVars>>

\* A slip: an early return leaves the entry.
ReturnEarly(c) ==
  /\ Goto(c, "sent", "got")
  /\ UNCHANGED <<req, leader, res, in_flight, breakerVars>>

\* remove by key: the entry may be another's.
Remove(c) ==
  /\ Goto(c, "sent", "got")
  /\ in_flight' = [k \in DOMAIN in_flight \ {Key(c)} |-> in_flight[k]]
  /\ UNCHANGED <<req, leader, res, breakerVars>>

\* The call is over and its slot is free once nothing refers to its channel.
Free(c) ==
  /\ pc[c] \in {"got", "dropped"}
  /\ ~Registered(c)
  /\ \A f \in Caller : leader[f] # c
  /\ pc' = [pc EXCEPT ![c] = "free"]
  /\ req' = [req EXCEPT ![c] = NoRequest]
  /\ leader' = [leader EXCEPT ![c] = NoCaller]
  /\ res' = [res EXCEPT ![c] = NoRequest]
  /\ UNCHANGED <<in_flight, breakerVars>>

\* A dropped future removes nothing from the map.
Drop(c) ==
  /\ pc[c] \in Awaiting \cup {"following"}
  /\ pc' = [pc EXCEPT ![c] = "dropped"]
  /\ res' = [res EXCEPT ![c] = NoRequest]
  /\ UNCHANGED <<req, leader, in_flight, breakerVars>>

\* DedupProvider::clear
Clear ==
  /\ in_flight' = [k \in {} |-> NoCaller]
  /\ UNCHANGED <<callVars, breakerVars>>

Step(c) ==
  \/ Insert(c) \/ Refuse(c) \/ Admit(c)
  \/ RecordSuccess(c) \/ RecordFailure(c) \/ Send(c) \/ Remove(c) \/ Closed(c)

Next ==
  \/ \E c \in Caller : Step(c) \/ Drop(c) \/ Free(c)
  \/ \E c \in Caller, q \in Request : Follow(c, q) \/ Miss(c, q)
  \/ Elapse \/ Reset \/ Clear

Spec == Init /\ [][Next]_vars

\* The runtime polls a call that can go on, and the provider answers every call
\* it is given (or its HTTP client gives up, which is an error).
FairSpec == Spec /\ \A c \in Caller : WF_vars(Step(c))

--------------------------------------------------------------------------------

(* Every variable has its type; a call has its request until it is over.   *)
TypeOK ==
  /\ pc \in [Caller -> {"free", "following", "got", "dropped"} \cup Leading]
  /\ req \in [Caller -> Request \cup {NoRequest}]
  /\ leader \in [Caller -> Caller \cup {NoCaller}]
  /\ res \in [Caller -> Request \cup {NoRequest, Lost}]
  /\ DOMAIN in_flight \subseteq {RequestKey(q) : q \in Request}
  /\ \A k \in DOMAIN in_flight : in_flight[k] \in Caller
  /\ circuit \in {"Closed", "Open", "HalfOpen"}
  /\ failure_count \in Nat /\ success_count \in Nat
  /\ last_failure \in {"none", "recent", "old"}
  /\ \A c \in Caller :
       /\ pc[c] # "free" => req[c] \in Request
       /\ pc[c] = "following" => leader[c] \in Caller

(* The counters of the breaker agree with its state, in whatever order the *)
(* results of overlapping calls are recorded: the circuit is closed        *)
(* exactly below the failure threshold, successes are counted only while   *)
(* it is half open and never up to their threshold, and a circuit that is  *)
(* not closed knows when its last failure was (without it                  *)
(* check_and_update_state would never let a call through again).           *)
BreakerCounters ==
  /\ (circuit = "Closed") = (failure_count < failure_threshold)
  /\ failure_count <= failure_threshold
  /\ circuit # "HalfOpen" => success_count = 0
  /\ success_count < success_threshold
  /\ circuit # "Closed" => last_failure # "none"

(* An entry of the in-flight map belongs to a call for its key that is     *)
(* still going to send its result, or has sent it and is about to remove   *)
(* the entry, or was dropped: no finished call leaves an entry behind,     *)
(* although calls replace and remove each other's entries.                 *)
EntriesLead ==
  \A k \in DOMAIN in_flight :
    LET c == in_flight[k] IN
    /\ pc[c] \in (Leading \ {"missed"}) \cup {"dropped"}
    /\ Key(c) = k

(* A call ends, or its caller drops it, or it waits for a call that was    *)
(* dropped: the only way to wait for ever is behind the entry of a dropped *)
(* leader.  Nobody is left behind by a leader that sent too early, or      *)
(* whose entry another call replaced or removed.                           *)
Waits(c) == pc[c] \in Leading \cup {"following"}
Abandoned(c) == pc[c] = "following" /\ pc[leader[c]] = "dropped"
AnsweredUnlessAbandoned ==
  \A c \in Caller : Waits(c) ~> (~Waits(c) \/ Abandoned(c))

================================================================================

---------------------------------- MODULE WebhookDelivery ----------------------------------
(***************************************************************************)
(* WebhookDeliveryService and WebhookRetryManager of oxify-storage         *)
(* (webhook_delivery.rs, webhook_retry.rs): events wait in one map, their  *)
(* retry states in another, and the statistics are a third, each behind a  *)
(* lock of its own that every step takes and drops.  Clients queue,        *)
(* deliver and clear; pollers run process_pending_retries, which the       *)
(* repository leaves to whoever embeds the service.  Event ids are fresh   *)
(* UUIDs: an id is queued once.                                            *)
(***************************************************************************)
EXTENDS Integers, FiniteSets

CONSTANTS
  Event,
  Client,
  Poller,
  NoEvent,
  max_retries

ASSUME WebhookDeliveryAssumption ==
  /\ Client \cap Poller = {}
  /\ IsFiniteSet(Event) /\ IsFiniteSet(Client) /\ IsFiniteSet(Poller)
  /\ NoEvent \notin Event
  /\ max_retries \in Nat \ {0}

VARIABLES
  pending,  \* pending_events
  states,   \* of the retry manager: a function on the tracked events
  stats,
  pc, event, \* what each caller does, and with which event
  todo,     \* the events its process_pending_retries has still to deliver
  past      \* what has happened to each event, for the properties

callVars == <<pc, event, todo>>
vars == <<pending, states, stats, callVars, past>>

Caller == Client \cup Poller

NewState == [retry_count |-> 0, ready |-> TRUE, permanently_failed |-> FALSE]

Tracked(e) == e \in DOMAIN states
Failed(e) == Tracked(e) /\ states[e].permanently_failed

\* is_ready_for_retry
Ready == {e \in DOMAIN states : states[e].ready /\ ~states[e].permanently_failed}

Without(e) == [d \in DOMAIN states \ {e} |-> states[d]]

\* Between two deliveries, and between two calls, there is no event.
Goto(c, from, to) ==
  /\ pc[c] = from
  /\ pc' = [pc EXCEPT ![c] = to]
  /\ event' = [event EXCEPT ![c] = IF to \in {"idle", "polling"} THEN NoEvent ELSE @]
  /\ UNCHANGED todo

Init ==
  /\ pending = {}
  /\ states = [e \in {} |-> NewState]
  /\ stats = [successful |-> 0, failed |-> 0, pending |-> 0]
  /\ pc = [c \in Caller |-> "idle"]
  /\ event = [c \in Caller |-> NoEvent]
  /\ todo = [c \in Caller |-> {}]
  /\ past = [e \in Event |-> [queued |-> FALSE, delivered |-> FALSE, errors |-> 0,
                              cleared |-> FALSE, torn |-> FALSE]]

--------------------------------------------------------------------------------

(* queue_event *)

Queueing(e) == \E c \in Client : event[c] = e /\ pc[c] \in {"inserted", "tracked"}
Clearing == \E c \in Client : pc[c] \in {"clearing", "cleared"}

Queue(c, e) ==
  /\ pc[c] = "idle" /\ ~past[e].queued
  /\ pc' = [pc EXCEPT ![c] = "inserted"]
  /\ event' = [event EXCEPT ![c] = e]
  /\ pending' = pending \cup {e}
  /\ past' = [past EXCEPT ![e].queued = TRUE, ![e].torn = Clearing]
  /\ UNCHANGED <<states, stats, todo>>

\* queue_for_retry
Track(c) ==
  /\ Goto(c, "inserted", "tracked")
  /\ states' = [e \in DOMAIN states \cup {event[c]} |-> IF Tracked(e) THEN states[e] ELSE NewState]
  /\ UNCHANGED <<pending, stats, past>>

CountQueued(c) ==
  /\ Goto(c, "tracked", "idle")
  /\ stats' = [stats EXCEPT !.pending = @ + 1]
  /\ UNCHANGED <<pending, states, past>>

--------------------------------------------------------------------------------

(* process_pending_retries and deliver: a list of events, one for deliver. *)

Begin(c, events) ==
  /\ pc[c] = "idle"
  /\ pc' = [pc EXCEPT ![c] = "polling"]
  /\ todo' = [todo EXCEPT ![c] = events]
  /\ UNCHANGED <<pending, states, stats, event, past>>

Poll(c) == Ready # {} /\ Begin(c, Ready)

\* An id is known to who queued it once queue_event has returned.
Deliver(c, e) == past[e].queued /\ ~Queueing(e) /\ Begin(c, {e})

PollEnds(c) ==
  /\ todo[c] = {}
  /\ Goto(c, "polling", "idle")
  /\ UNCHANGED <<pending, states, stats, past>>

\* The event is looked up, and copied: what happens to it later goes unnoticed.
Look(c, e) ==
  /\ pc[c] = "polling" /\ e \in todo[c]
  /\ todo' = [todo EXCEPT ![c] = @ \ {e}]
  /\ IF e \in pending
       THEN /\ pc' = [pc EXCEPT ![c] = "sending"]
            /\ event' = [event EXCEPT ![c] = e]
       ELSE UNCHANGED <<pc, event>>
  /\ UNCHANGED <<pending, states, stats, past>>

\* deliver_event_internal: a 2xx answer, or another one, or none.
SendOk(c) ==
  /\ Goto(c, "sending", "ok")
  /\ past' = [past EXCEPT ![event[c]].delivered = TRUE]
  /\ UNCHANGED <<pending, states, stats>>

AtMost(n, bound) == IF n > bound THEN bound ELSE n

SendFails(c) ==
  /\ Goto(c, "sending", "error")
  /\ past' = [past EXCEPT ![event[c]].errors = AtMost(@ + 1, max_retries)]
  /\ UNCHANGED <<pending, states, stats>>

RecordSuccess(c) ==
  /\ Goto(c, "ok", "forgotten")
  /\ states' = Without(event[c])
  /\ UNCHANGED <<pending, stats, past>>

RemoveDelivered(c) ==
  /\ Goto(c, "forgotten", "delivered")
  /\ pending' = pending \ {event[c]}
  /\ UNCHANGED <<states, stats, past>>

\* A slip: the count may go below zero.
LessUnchecked(n) == n - 1

\* saturating_sub
Less(n) == IF n = 0 THEN 0 ELSE n - 1

CountDelivered(c) ==
  /\ Goto(c, "delivered", "polling")
  /\ stats' = [stats EXCEPT !.successful = @ + 1, !.pending = Less(@)]
  /\ UNCHANGED <<pending, states, past>>

\* A slip: the retry that is about to come is counted in advance.
GaveUpEarly(n) == n + 1 >= max_retries

GaveUp(n) == n >= max_retries

\* A slip: the errors are not counted.
RecordFailureUncounted(c) ==
  /\ Goto(c, "error", "recorded")
  /\ states' = IF Tracked(event[c]) THEN [states EXCEPT ![event[c]].ready = FALSE] ELSE states
  /\ UNCHANGED <<pending, stats, past>>

RecordFailure(c) ==
  LET e == event[c]
      n == states[e].retry_count + 1
  IN /\ Goto(c, "error", "recorded")
     /\ states' = IF Tracked(e)
                    THEN [states EXCEPT ![e] = [retry_count |-> n, ready |-> FALSE,
                                                permanently_failed |-> GaveUp(n)]]
                    ELSE states
     /\ UNCHANGED <<pending, stats, past>>

\* A slip: the state is not read again, and nobody notices the last failure.
NeverFails(c) ==
  /\ Goto(c, "recorded", "polling")
  /\ UNCHANGED <<pending, states, stats, past>>

\* The state is read again: it may be another delivery's by now, or gone.
CheckFailed(c) ==
  /\ Goto(c, "recorded", IF Failed(event[c]) THEN "exhausted" ELSE "polling")
  /\ UNCHANGED <<pending, states, stats, past>>

RemoveFailed(c) ==
  /\ Goto(c, "exhausted", "failed")
  /\ pending' = pending \ {event[c]}
  /\ UNCHANGED <<states, stats, past>>

CountFailed(c) ==
  /\ Goto(c, "failed", "polling")
  /\ stats' = [stats EXCEPT !.failed = @ + 1, !.pending = Less(@)]
  /\ UNCHANGED <<pending, states, past>>

--------------------------------------------------------------------------------

(* clear, and the retry manager's clock and clean-up *)

Clear(c) ==
  /\ pc[c] = "idle"
  /\ pc' = [pc EXCEPT ![c] = "clearing"]
  /\ pending' = {}
  /\ past' = [e \in Event |->
                [past[e] EXCEPT !.cleared = @ \/ e \in pending, !.torn = @ \/ Queueing(e)]]
  /\ UNCHANGED <<states, stats, event, todo>>

ClearStates(c) ==
  /\ Goto(c, "clearing", "cleared")
  /\ states' = [e \in {} |-> NewState]
  /\ UNCHANGED <<pending, stats, past>>

ClearStats(c) ==
  /\ Goto(c, "cleared", "idle")
  /\ stats' = [stats EXCEPT !.pending = 0]
  /\ UNCHANGED <<pending, states, past>>

\* next_retry_at passes.
Due(e) ==
  /\ Tracked(e) /\ ~states[e].ready /\ ~Failed(e)
  /\ states' = [states EXCEPT ![e].ready = TRUE]
  /\ UNCHANGED <<pending, stats, callVars, past>>

\* cleanup_old_failures, with a max_age longer than it takes to look again.
Cleanup(e) ==
  /\ Failed(e) /\ \A c \in Caller : ~(pc[c] = "recorded" /\ event[c] = e)
  /\ states' = Without(e)
  /\ UNCHANGED <<pending, stats, callVars, past>>

--------------------------------------------------------------------------------

Delivery(c) ==
  \/ PollEnds(c) \/ \E e \in Event : Look(c, e)
  \/ SendOk(c) \/ SendFails(c)
  \/ RecordSuccess(c) \/ RemoveDelivered(c) \/ CountDelivered(c)
  \/ RecordFailure(c) \/ CheckFailed(c) \/ RemoveFailed(c) \/ CountFailed(c)

Next ==
  \/ \E c \in Client :
       \/ \E e \in Event : Queue(c, e) \/ Deliver(c, e)
       \/ Track(c) \/ CountQueued(c)
       \/ Clear(c) \/ ClearStates(c) \/ ClearStats(c)
  \/ \E c \in Poller : Poll(c)
  \/ \E c \in Caller : Delivery(c)
  \/ \E e \in Event : Due(e) \/ Cleanup(e)

Spec == Init /\ [][Next]_vars

\* Somebody polls again and again, calls are polled to their end, time passes.
FairSpec ==
  /\ Spec
  /\ \A c \in Client :
       WF_vars(Track(c) \/ CountQueued(c) \/ ClearStates(c) \/ ClearStats(c))
  /\ \A c \in Poller : WF_vars(Poll(c))
  /\ \A c \in Caller : WF_vars(Delivery(c))
  /\ \A e \in Event : WF_vars(Due(e))

--------------------------------------------------------------------------------

RetryState == [retry_count : Nat, ready : BOOLEAN, permanently_failed : BOOLEAN]

\* The types; what pending_deliveries loses twice does not take it below zero.
TypeOK ==
  /\ pending \subseteq Event
  /\ DOMAIN states \subseteq Event /\ \A e \in DOMAIN states : states[e] \in RetryState
  /\ stats \in [successful : Nat, failed : Nat, pending : Nat]
  /\ pc \in [Caller -> {"idle", "inserted", "tracked", "polling", "sending", "ok", "forgotten",
                        "delivered", "error", "recorded", "exhausted", "failed",
                        "clearing", "cleared"}]
  /\ event \in [Caller -> Event \cup {NoEvent}]
  /\ todo \in [Caller -> SUBSET Event]
  /\ past \in [Event -> [queued : BOOLEAN, delivered : BOOLEAN, errors : 0 .. max_retries,
                         cleared : BOOLEAN, torn : BOOLEAN]]

At(e, where) == \E c \in Caller : event[c] = e /\ pc[c] \in where

\* The two maps stay in step, though every call changes them one after the
\* other.  No event is stranded: while it is pending it will be tried again, or
\* a call is about to track it or to take it off.  And what is retried is
\* pending: "Event not found in queue" would be the answer to every poll for
\* ever.  Only a clear in the middle of its queue_event tears the two apart.
MapsAgree ==
  \A e \in Event : past[e].torn \/
    /\ e \in pending =>
         \/ Tracked(e) /\ ~Failed(e)
         \/ At(e, {"inserted", "forgotten", "recorded", "exhausted"})
    /\ Tracked(e) =>
         e \in pending \/ Failed(e) \/ \E c \in Client : pc[c] = "clearing"

Settled == {e \in Event : /\ past[e].queued /\ ~past[e].cleared /\ e \notin pending
                          /\ ~At(e, {"delivered", "failed"})}

\* An event leaves the queue delivered, cleared, or after max_retries errors,
\* however many deliveries of it overlap, and it is not left out of the count of
\* those delivered and those failed.
SettledRightly ==
  /\ \A e \in Event :
       past[e].queued /\ e \notin pending
         => past[e].delivered \/ past[e].cleared \/ past[e].errors = max_retries
  /\ Cardinality(Settled) <= stats.successful + stats.failed

\* A queued event is settled, as long as somebody polls.
EventsSettle ==
  \A e \in Event : e \in pending ~> e \notin pending \/ past[e].torn

================================================================================

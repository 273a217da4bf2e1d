------------------------------ MODULE WebhookDeliveryProofs ------------------------------
(***************************************************************************)
(* Proofs about WebhookDelivery for any finite sets of events, of clients  *)
(* and of pollers, and every max_retries.                                  *)
(***************************************************************************)
EXTENDS WebhookDelivery, FiniteSetTheorems, TLAPS

Delivering == {"sending", "ok", "forgotten", "delivered", "error", "recorded", "exhausted", "failed"}

\* A call has an event while it works on one, and only clients queue and clear.
Calls ==
  \A c \in Caller :
    /\ pc[c] \in Delivering \cup {"inserted", "tracked"} => event[c] \in Event
    /\ pc[c] \in {"inserted", "tracked", "clearing", "cleared"} => c \in Client

\* Nothing is known of an event before it is queued.
Known ==
  /\ \A e \in pending : past[e].queued
  /\ \A e \in DOMAIN states : past[e].queued
  /\ \A c \in Caller : \A e \in todo[c] : past[e].queued
  /\ \A c \in Caller :
       pc[c] \in Delivering \cup {"inserted", "tracked"} => past[event[c]].queued

\* Nobody but its client touches an event before it is tracked.
Untouched ==
  \A c \in Caller :
    pc[c] = "inserted" =>
      /\ event[c] \notin DOMAIN states
      /\ event[c] \in pending \/ past[event[c]].torn
      /\ \A d \in Caller : event[c] \notin todo[d]
      /\ \A d \in Caller \ {c} :
           pc[d] \in Delivering \cup {"inserted", "tracked"} => event[d] # event[c]

\* A clear leaves no pending event behind but those it tears.
Cleared ==
  Clearing => \A e \in pending : past[e].torn

\* What a delivery has found of the state stays true until it acts on it.
Gone == \A c \in Caller : pc[c] = "forgotten" => event[c] \notin DOMAIN states

Exhausted ==
  \A c \in Caller :
    pc[c] = "exhausted" /\ event[c] \in DOMAIN states => states[event[c]].permanently_failed

FailedRightly ==
  \A e \in DOMAIN states : states[e].permanently_failed => states[e].retry_count >= max_retries

Found == Gone /\ Exhausted /\ FailedRightly

\* A pending event has a future: a state to be retried by, or a call that is
\* bound to take it off.
HasFuture(e) ==
  \/ Tracked(e) /\ ~Failed(e)
  \/ At(e, {"inserted", "forgotten", "exhausted"})
  \/ Failed(e) /\ At(e, {"recorded"})

Futures ==
  /\ \A e \in pending : past[e].torn \/ HasFuture(e)
  /\ \A e \in DOMAIN states :
       \/ past[e].torn \/ e \in pending \/ Failed(e)
       \/ \E c \in Client : pc[c] = "clearing"

\* The calls that have an error still to record.
Erring(e) == {c \in Caller : pc[c] = "error" /\ event[c] = e}

\* Errors are recorded once, and what is decided by their number is right.
Errors ==
  /\ \A e \in DOMAIN states :
       \/ past[e].errors = max_retries
       \/ states[e].retry_count + Cardinality(Erring(e)) <= past[e].errors
  /\ \A c \in Caller :
       /\ pc[c] \in {"ok", "forgotten"} => past[event[c]].delivered
       /\ pc[c] = "exhausted" => past[event[c]].errors = max_retries

DInv ==
  /\ TypeOK /\ Calls /\ Known /\ Untouched /\ Cleared
  /\ Found /\ Futures /\ Errors /\ SettledRightly

--------------------------------------------------------------------------------
(* Counting. *)

LEMMA CallersAreFinite == IsFiniteSet(Caller)
BY WebhookDeliveryAssumption, FS_Union DEF Caller

LEMMA ErringIsNat == ASSUME NEW e PROVE Cardinality(Erring(e)) \in Nat
<1>1. IsFiniteSet(Erring(e))
  BY CallersAreFinite, FS_Subset DEF Erring
<1>. QED
  BY <1>1, FS_CardinalityType

\* A step of one call leaves the other calls where they are.
OnlyCall(c) == \A d \in Caller \ {c} : pc'[d] = pc[d] /\ event'[d] = event[d]

\* A call that goes on without an error makes no difference.
LEMMA ErringSame ==
  ASSUME NEW c \in Caller, OnlyCall(c), pc[c] # "error", pc'[c] # "error", NEW e
  PROVE  Erring(e)' = Erring(e)
BY DEF OnlyCall, Erring

LEMMA ErringMore ==
  ASSUME NEW c \in Caller, OnlyCall(c), pc[c] # "error", NEW e
  PROVE  Cardinality(Erring(e))' \in Cardinality(Erring(e)) .. Cardinality(Erring(e)) + 1
<1>1. Erring(e)' \in {Erring(e), Erring(e) \cup {c}}
  BY DEF OnlyCall, Erring
<1>2. IsFiniteSet(Erring(e)) /\ c \notin Erring(e)
  BY CallersAreFinite, FS_Subset DEF Erring
<1>. QED
  BY <1>1, <1>2, FS_AddElement, ErringIsNat

LEMMA ErringLess ==
  ASSUME NEW c \in Caller, OnlyCall(c), pc[c] = "error", pc'[c] # "error", NEW e
  PROVE  IF e = event[c] THEN Cardinality(Erring(e))' = Cardinality(Erring(e)) - 1
                         ELSE Erring(e)' = Erring(e)
<1>1. Erring(e)' = IF e = event[c] THEN Erring(e) \ {c} ELSE Erring(e)
  BY DEF OnlyCall, Erring
<1>2. IsFiniteSet(Erring(e)) /\ (e = event[c] => c \in Erring(e))
  BY CallersAreFinite, FS_Subset DEF Erring
<1>. QED
  BY <1>1, <1>2, FS_RemoveElement

--------------------------------------------------------------------------------
(* The invariant holds initially, and every step keeps it. *)

LEMMA DInvInit == Init => DInv
<1>. SUFFICES ASSUME Init PROVE DInv
  OBVIOUS
<1>1. TypeOK
  BY WebhookDeliveryAssumption DEF Init, TypeOK
<1>2. Calls /\ Known /\ Untouched /\ Cleared /\ Found /\ Futures /\ Errors
  BY DEF Init, Calls, Known, Untouched, Cleared, Found, Gone, Exhausted,
         FailedRightly, Futures, Errors, Delivering, Clearing, Caller
<1>3. Settled = {}
  BY DEF Init, Settled
<1>4. SettledRightly
  BY <1>3, FS_EmptySet DEF Init, SettledRightly
<1>. QED
  BY <1>1, <1>2, <1>4 DEF DInv

\* What counts of the settled events: as many as before, or one more.
LEMMA SettledSame ==
  ASSUME Settled' \subseteq Settled
  PROVE  Cardinality(Settled') <= Cardinality(Settled)
         /\ Cardinality(Settled') \in Nat /\ Cardinality(Settled) \in Nat
<1>1. IsFiniteSet(Settled)
  BY WebhookDeliveryAssumption, FS_Subset DEF Settled
<1>. QED
  BY <1>1, FS_Subset, FS_CardinalityType

LEMMA SettledMore ==
  ASSUME NEW e, Settled' \subseteq Settled \cup {e}
  PROVE  Cardinality(Settled') <= Cardinality(Settled) + 1
         /\ Cardinality(Settled') \in Nat /\ Cardinality(Settled) \in Nat
<1>1. IsFiniteSet(Settled)
  BY WebhookDeliveryAssumption, FS_Subset DEF Settled
<1>2. IsFiniteSet(Settled \cup {e}) /\ Cardinality(Settled \cup {e}) <= Cardinality(Settled) + 1
      /\ Cardinality(Settled) \in Nat
  BY <1>1, FS_AddElement, FS_CardinalityType
<1>. QED
  BY <1>2, FS_Subset, FS_CardinalityType

\* queue_event
LEMMA QueueStep ==
  ASSUME DInv, NEW c \in Client, NEW e \in Event, Queue(c, e)
  PROVE  DInv'
<1>. USE DEF DInv
<1>1. /\ c \in Caller /\ pc[c] = "idle" /\ pc'[c] = "inserted" /\ event'[c] = e
      /\ OnlyCall(c)
      /\ pending' = pending \cup {e} /\ UNCHANGED <<states, stats, todo>>
  BY DEF Queue, TypeOK, Caller, OnlyCall
<1>2. /\ past'[e] = [past[e] EXCEPT !.queued = TRUE, !.torn = Clearing]
      /\ \A d \in Event \ {e} : past'[d] = past[d]
      /\ ~past[e].queued
  BY DEF Queue, TypeOK
<1>3. Clearing \in BOOLEAN
  BY DEF Clearing
<1>4. /\ past'[e].queued /\ (Clearing => past'[e].torn)
      /\ past'[e].delivered = past[e].delivered /\ past'[e].errors = past[e].errors
      /\ past'[e].cleared = past[e].cleared
  BY <1>2, <1>3 DEF TypeOK
<1>5. TypeOK'
  <2>1. past' \in [Event -> [queued : BOOLEAN, delivered : BOOLEAN, errors : 0 .. max_retries,
                             cleared : BOOLEAN, torn : BOOLEAN]]
    BY <1>3 DEF Queue, TypeOK
  <2>. QED
    BY <1>1, <2>1 DEF Queue, TypeOK
<1>6. Calls'
  BY <1>1 DEF Calls, Delivering, OnlyCall
<1>7. e \notin pending /\ e \notin DOMAIN states /\ \A d \in Caller : e \notin todo[d]
  BY <1>2 DEF Known
<1>8. \A d \in Caller : pc[d] \in Delivering \cup {"inserted", "tracked"} => event[d] # e
  BY <1>2 DEF Known
<1>9. Known' /\ Untouched'
  <2>1. \A d \in Event : past[d].queued => past'[d].queued
    BY <1>2, <1>4
  <2>2. \A d \in Event : past[d].torn => d = e \/ past'[d].torn
    BY <1>2
  <2>3. Known'
    BY <1>1, <1>4, <2>1 DEF TypeOK, Calls, Known, Delivering, OnlyCall
  <2>4. Untouched'
    BY <1>1, <2>2, <1>7, <1>8 DEF TypeOK, Calls, Untouched, Delivering, OnlyCall
  <2>. QED
    BY <2>3, <2>4
<1>10. Clearing' <=> Clearing
  BY <1>1 DEF Clearing, OnlyCall, Caller
<1>11. Cleared'
  <2>. SUFFICES ASSUME Clearing, NEW d \in pending \cup {e} PROVE past'[d].torn
    BY <1>1, <1>10 DEF Cleared
  <2>1. CASE d = e
    BY <1>4, <2>1
  <2>2. CASE d # e
    BY <1>2, <2>2 DEF TypeOK, Cleared
  <2>. QED
    BY <2>1, <2>2
<1>12. Found'
  BY <1>1 DEF Found, Gone, Exhausted, FailedRightly, OnlyCall
<1>13. \A d \in Event : HasFuture(d) => HasFuture(d)'
  BY <1>1 DEF HasFuture, At, Tracked, Failed, OnlyCall
<1>14. HasFuture(e)'
  BY <1>1 DEF HasFuture, At
<1>15. \A d \in Client : pc[d] = "clearing" => pc'[d] = "clearing"
  BY <1>1 DEF OnlyCall, Caller
<1>16. Futures'
  BY <1>1, <1>2, <1>7, <1>13, <1>14, <1>15 DEF TypeOK, Futures, Tracked, Failed
<1>17. \A d \in Event : Erring(d)' = Erring(d)
  BY <1>1, ErringSame
<1>18. Errors'
  BY <1>1, <1>2, <1>7, <1>8, <1>17 DEF TypeOK, Calls, Errors, OnlyCall, Delivering
<1>19. Settled' \subseteq Settled
  BY <1>1, <1>2, <1>4 DEF TypeOK, Settled, At, OnlyCall
<1>20. SettledRightly'
  BY <1>1, <1>2, <1>4, <1>19, SettledSame DEF TypeOK, SettledRightly
<1>. QED
  BY <1>5, <1>6, <1>9, <1>11, <1>12, <1>16, <1>18, <1>20

--------------------------------------------------------------------------------
(* The steps that go from one place of a call to the next. *)

Places ==
  Delivering \cup {"idle", "inserted", "tracked", "polling", "clearing", "cleared"}

Goes(c, from, to) ==
  /\ pc[c] = from /\ pc'[c] = to
  /\ event'[c] = IF to \in {"idle", "polling"} THEN NoEvent ELSE event[c]
  /\ OnlyCall(c)
  /\ todo' = todo

LEMMA GotoGoes ==
  ASSUME TypeOK, NEW c \in Caller, NEW from, NEW to, Goto(c, from, to)
  PROVE  Goes(c, from, to)
BY DEF TypeOK, Goto, Goes, OnlyCall

LEMMA GotoTyped ==
  ASSUME TypeOK, Calls, NEW c \in Caller, NEW from, NEW to \in Places, Goto(c, from, to),
         to \in Delivering \cup {"inserted", "tracked"} => event[c] \in Event,
         to \in {"inserted", "tracked", "clearing", "cleared"} => c \in Client
  PROVE  /\ pc' \in [Caller -> Places]
         /\ event' \in [Caller -> Event \cup {NoEvent}]
         /\ todo' \in [Caller -> SUBSET Event]
         /\ Calls'
<1>1. pc \in [Caller -> Places] /\ event \in [Caller -> Event \cup {NoEvent}]
  BY DEF TypeOK, Places, Delivering
<1>2. pc' \in [Caller -> Places] /\ event' \in [Caller -> Event \cup {NoEvent}]
  <2>1. pc' \in [Caller -> Places]
    BY <1>1 DEF Goto
  <2>2. CASE to \in {"idle", "polling"}
    BY <1>1, <2>1, <2>2 DEF Goto
  <2>3. CASE to \notin {"idle", "polling"}
    BY <1>1, <2>1, <2>3 DEF Goto
  <2>. QED
    BY <2>2, <2>3
<1>3. Calls'
  BY GotoGoes DEF Goes, OnlyCall, Calls, Delivering
<1>. QED
  BY <1>2, <1>3 DEF TypeOK, Goto

\* A step from and to places where nobody waits for the call, but that it takes
\* a failed event off the queue.
Quiet(c) ==
  /\ \/ pc[c] \in {"idle", "tracked", "polling", "delivered", "failed", "cleared"}
     \/ pc[c] = "recorded" /\ (Failed(event[c]) => pc'[c] = "exhausted")
  /\ \/ pc'[c] \in {"idle", "polling"}
     \/ pc'[c] = "sending" /\ event'[c] \in todo[c]
     \/ /\ pc'[c] = "exhausted" /\ pc[c] = "recorded" /\ event'[c] = event[c]
        /\ Failed(event[c])

Fresh(e) == \E c \in Caller : pc[c] = "inserted" /\ event[c] = e

\* The calls take on no event but one that is queued and tracked.
TakesOn ==
  \A c \in Caller : \A e \in todo'[c] : e \in todo[c] \/ (past[e].queued /\ ~Fresh(e))

\* A step that changes neither map.
LEMMA QuietStep ==
  ASSUME DInv, NEW c \in Caller, OnlyCall(c), UNCHANGED <<pending, states, past>>,
         TypeOK', Calls', SettledRightly', Quiet(c), TakesOn
  PROVE  DInv'
<1>. USE DEF DInv, Quiet
<1>1. Known'
  BY DEF Known, TakesOn, OnlyCall, Delivering
<1>2. Untouched'
  BY DEF Untouched, TakesOn, Fresh, OnlyCall, Delivering, Calls
<1>3. Cleared'
  BY DEF Cleared, Clearing, OnlyCall, Caller
<1>4. Found'
  BY DEF Found, Gone, Exhausted, FailedRightly, Failed, OnlyCall
<1>5. \A e \in Event : HasFuture(e) => HasFuture(e)'
  <2>. SUFFICES ASSUME NEW e \in Event, HasFuture(e) PROVE HasFuture(e)'
    OBVIOUS
  <2>1. Tracked(e)' = Tracked(e) /\ Failed(e)' = Failed(e)
    BY DEF Tracked, Failed
  <2>2. At(e, {"inserted", "forgotten", "exhausted"}) => At(e, {"inserted", "forgotten", "exhausted"})'
    BY DEF At, OnlyCall
  <2>3. Failed(e) /\ At(e, {"recorded"}) => At(e, {"recorded"})' \/ At(e, {"exhausted"})'
    BY DEF At, OnlyCall
  <2>. QED
    BY <2>1, <2>2, <2>3 DEF HasFuture, At
<1>6. \A d \in Client : pc[d] = "clearing" => pc'[d] = "clearing"
  BY DEF OnlyCall, Caller
<1>7. Futures'
  BY <1>5, <1>6 DEF TypeOK, Futures, Tracked, Failed
<1>8. Errors'
  <2>1. \A e \in Event : Erring(e)' = Erring(e)
    BY ErringSame
  <2>2. pc'[c] = "exhausted" => past[event[c]].errors = max_retries
    <3>. SUFFICES ASSUME pc'[c] = "exhausted" PROVE past[event[c]].errors = max_retries
      OBVIOUS
    <3>1. Failed(event[c]) /\ event[c] \in Event
      BY DEF Calls, Delivering
    <3>2. /\ states[event[c]].retry_count >= max_retries
          /\ states[event[c]].retry_count \in Nat
          /\ event[c] \in DOMAIN states
      BY <3>1 DEF Found, Gone, Exhausted, FailedRightly, Failed, Tracked, TypeOK, RetryState
    <3>3. past[event[c]].errors \in 0 .. max_retries
      BY <3>1 DEF TypeOK
    <3>. QED
      BY <3>2, <3>3, ErringIsNat, WebhookDeliveryAssumption DEF Errors
  <2>. QED
    BY <2>1, <2>2 DEF TypeOK, Errors, OnlyCall
<1>. QED
  BY <1>1, <1>2, <1>3, <1>4, <1>7, <1>8

--------------------------------------------------------------------------------
(* The steps that change neither map. *)

LEMMA CountQueuedStep == ASSUME DInv, NEW c \in Client, CountQueued(c) PROVE DInv'
<1>. USE DEF DInv
<1>1. c \in Caller /\ Goes(c, "tracked", "idle") /\ UNCHANGED <<pending, states, past>>
  BY GotoGoes DEF CountQueued, Caller
<1>2. stats' \in [successful : Nat, failed : Nat, pending : Nat]
      /\ stats'.successful = stats.successful /\ stats'.failed = stats.failed
  BY DEF CountQueued, TypeOK
<1>3. TypeOK' /\ Calls'
  BY <1>1, <1>2, GotoTyped DEF CountQueued, TypeOK, Places, Delivering, RetryState
<1>4. Settled' \subseteq Settled
  BY <1>1 DEF Goes, OnlyCall, Settled, At
<1>5. SettledRightly'
  BY <1>1, <1>2, <1>4, SettledSame DEF TypeOK, SettledRightly
<1>. QED
  BY <1>1, <1>3, <1>5, QuietStep DEF Goes, Quiet, TakesOn

LEMMA PollEndsStep == ASSUME DInv, NEW c \in Caller, PollEnds(c) PROVE DInv'
<1>. USE DEF DInv
<1>1. Goes(c, "polling", "idle") /\ UNCHANGED <<pending, states, past, stats>>
  BY GotoGoes DEF PollEnds
<1>2. TypeOK' /\ Calls'
  BY <1>1, GotoTyped DEF PollEnds, TypeOK, Places, Delivering, RetryState
<1>3. Settled' \subseteq Settled
  BY <1>1 DEF Goes, OnlyCall, Settled, At
<1>4. SettledRightly'
  BY <1>1, <1>3, SettledSame DEF TypeOK, SettledRightly
<1>. QED
  BY <1>1, <1>2, <1>4, QuietStep DEF Goes, Quiet, TakesOn

LEMMA CheckFailedStep == ASSUME DInv, NEW c \in Caller, CheckFailed(c) PROVE DInv'
<1>. USE DEF DInv
<1>. DEFINE to == IF Failed(event[c]) THEN "exhausted" ELSE "polling"
<1>1. Goes(c, "recorded", to) /\ UNCHANGED <<pending, states, past, stats>>
  BY GotoGoes DEF CheckFailed
<1>2. event[c] \in Event
  BY <1>1 DEF Goes, Calls, Delivering
<1>3. TypeOK' /\ Calls'
  BY <1>1, <1>2, GotoTyped DEF CheckFailed, TypeOK, Places, Delivering, RetryState
<1>4. Settled' \subseteq Settled
  BY <1>1 DEF Goes, OnlyCall, Settled, At
<1>5. SettledRightly'
  BY <1>1, <1>4, SettledSame DEF TypeOK, SettledRightly
<1>. QED
  BY <1>1, <1>3, <1>5, QuietStep DEF Goes, Quiet, TakesOn

LEMMA ClearStatsStep == ASSUME DInv, NEW c \in Client, ClearStats(c) PROVE DInv'
<1>. USE DEF DInv
<1>1. c \in Caller /\ Goes(c, "cleared", "idle") /\ UNCHANGED <<pending, states, past>>
  BY GotoGoes DEF ClearStats, Caller
<1>2. stats' \in [successful : Nat, failed : Nat, pending : Nat]
      /\ stats'.successful = stats.successful /\ stats'.failed = stats.failed
  BY DEF ClearStats, TypeOK
<1>3. TypeOK' /\ Calls'
  BY <1>1, <1>2, GotoTyped DEF ClearStats, TypeOK, Places, Delivering, RetryState
<1>4. Settled' \subseteq Settled
  BY <1>1 DEF Goes, OnlyCall, Settled, At
<1>5. SettledRightly'
  BY <1>1, <1>2, <1>4, SettledSame DEF TypeOK, SettledRightly
<1>. QED
  BY <1>1, <1>3, <1>5, QuietStep DEF Goes, Quiet, TakesOn

\* The statistics count one more event settled.
LEMMA CountSettledStep ==
  ASSUME DInv, NEW c \in Caller, CountDelivered(c) \/ CountFailed(c)
  PROVE  DInv'
<1>. USE DEF DInv
<1>1. PICK from \in {"delivered", "failed"} :
        Goto(c, from, "polling") /\ UNCHANGED <<pending, states, past>>
  BY DEF CountDelivered, CountFailed
<1>2. Goes(c, from, "polling")
  BY <1>1, GotoGoes
<1>3. Less(stats.pending) \in Nat
  BY DEF TypeOK, Less
<1>4. /\ stats' \in [successful : Nat, failed : Nat, pending : Nat]
      /\ stats'.successful + stats'.failed = stats.successful + stats.failed + 1
  <2>1. CASE CountDelivered(c)
    <3>1. stats.successful \in Nat /\ stats.failed \in Nat
      BY DEF TypeOK
    <3>. DEFINE m == stats.successful + 1
                n == Less(stats.pending)
    <3>2. stats' = [stats EXCEPT !.successful = m, !.pending = n]
      BY <2>1 DEF CountDelivered
    <3>4. m \in Nat /\ n \in Nat /\ m = stats.successful + 1
      BY <1>3, <3>1
    <3>. HIDE DEF m, n
    <3>3. /\ stats'.successful = m /\ stats'.failed = stats.failed
          /\ stats' \in [successful : Nat, failed : Nat, pending : Nat]
      BY <3>2, <3>4 DEF TypeOK
    <3>. QED
      BY <3>1, <3>3, <3>4
  <2>2. CASE CountFailed(c)
    <3>1. stats.successful \in Nat /\ stats.failed \in Nat
      BY DEF TypeOK
    <3>. DEFINE m == stats.failed + 1
                n == Less(stats.pending)
    <3>2. stats' = [stats EXCEPT !.failed = m, !.pending = n]
      BY <2>2 DEF CountFailed
    <3>4. m \in Nat /\ n \in Nat /\ m = stats.failed + 1
      BY <1>3, <3>1
    <3>. HIDE DEF m, n
    <3>3. /\ stats'.failed = m /\ stats'.successful = stats.successful
          /\ stats' \in [successful : Nat, failed : Nat, pending : Nat]
      BY <3>2, <3>4 DEF TypeOK
    <3>. QED
      BY <3>1, <3>3, <3>4
  <2>. QED
    BY <2>1, <2>2
<1>5. TypeOK' /\ Calls'
  BY <1>1, <1>4, GotoTyped DEF TypeOK, Places, Delivering, RetryState
<1>6. Settled' \subseteq Settled \cup {event[c]}
  BY <1>1, <1>2 DEF Goes, OnlyCall, Settled, At
<1>7. SettledRightly'
  <2>1. stats.successful + stats.failed \in Nat
    BY DEF TypeOK
  <2>2. Cardinality(Settled)' <= stats'.successful + stats'.failed
    BY <1>4, <1>6, <2>1, SettledMore DEF SettledRightly
  <2>. QED
    BY <1>1, <2>2 DEF SettledRightly
<1>. QED
  BY <1>1, <1>2, <1>5, <1>7, QuietStep DEF Goes, Quiet, TakesOn

\* The steps that take events, to deliver them.
LEMMA BeginStep ==
  ASSUME DInv, NEW c \in Caller, NEW events \in SUBSET Event, Begin(c, events),
         \A e \in events : past[e].queued /\ ~Fresh(e)
  PROVE  DInv'
<1>. USE DEF DInv
<1>1. /\ pc[c] = "idle" /\ pc'[c] = "polling" /\ OnlyCall(c)
      /\ todo'[c] = events /\ \A d \in Caller \ {c} : todo'[d] = todo[d]
      /\ UNCHANGED <<pending, states, past, stats, event>>
  BY DEF Begin, TypeOK, OnlyCall
<1>2. TypeOK'
  BY <1>1 DEF Begin, TypeOK, RetryState
<1>3. Calls'
  BY <1>1 DEF Calls, OnlyCall, Delivering
<1>4. Settled' \subseteq Settled
  BY <1>1 DEF OnlyCall, Settled, At
<1>5. SettledRightly'
  BY <1>1, <1>4, SettledSame DEF TypeOK, SettledRightly
<1>. QED
  BY <1>1, <1>2, <1>3, <1>5, QuietStep DEF Quiet, TakesOn

LEMMA PollStep == ASSUME DInv, NEW c \in Poller, Poll(c) PROVE DInv'
<1>1. Ready \in SUBSET Event
  BY DEF DInv, TypeOK, Ready
<1>2. \A e \in Ready : past[e].queued /\ ~Fresh(e)
  BY DEF DInv, Known, Untouched, Ready, Fresh
<1>. QED
  BY <1>1, <1>2, BeginStep DEF Poll, Caller

LEMMA DeliverStep ==
  ASSUME DInv, NEW c \in Client, NEW e \in Event, Deliver(c, e)
  PROVE  DInv'
<1>1. past[e].queued /\ ~Fresh(e)
  BY DEF DInv, Calls, Deliver, Fresh, Queueing
<1>. QED
  BY <1>1, BeginStep DEF Deliver, Caller

LEMMA LookStep ==
  ASSUME DInv, NEW c \in Caller, NEW e \in Event, Look(c, e)
  PROVE  DInv'
<1>. USE DEF DInv
<1>1. /\ pc[c] = "polling" /\ OnlyCall(c) /\ e \in todo[c]
      /\ \A d \in Caller : todo'[d] \subseteq todo[d]
      /\ \/ pc'[c] = "sending" /\ event'[c] = e
         \/ pc'[c] = "polling"
      /\ UNCHANGED <<pending, states, past, stats>>
  BY DEF Look, TypeOK, OnlyCall
<1>2. TypeOK'
  BY DEF Look, TypeOK, RetryState
<1>3. Calls'
  BY <1>1 DEF Calls, OnlyCall, Delivering
<1>4. Settled' \subseteq Settled
  BY <1>1 DEF OnlyCall, Settled, At
<1>5. SettledRightly'
  BY <1>1, <1>4, SettledSame DEF TypeOK, SettledRightly
<1>. QED
  BY <1>1, <1>2, <1>3, <1>5, QuietStep DEF Quiet, TakesOn

--------------------------------------------------------------------------------
(* The steps of a delivery that change a map or the event's past. *)

\* What a delivery never changes of an event's past.
PastKept ==
  \A e \in Event : /\ past'[e].queued = past[e].queued
                   /\ past'[e].torn = past[e].torn
                   /\ past'[e].cleared = past[e].cleared
                   /\ past[e].delivered => past'[e].delivered
                   /\ past[e].errors = max_retries => past'[e].errors = max_retries

LEMMA DeliveryFrame ==
  ASSUME DInv, NEW c \in Caller, NEW from \in Delivering, NEW to \in Delivering,
         Goes(c, from, to), PastKept, DOMAIN states' \subseteq DOMAIN states,
         pending' \in {pending, pending \ {event[c]}}
  PROVE  /\ event[c] \in Event
         /\ Known' /\ Untouched' /\ Cleared'
<1>. USE DEF DInv, Goes
<1>1. event[c] \in Event /\ event'[c] = event[c]
  BY DEF Calls, Delivering
<1>2. pc[c] # "inserted" /\ pc'[c] \notin {"inserted", "clearing", "cleared"}
  BY DEF Delivering
<1>3. \A d \in Caller : todo[d] \subseteq Event
  BY DEF TypeOK
<1>4. Known'
  BY <1>1, <1>3 DEF TypeOK, Calls, Known, PastKept, OnlyCall, Delivering
<1>5. Untouched'
  BY <1>1, <1>2 DEF TypeOK, Calls, Untouched, PastKept, OnlyCall
<1>6. Clearing' => Clearing
  BY <1>2 DEF Clearing, OnlyCall, Caller
<1>7. Cleared'
  BY <1>6 DEF TypeOK, Cleared, PastKept
<1>. QED
  BY <1>1, <1>4, <1>5, <1>7

LEMMA FutureKept ==
  ASSUME NEW c \in Caller, OnlyCall(c), states' = states, NEW e, HasFuture(e),
         event[c] # e \/ pc[c] \notin {"inserted", "forgotten", "exhausted", "recorded"}
  PROVE  HasFuture(e)'
<1>1. Tracked(e)' = Tracked(e) /\ Failed(e)' = Failed(e)
  BY DEF Tracked, Failed
<1>2. \A where \in {{"inserted", "forgotten", "exhausted"}, {"recorded"}} :
        At(e, where) => At(e, where)'
  BY DEF At, OnlyCall
<1>. QED
  BY <1>1, <1>2 DEF HasFuture

LEMMA SendOkStep == ASSUME DInv, NEW c \in Caller, SendOk(c) PROVE DInv'
<1>. USE DEF DInv
<1>1. Goes(c, "sending", "ok") /\ UNCHANGED <<pending, states, stats>>
  BY GotoGoes DEF SendOk
<1>2. event[c] \in Event /\ event'[c] = event[c]
  BY <1>1 DEF Goes, Calls, Delivering
<1>3. /\ past' = [past EXCEPT ![event[c]].delivered = TRUE]
      /\ past'[event[c]].delivered /\ PastKept
      /\ \A e \in Event : past'[e].errors = past[e].errors
  BY <1>2 DEF SendOk, TypeOK, PastKept
<1>4. TypeOK' /\ Calls'
  <2>1. past' \in [Event -> [queued : BOOLEAN, delivered : BOOLEAN, errors : 0 .. max_retries,
                             cleared : BOOLEAN, torn : BOOLEAN]]
    <3>1. [past[event[c]] EXCEPT !.delivered = TRUE]
            \in [queued : BOOLEAN, delivered : BOOLEAN, errors : 0 .. max_retries,
                cleared : BOOLEAN, torn : BOOLEAN]
      BY <1>2 DEF TypeOK
    <3>. QED
      BY <1>2, <3>1 DEF SendOk, TypeOK
  <2>. QED
    BY <1>1, <1>2, <2>1, GotoTyped DEF SendOk, TypeOK, Places, Delivering, RetryState
<1>5. Known' /\ Untouched' /\ Cleared'
  BY <1>1, <1>3, DeliveryFrame DEF Delivering
<1>6. Found'
  BY <1>1 DEF Found, Gone, Exhausted, FailedRightly, Goes, OnlyCall
<1>7. Futures'
  <2>1. \A e \in Event : HasFuture(e) => HasFuture(e)'
    BY <1>1, FutureKept DEF Goes
  <2>2. \A d \in Client : pc[d] = "clearing" => pc'[d] = "clearing"
    BY <1>1 DEF Goes, OnlyCall, Caller
  <2>. QED
    BY <1>1, <1>3, <2>1, <2>2 DEF TypeOK, Futures, PastKept, Tracked, Failed
<1>8. Errors'
  <2>1. \A e \in Event : Erring(e)' = Erring(e)
    BY <1>1, ErringSame DEF Goes
  <2>. QED
    BY <1>1, <1>2, <1>3, <2>1 DEF TypeOK, Calls, Errors, PastKept, Goes, OnlyCall, Delivering
<1>9. Settled' \subseteq Settled
  BY <1>1, <1>3 DEF Goes, OnlyCall, Settled, At, PastKept
<1>10. SettledRightly'
  BY <1>1, <1>3, <1>9, SettledSame DEF TypeOK, SettledRightly, PastKept
<1>. QED
  BY <1>4, <1>5, <1>6, <1>7, <1>8, <1>10

LEMMA SendFailsStep == ASSUME DInv, NEW c \in Caller, SendFails(c) PROVE DInv'
<1>. USE DEF DInv
<1>1. Goes(c, "sending", "error") /\ UNCHANGED <<pending, states, stats>>
  BY GotoGoes DEF SendFails
<1>2. event[c] \in Event /\ event'[c] = event[c]
  BY <1>1 DEF Goes, Calls, Delivering
<1>. DEFINE n == AtMost(past[event[c]].errors + 1, max_retries)
<1>3. /\ past[event[c]].errors \in 0 .. max_retries /\ n \in 0 .. max_retries
      /\ n = max_retries \/ n = past[event[c]].errors + 1
      /\ past[event[c]].errors = max_retries => n = max_retries
  BY <1>2, WebhookDeliveryAssumption DEF TypeOK, AtMost
<1>4. past' = [past EXCEPT ![event[c]].errors = n]
  BY DEF SendFails
<1>. HIDE DEF n
<1>5. PastKept
  BY <1>2, <1>3, <1>4 DEF TypeOK, PastKept
<1>6. TypeOK' /\ Calls'
  <2>1. past' \in [Event -> [queued : BOOLEAN, delivered : BOOLEAN, errors : 0 .. max_retries,
                             cleared : BOOLEAN, torn : BOOLEAN]]
    BY <1>2, <1>3, <1>4 DEF TypeOK
  <2>. QED
    BY <1>1, <1>2, <2>1, GotoTyped DEF SendFails, TypeOK, Places, Delivering, RetryState
<1>7. Known' /\ Untouched' /\ Cleared'
  BY <1>1, <1>5, DeliveryFrame DEF Delivering
<1>8. Found'
  BY <1>1 DEF Found, Gone, Exhausted, FailedRightly, Goes, OnlyCall
<1>9. Futures'
  <2>1. \A e \in Event : HasFuture(e) => HasFuture(e)'
    BY <1>1, FutureKept DEF Goes
  <2>2. \A d \in Client : pc[d] = "clearing" => pc'[d] = "clearing"
    BY <1>1 DEF Goes, OnlyCall, Caller
  <2>. QED
    BY <1>1, <1>5, <2>1, <2>2 DEF TypeOK, Futures, PastKept, Tracked, Failed
<1>10. Errors'
  <2>1. ASSUME NEW e \in DOMAIN states, past'[e].errors # max_retries
        PROVE  states[e].retry_count + Cardinality(Erring(e))' <= past'[e].errors
    <3>1. /\ states[e].retry_count \in Nat /\ past[e].errors \in 0 .. max_retries
          /\ past[e].errors # max_retries
      BY <2>1, <1>5 DEF TypeOK, RetryState, PastKept
    <3>2. states[e].retry_count + Cardinality(Erring(e)) <= past[e].errors
      BY <3>1 DEF Errors
    <3>3. CASE e = event[c]
      <4>1. past'[e].errors = past[e].errors + 1
        BY <1>2, <1>3, <1>4, <2>1, <3>3 DEF TypeOK
      <4>2. Cardinality(Erring(e))' \in Cardinality(Erring(e)) .. Cardinality(Erring(e)) + 1
        BY <1>1, ErringMore DEF Goes
      <4>. QED
        BY <3>1, <3>2, <4>1, <4>2, ErringIsNat
    <3>4. CASE e # event[c]
      <4>1. past'[e].errors = past[e].errors
        BY <1>2, <1>4, <3>4 DEF TypeOK
      <4>2. Erring(e)' = Erring(e)
        BY <1>1, <1>2, <3>4 DEF Goes, OnlyCall, Erring
      <4>. QED
        BY <3>2, <4>1, <4>2
    <3>. QED
      BY <3>3, <3>4
  <2>2. \A d \in Caller :
          /\ pc'[d] \in {"ok", "forgotten"} => past'[event'[d]].delivered
          /\ pc'[d] = "exhausted" => past'[event'[d]].errors = max_retries
    BY <1>1, <1>5 DEF Calls, Errors, PastKept, Goes, OnlyCall, Delivering
  <2>. QED
    BY <1>1, <2>1, <2>2 DEF Errors
<1>11. Settled' \subseteq Settled
  BY <1>1, <1>5 DEF Goes, OnlyCall, Settled, At, PastKept
<1>12. SettledRightly'
  BY <1>1, <1>5, <1>11, SettledSame DEF TypeOK, SettledRightly, PastKept
<1>. QED
  BY <1>6, <1>7, <1>8, <1>9, <1>10, <1>12

LEMMA WithoutFacts ==
  ASSUME NEW e, states' = Without(e)
  PROVE  /\ DOMAIN states' = DOMAIN states \ {e}
         /\ \A d \in DOMAIN states' : states'[d] = states[d]
         /\ ~Tracked(e)'
         /\ \A d : d # e => Tracked(d)' = Tracked(d) /\ Failed(d)' = Failed(d)
BY DEF Without, Tracked, Failed

LEMMA RecordSuccessStep == ASSUME DInv, NEW c \in Caller, RecordSuccess(c) PROVE DInv'
<1>. USE DEF DInv
<1>1. Goes(c, "ok", "forgotten") /\ UNCHANGED <<pending, stats, past>>
  BY GotoGoes DEF RecordSuccess
<1>2. PICK e \in Event : e = event[c] /\ e = event'[c]
  BY <1>1 DEF Goes, Calls, Delivering
<1>3. states' = Without(e)
  BY <1>2 DEF RecordSuccess
<1>4. /\ DOMAIN states' = DOMAIN states \ {e}
      /\ \A d \in DOMAIN states' : states'[d] = states[d]
      /\ ~Tracked(e)'
      /\ \A d : d # e => Tracked(d)' = Tracked(d) /\ Failed(d)' = Failed(d)
  BY <1>3, WithoutFacts
<1>5. PastKept
  BY <1>1 DEF PastKept
<1>6. TypeOK' /\ Calls'
  <2>1. DOMAIN states' \subseteq Event /\ \A d \in DOMAIN states' : states'[d] \in RetryState
    BY <1>4 DEF TypeOK
  <2>. QED
    BY <1>1, <1>2, <2>1, GotoTyped DEF RecordSuccess, TypeOK, Places, Delivering, RetryState
<1>7. Known' /\ Untouched' /\ Cleared'
  BY <1>1, <1>4, <1>5, DeliveryFrame DEF Delivering
<1>8. Found'
  <2>1. Gone'
    BY <1>1, <1>2, <1>4 DEF Found, Gone, Goes, OnlyCall
  <2>2. Exhausted'
    BY <1>1, <1>4 DEF Found, Exhausted, Goes, OnlyCall
  <2>3. FailedRightly'
    BY <1>4 DEF Found, FailedRightly
  <2>. QED
    BY <2>1, <2>2, <2>3 DEF Found
<1>9. Futures'
  <2>1. \A d \in Event : HasFuture(d) => HasFuture(d)'
    <3>1. HasFuture(e)'
      BY <1>1, <1>2 DEF HasFuture, At, Goes
    <3>2. ASSUME NEW d \in Event \ {e}, HasFuture(d) PROVE HasFuture(d)'
      <4>1. \A where \in {{"inserted", "forgotten", "exhausted"}, {"recorded"}} :
              At(d, where) => At(d, where)'
        BY <1>1 DEF At, Goes, OnlyCall
      <4>. QED
        BY <1>4, <3>2, <4>1 DEF HasFuture
    <3>. QED
      BY <3>1, <3>2
  <2>2. \A d \in Client : pc[d] = "clearing" => pc'[d] = "clearing"
    BY <1>1 DEF Goes, OnlyCall, Caller
  <2>3. \A d \in pending' : past'[d].torn \/ HasFuture(d)'
    BY <1>1, <2>1 DEF TypeOK, Futures
  <2>4. \A d \in DOMAIN states' : d \in DOMAIN states /\ Failed(d)' = Failed(d)
    BY <1>4
  <2>5. \A d \in DOMAIN states' : \/ past'[d].torn \/ d \in pending' \/ Failed(d)'
                                  \/ \E k \in Client : pc'[k] = "clearing"
    BY <1>1, <2>2, <2>4 DEF Futures
  <2>. QED
    BY <2>3, <2>5 DEF Futures
<1>10. Errors'
  <2>1. \A d \in Event : Erring(d)' = Erring(d)
    BY <1>1, ErringSame DEF Goes
  <2>2. \A d \in DOMAIN states' : d \in Event /\ d \in DOMAIN states /\ states'[d] = states[d]
    BY <1>4 DEF TypeOK
  <2>3. \A d \in Caller :
          /\ pc'[d] \in {"ok", "forgotten"} => past'[event'[d]].delivered
          /\ pc'[d] = "exhausted" => past'[event'[d]].errors = max_retries
    BY <1>1 DEF Errors, Goes, OnlyCall
  <2>. QED
    BY <1>1, <2>1, <2>2, <2>3 DEF Errors
<1>11. Settled' \subseteq Settled
  BY <1>1 DEF Goes, OnlyCall, Settled, At
<1>12. SettledRightly'
  BY <1>1, <1>11, SettledSame DEF TypeOK, SettledRightly
<1>. QED
  BY <1>6, <1>7, <1>8, <1>9, <1>10, <1>12

\* The event is taken off the queue: delivered, or after its last error.
LEMMA RemoveStep ==
  ASSUME DInv, NEW c \in Caller, RemoveDelivered(c) \/ RemoveFailed(c)
  PROVE  DInv'
<1>. USE DEF DInv
<1>1. PICK from \in {"forgotten", "exhausted"}, to \in {"delivered", "failed"} :
        /\ Goto(c, from, to)
        /\ pending' = pending \ {event[c]} /\ UNCHANGED <<states, stats, past>>
  BY DEF RemoveDelivered, RemoveFailed
<1>2. Goes(c, from, to)
  BY <1>1, GotoGoes
<1>3. event[c] \in Event /\ event'[c] = event[c]
  BY <1>1, <1>2 DEF Goes, Calls, Delivering
<1>4. PastKept
  BY <1>1 DEF PastKept
<1>5. TypeOK' /\ Calls'
  BY <1>1, <1>3, GotoTyped DEF TypeOK, Places, Delivering, RetryState
<1>6. Known' /\ Untouched' /\ Cleared'
  BY <1>1, <1>2, <1>4, DeliveryFrame DEF Delivering
<1>7. Found'
  BY <1>1, <1>2 DEF Found, Gone, Exhausted, FailedRightly, Goes, OnlyCall
<1>8. Futures'
  <2>1. \A e \in Event \ {event[c]} : HasFuture(e) => HasFuture(e)'
    BY <1>1, <1>2, FutureKept DEF Goes
  <2>2. \A d \in Client : pc[d] = "clearing" => pc'[d] = "clearing"
    BY <1>1, <1>2 DEF Goes, OnlyCall, Caller
  <2>3. \A e \in pending' : past'[e].torn \/ HasFuture(e)'
    BY <1>1, <2>1 DEF TypeOK, Futures
  <2>4. event[c] \in DOMAIN states => Failed(event[c])
    BY <1>1, <1>2 DEF Found, Gone, Exhausted, Goes, Failed, Tracked
  <2>5. \A e \in DOMAIN states' : \/ past'[e].torn \/ e \in pending' \/ Failed(e)'
                                  \/ \E d \in Client : pc'[d] = "clearing"
    BY <1>1, <2>2, <2>4 DEF Futures, Failed, Tracked
  <2>. QED
    BY <2>3, <2>5 DEF Futures
<1>9. Errors'
  <2>1. \A e \in Event : Erring(e)' = Erring(e)
    BY <1>1, <1>2, ErringSame DEF Goes
  <2>. QED
    BY <1>1, <1>2, <2>1 DEF TypeOK, Errors, Goes, OnlyCall
<1>10. Settled' \subseteq Settled
  BY <1>1, <1>2, <1>3 DEF Goes, OnlyCall, Settled, At
<1>11. past[event[c]].delivered \/ past[event[c]].errors = max_retries
  BY <1>1, <1>2 DEF Goes, Errors
<1>12. SettledRightly'
  BY <1>1, <1>10, <1>11, SettledSame DEF TypeOK, SettledRightly
<1>. QED
  BY <1>5, <1>6, <1>7, <1>8, <1>9, <1>12

LEMMA RecordFailureStep == ASSUME DInv, NEW c \in Caller, RecordFailure(c) PROVE DInv'
<1>. USE DEF DInv
<1>1. Goes(c, "error", "recorded") /\ UNCHANGED <<pending, stats, past>>
  BY GotoGoes DEF RecordFailure
<1>2. PICK e \in Event : e = event[c] /\ e = event'[c]
  BY <1>1 DEF Goes, Calls, Delivering
<1>. DEFINE n == states[e].retry_count + 1
            new == [retry_count |-> n, ready |-> FALSE, permanently_failed |-> GaveUp(n)]
<1>3. /\ DOMAIN states' = DOMAIN states
      /\ \A d \in DOMAIN states : d # e => states'[d] = states[d]
      /\ e \in DOMAIN states => states'[e] = new
  BY <1>2 DEF RecordFailure, Tracked
<1>4. \A d : Tracked(d)' = Tracked(d) /\ (d # e => Failed(d)' = Failed(d))
  BY <1>3 DEF Tracked, Failed
<1>5. Failed(e) => Failed(e)'
  <2>. SUFFICES ASSUME Failed(e) PROVE GaveUp(n)
    BY <1>3 DEF Failed, Tracked
  <2>1. states[e].retry_count \in Nat /\ states[e].retry_count >= max_retries
    BY DEF TypeOK, RetryState, Failed, Tracked, Found, FailedRightly
  <2>. QED
    BY <2>1, WebhookDeliveryAssumption DEF GaveUp
<1>6. PastKept
  BY <1>1 DEF PastKept
<1>7. TypeOK' /\ Calls'
  <2>1. e \in DOMAIN states => new \in RetryState
    BY DEF TypeOK, RetryState, GaveUp
  <2>2. DOMAIN states' \subseteq Event /\ \A d \in DOMAIN states' : states'[d] \in RetryState
    BY <1>3, <2>1 DEF TypeOK
  <2>. QED
    BY <1>1, <1>2, <2>2, GotoTyped DEF RecordFailure, TypeOK, Places, Delivering, RetryState
<1>8. Known' /\ Untouched' /\ Cleared'
  BY <1>1, <1>3, <1>6, DeliveryFrame DEF Delivering
<1>9. Found'
  <2>1. Gone'
    BY <1>1, <1>3 DEF Found, Gone, Goes, OnlyCall
  <2>2. Exhausted'
    BY <1>1, <1>3, <1>5 DEF Found, Exhausted, Failed, Tracked, Goes, OnlyCall
  <2>3. FailedRightly'
    <3>. SUFFICES ASSUME NEW d \in DOMAIN states, states'[d].permanently_failed
                  PROVE  states'[d].retry_count >= max_retries
      BY <1>3 DEF FailedRightly
    <3>1. CASE d = e
      <4>1. states'[e].permanently_failed = GaveUp(n) /\ states'[e].retry_count = n
        BY <1>3, <3>1
      <4>. QED
        BY <3>1, <4>1 DEF GaveUp
    <3>2. CASE d # e
      BY <1>3, <3>2 DEF Found, FailedRightly
    <3>. QED
      BY <3>1, <3>2
  <2>. QED
    BY <2>1, <2>2, <2>3 DEF Found
<1>10. Futures'
  <2>1. \A d \in Event : HasFuture(d) => HasFuture(d)'
    <3>1. \A d \in Event : \A where \in {{"inserted", "forgotten", "exhausted"}, {"recorded"}} :
            At(d, where) => At(d, where)'
      BY <1>1 DEF At, Goes, OnlyCall
    <3>2. At(e, {"recorded"})'
      BY <1>1, <1>2 DEF At, Goes
    <3>3. ASSUME NEW d \in Event, HasFuture(d) PROVE HasFuture(d)'
      <4>1. CASE d = e
        BY <1>2, <1>4, <1>5, <3>1, <3>2, <3>3, <4>1 DEF HasFuture
      <4>2. CASE d # e
        BY <1>4, <3>1, <3>3, <4>2 DEF HasFuture
      <4>. QED
        BY <4>1, <4>2
    <3>. QED
      BY <3>3
  <2>2. \A k \in Client : pc[k] = "clearing" => pc'[k] = "clearing"
    BY <1>1 DEF Goes, OnlyCall, Caller
  <2>3. \A d \in pending' : past'[d].torn \/ HasFuture(d)'
    BY <1>1, <2>1 DEF TypeOK, Futures
  <2>4. \A d \in DOMAIN states' : \/ past'[d].torn \/ d \in pending' \/ Failed(d)'
                                  \/ \E k \in Client : pc'[k] = "clearing"
    BY <1>1, <1>3, <1>4, <1>5, <2>2 DEF Futures
  <2>. QED
    BY <2>3, <2>4 DEF Futures
<1>11. Errors'
  <2>1. ASSUME NEW d \in DOMAIN states, past[d].errors # max_retries
        PROVE  states'[d].retry_count + Cardinality(Erring(d))' <= past[d].errors
    <3>1. states[d].retry_count \in Nat /\ past[d].errors \in 0 .. max_retries
      BY DEF TypeOK, RetryState
    <3>2. states[d].retry_count + Cardinality(Erring(d)) <= past[d].errors
      BY <2>1 DEF Errors
    <3>3. CASE d = e
      <4>1. Cardinality(Erring(d))' = Cardinality(Erring(d)) - 1
        BY <1>1, <3>3, <1>2, ErringLess DEF Goes
      <4>2. states'[d].retry_count = states[d].retry_count + 1
        BY <1>3, <2>1, <3>3
      <4>. QED
        BY <3>1, <3>2, <4>1, <4>2, ErringIsNat
    <3>4. CASE d # e
      <4>1. Erring(d)' = Erring(d)
        BY <1>1, <3>4, <1>2, ErringLess DEF Goes
      <4>. QED
        BY <1>3, <2>1, <3>2, <3>4, <4>1
    <3>. QED
      BY <3>3, <3>4
  <2>2. \A k \in Caller :
          /\ pc'[k] \in {"ok", "forgotten"} => past'[event'[k]].delivered
          /\ pc'[k] = "exhausted" => past'[event'[k]].errors = max_retries
    BY <1>1 DEF Errors, Goes, OnlyCall
  <2>. QED
    BY <1>1, <1>3, <2>1, <2>2 DEF Errors
<1>12. Settled' \subseteq Settled
  BY <1>1 DEF Goes, OnlyCall, Settled, At
<1>13. SettledRightly'
  BY <1>1, <1>12, SettledSame DEF TypeOK, SettledRightly
<1>. QED
  BY <1>7, <1>8, <1>9, <1>10, <1>11, <1>13

--------------------------------------------------------------------------------
(* Tracking, clearing, the clock and the clean-up. *)

LEMMA TrackStep == ASSUME DInv, NEW c \in Client, Track(c) PROVE DInv'
<1>. USE DEF DInv
<1>1. c \in Caller /\ Goes(c, "inserted", "tracked") /\ UNCHANGED <<pending, stats, past>>
  BY GotoGoes DEF Track, Caller
<1>2. PICK e \in Event : e = event[c] /\ e = event'[c]
  BY <1>1 DEF Goes, Calls
<1>3. e \notin DOMAIN states
  BY <1>1, <1>2 DEF Goes, Untouched
<1>4. /\ DOMAIN states' = DOMAIN states \cup {e}
      /\ states'[e] = NewState
      /\ \A d \in DOMAIN states : states'[d] = states[d]
  BY <1>2, <1>3 DEF Track, Tracked
<1>5. TypeOK' /\ Calls'
  <2>1. NewState \in RetryState
    BY DEF NewState, RetryState
  <2>2. DOMAIN states' \subseteq Event /\ \A d \in DOMAIN states' : states'[d] \in RetryState
    BY <1>4, <2>1 DEF TypeOK
  <2>. QED
    BY <1>1, <1>2, <2>2, GotoTyped DEF Track, TypeOK, Places, Delivering, RetryState
<1>6. Known'
  BY <1>1, <1>2, <1>4 DEF Known, Goes, OnlyCall, Delivering
<1>7. Untouched'
  BY <1>1, <1>2, <1>4 DEF Untouched, Goes, OnlyCall, Delivering
<1>8. Cleared'
  BY <1>1 DEF Cleared, Clearing, Goes, OnlyCall, Caller
<1>9. Found'
  <2>1. \A d \in Caller : pc[d] \in {"forgotten", "exhausted"} => event[d] # e
    BY <1>1, <1>2 DEF Untouched, Goes, Delivering
  <2>2. Gone'
    BY <1>1, <1>4, <2>1 DEF Found, Gone, Goes, OnlyCall
  <2>3. Exhausted'
    BY <1>1, <1>4, <2>1 DEF Found, Exhausted, Goes, OnlyCall
  <2>4. FailedRightly'
    BY <1>4 DEF Found, FailedRightly, NewState
  <2>. QED
    BY <2>2, <2>3, <2>4 DEF Found
<1>10. Futures'
  <2>1. HasFuture(e)'
    BY <1>4 DEF HasFuture, Tracked, Failed, NewState
  <2>2. ASSUME NEW d \in Event \ {e}, HasFuture(d) PROVE HasFuture(d)'
    <3>1. \A where \in {{"inserted", "forgotten", "exhausted"}, {"recorded"}} :
            At(d, where) => At(d, where)'
      BY <1>1, <1>2 DEF At, Goes, OnlyCall
    <3>2. Tracked(d)' = Tracked(d) /\ Failed(d)' = Failed(d)
      BY <1>4 DEF Tracked, Failed
    <3>. QED
      BY <2>2, <3>1, <3>2 DEF HasFuture
  <2>3. \A d \in Client : pc[d] = "clearing" => pc'[d] = "clearing"
    BY <1>1 DEF Goes, OnlyCall, Caller
  <2>4. \A d \in pending' : past'[d].torn \/ HasFuture(d)'
    BY <1>1, <2>1, <2>2 DEF TypeOK, Futures
  <2>5. past[e].torn \/ e \in pending
    BY <1>1, <1>2 DEF Untouched, Goes
  <2>6. \A d \in DOMAIN states : Failed(d) => Failed(d)'
    BY <1>4 DEF Failed, Tracked
  <2>7. \A d \in DOMAIN states' : \/ past'[d].torn \/ d \in pending' \/ Failed(d)'
                                  \/ \E k \in Client : pc'[k] = "clearing"
    BY <1>1, <1>4, <2>3, <2>5, <2>6 DEF Futures
  <2>. QED
    BY <2>4, <2>7 DEF Futures
<1>11. Errors'
  <2>1. \A d \in Event : Erring(d)' = Erring(d)
    BY <1>1, ErringSame DEF Goes
  <2>2. Erring(e) = {}
    BY <1>1, <1>2 DEF Erring, Untouched, Goes, Delivering
  <2>3. states'[e].retry_count + Cardinality(Erring(e)) <= past[e].errors
    BY <1>4, <2>2, FS_EmptySet DEF NewState, TypeOK
  <2>4. \A d \in DOMAIN states' :
          past[d].errors = max_retries
            \/ states'[d].retry_count + Cardinality(Erring(d)) <= past[d].errors
    BY <1>4, <2>3 DEF Errors
  <2>5. \A d \in Caller :
          /\ pc'[d] \in {"ok", "forgotten"} => past'[event'[d]].delivered
          /\ pc'[d] = "exhausted" => past'[event'[d]].errors = max_retries
    BY <1>1 DEF Errors, Goes, OnlyCall
  <2>6. DOMAIN states' \subseteq Event
    BY <1>4 DEF TypeOK
  <2>. QED
    BY <1>1, <2>1, <2>4, <2>5, <2>6 DEF Errors
<1>12. Settled' \subseteq Settled
  BY <1>1 DEF Goes, OnlyCall, Settled, At
<1>13. SettledRightly'
  BY <1>1, <1>12, SettledSame DEF TypeOK, SettledRightly
<1>. QED
  BY <1>5, <1>6, <1>7, <1>8, <1>9, <1>10, <1>11, <1>13

LEMMA ClearStep == ASSUME DInv, NEW c \in Client, Clear(c) PROVE DInv'
<1>. USE DEF DInv
<1>1. /\ c \in Caller /\ pc[c] = "idle" /\ pc'[c] = "clearing" /\ event' = event
      /\ OnlyCall(c) /\ pending' = {} /\ UNCHANGED <<states, stats, todo>>
  BY DEF Clear, TypeOK, Caller, OnlyCall
<1>2. \A e \in Event : /\ past'[e].queued = past[e].queued
                       /\ past'[e].delivered = past[e].delivered
                       /\ past'[e].errors = past[e].errors
                       /\ past[e].cleared \/ e \in pending => past'[e].cleared
                       /\ past[e].torn \/ Queueing(e) => past'[e].torn
  BY DEF Clear, TypeOK
<1>3. TypeOK'
  <2>1. \A e \in Event : Queueing(e) \in BOOLEAN
    BY DEF Queueing
  <2>2. past' \in [Event -> [queued : BOOLEAN, delivered : BOOLEAN, errors : 0 .. max_retries,
                             cleared : BOOLEAN, torn : BOOLEAN]]
    BY <2>1 DEF Clear, TypeOK
  <2>. QED
    BY <1>1, <2>2 DEF Clear, TypeOK, RetryState
<1>4. Calls'
  BY <1>1 DEF Calls, OnlyCall, Delivering
<1>5. Known'
  <2>1. \A d \in Caller : todo[d] \subseteq Event
    BY DEF TypeOK
  <2>2. DOMAIN states \subseteq Event
    BY DEF TypeOK
  <2>. QED
    BY <1>1, <1>2, <2>1, <2>2 DEF Calls, Known, OnlyCall, Delivering
<1>6. Untouched'
  <2>1. \A d \in Caller : pc[d] = "inserted" => event[d] \in Event /\ Queueing(event[d])
    BY DEF Calls, Queueing
  <2>. QED
    BY <1>1, <1>2, <2>1 DEF Untouched, OnlyCall, Delivering
<1>7. Cleared' /\ Found'
  BY <1>1 DEF Cleared, Found, Gone, Exhausted, FailedRightly, OnlyCall
<1>8. Futures'
  BY <1>1 DEF Futures
<1>9. Errors'
  <2>1. \A e \in Event : Erring(e)' = Erring(e)
    BY <1>1, ErringSame
  <2>. QED
    BY <1>1, <1>2, <2>1 DEF TypeOK, Calls, Errors, OnlyCall, Delivering
<1>10. Settled' \subseteq Settled
  BY <1>1, <1>2 DEF OnlyCall, Settled, At
<1>11. SettledRightly'
  BY <1>1, <1>2, <1>10, SettledSame DEF TypeOK, SettledRightly
<1>. QED
  BY <1>3, <1>4, <1>5, <1>6, <1>7, <1>8, <1>9, <1>11

LEMMA ClearStatesStep == ASSUME DInv, NEW c \in Client, ClearStates(c) PROVE DInv'
<1>. USE DEF DInv
<1>1. /\ c \in Caller /\ Goes(c, "clearing", "cleared") /\ DOMAIN states' = {}
      /\ UNCHANGED <<pending, stats, past>>
  BY GotoGoes DEF ClearStates, Caller
<1>2. TypeOK' /\ Calls'
  BY <1>1, GotoTyped DEF ClearStates, TypeOK, Places, Delivering, RetryState
<1>3. Known' /\ Untouched'
  BY <1>1 DEF Known, Untouched, Goes, OnlyCall, Delivering
<1>4. Cleared'
  BY <1>1 DEF Cleared, Clearing, Goes
<1>5. Found'
  BY <1>1 DEF Found, Gone, Exhausted, FailedRightly
<1>6. Futures'
  BY <1>1 DEF Cleared, Clearing, Goes, Futures
<1>7. Errors'
  BY <1>1 DEF Errors, Goes, OnlyCall
<1>8. Settled' \subseteq Settled
  BY <1>1 DEF Goes, OnlyCall, Settled, At
<1>9. SettledRightly'
  BY <1>1, <1>8, SettledSame DEF TypeOK, SettledRightly
<1>. QED
  BY <1>2, <1>3, <1>4, <1>5, <1>6, <1>7, <1>9

LEMMA DueStep == ASSUME DInv, NEW e \in Event, Due(e) PROVE DInv'
<1>. USE DEF DInv, callVars
<1>1. /\ DOMAIN states' = DOMAIN states /\ UNCHANGED <<pending, stats, callVars, past>>
      /\ \A d \in DOMAIN states :
           /\ states'[d].permanently_failed = states[d].permanently_failed
           /\ states'[d].retry_count = states[d].retry_count
           /\ states'[d] \in RetryState
  BY DEF Due, Tracked, TypeOK, RetryState
<1>2. TypeOK'
  BY <1>1 DEF TypeOK, RetryState
<1>3. Calls' /\ Known' /\ Untouched' /\ Cleared'
  BY <1>1 DEF Calls, Known, Untouched, Cleared, Clearing
<1>4. Found'
  BY <1>1 DEF Found, Gone, Exhausted, FailedRightly
<1>5. Futures'
  BY <1>1 DEF Futures, HasFuture, At, Tracked, Failed
<1>6. Errors'
  BY <1>1 DEF Errors, Erring
<1>7. SettledRightly'
  BY <1>1 DEF SettledRightly, Settled, At
<1>. QED
  BY <1>2, <1>3, <1>4, <1>5, <1>6, <1>7

LEMMA CleanupStep == ASSUME DInv, NEW e \in Event, Cleanup(e) PROVE DInv'
<1>. USE DEF DInv, callVars
<1>1. /\ states' = Without(e) /\ UNCHANGED <<pending, stats, callVars, past>>
      /\ ~At(e, {"recorded"}) /\ Failed(e)
  BY DEF Cleanup, At
<1>2. /\ DOMAIN states' = DOMAIN states \ {e}
      /\ \A d \in DOMAIN states' : states'[d] = states[d]
      /\ \A d : d # e => Tracked(d)' = Tracked(d) /\ Failed(d)' = Failed(d)
  BY <1>1, WithoutFacts
<1>3. TypeOK'
  BY <1>1, <1>2 DEF TypeOK, RetryState
<1>4. Calls' /\ Known' /\ Untouched' /\ Cleared'
  BY <1>1, <1>2 DEF Calls, Known, Untouched, Cleared, Clearing
<1>5. Found'
  BY <1>1, <1>2 DEF Found, Gone, Exhausted, FailedRightly
<1>6. Futures'
  <2>1. ASSUME NEW d \in Event, HasFuture(d) PROVE HasFuture(d)'
    <3>1. \A where : At(d, where)' = At(d, where)
      BY <1>1 DEF At
    <3>2. CASE d = e
      BY <1>1, <2>1, <3>1, <3>2 DEF HasFuture
    <3>3. CASE d # e
      BY <1>2, <2>1, <3>1, <3>3 DEF HasFuture
    <3>. QED
      BY <3>2, <3>3
  <2>2. \A d \in pending' : past'[d].torn \/ HasFuture(d)'
    BY <1>1, <2>1 DEF TypeOK, Futures
  <2>3. \A d \in DOMAIN states' : d \in DOMAIN states /\ Failed(d)' = Failed(d)
    BY <1>2
  <2>. QED
    BY <1>1, <2>2, <2>3 DEF Futures
<1>7. Errors'
  BY <1>1, <1>2 DEF Errors, Erring
<1>8. SettledRightly'
  BY <1>1 DEF SettledRightly, Settled, At
<1>. QED
  BY <1>3, <1>4, <1>5, <1>6, <1>7, <1>8

LEMMA DInvStep == DInv /\ [Next]_vars => DInv'
<1>. SUFFICES ASSUME DInv, [Next]_vars PROVE DInv'
  OBVIOUS
<1>1. ASSUME NEW c \in Client, NEW e \in Event, Queue(c, e) \/ Deliver(c, e) PROVE DInv'
  BY <1>1, QueueStep, DeliverStep
<1>2. ASSUME NEW c \in Client, Track(c) \/ CountQueued(c) PROVE DInv'
  BY <1>2, TrackStep, CountQueuedStep
<1>3. ASSUME NEW c \in Client, Clear(c) \/ ClearStates(c) \/ ClearStats(c) PROVE DInv'
  BY <1>3, ClearStep, ClearStatesStep, ClearStatsStep
<1>4. ASSUME NEW c \in Poller, Poll(c) PROVE DInv'
  BY <1>4, PollStep
<1>5. ASSUME NEW c \in Caller, Delivery(c) PROVE DInv'
  BY <1>5, PollEndsStep, LookStep, SendOkStep, SendFailsStep, RecordSuccessStep, RemoveStep,
     CountSettledStep, RecordFailureStep, CheckFailedStep DEF Delivery
<1>6. ASSUME NEW e \in Event, Due(e) \/ Cleanup(e) PROVE DInv'
  BY <1>6, DueStep, CleanupStep
<1>7. CASE UNCHANGED vars
  <2>. USE <1>7 DEF vars, callVars, DInv
  <2>1. TypeOK' /\ Calls' /\ Known' /\ Untouched' /\ Cleared'
    BY DEF TypeOK, Calls, Known, Untouched, Cleared, Clearing
  <2>2. Found' /\ Futures' /\ Errors'
    BY DEF Found, Gone, Exhausted, FailedRightly, Futures, HasFuture, At, Tracked, Failed,
           Errors, Erring
  <2>3. SettledRightly'
    BY DEF SettledRightly, Settled, At
  <2>. QED
    BY <2>1, <2>2, <2>3
<1>. QED
  BY <1>1, <1>2, <1>3, <1>4, <1>5, <1>6, <1>7 DEF Next

LEMMA DInvAlways == Spec => []DInv
<1>. QED
  BY DInvInit, DInvStep, PTL DEF Spec

--------------------------------------------------------------------------------

(* TypeOK: whatever overlaps, the counts of the statistics and of the      *)
(* retries stay what they are declared to be.                              *)
THEOREM WebhookDeliveryTypes == Spec => []TypeOK
<1>1. DInv => TypeOK
  BY DEF DInv
<1>. QED
  BY <1>1, DInvAlways, PTL

(* MapsAgree: no clear in the middle of its queue_event given, no event    *)
(* waits for nobody and nothing is retried that has left the queue.        *)
THEOREM PendingAndRetriesAgree == Spec => []MapsAgree
<1>1. DInv => MapsAgree
  <2>. SUFFICES ASSUME DInv PROVE MapsAgree
    OBVIOUS
  <2>1. \A e \in Event : HasFuture(e) =>
          \/ Tracked(e) /\ ~Failed(e)
          \/ At(e, {"inserted", "forgotten", "recorded", "exhausted"})
    BY DEF HasFuture, At
  <2>. QED
    BY <2>1 DEF DInv, Futures, MapsAgree, Tracked
<1>. QED
  BY <1>1, DInvAlways, PTL

(* SettledRightly: an event leaves the queue delivered, cleared or after   *)
(* max_retries errors, and is counted.                                     *)
THEOREM EventsSettleForAReason == Spec => []SettledRightly
<1>1. DInv => SettledRightly
  BY DEF DInv
<1>. QED
  BY <1>1, DInvAlways, PTL

--------------------------------------------------------------------------------
(* What EventsSettle rests on, without fairness.                           *)

\* An event is given up exactly when max_retries of its attempts have failed, and is
\* not tried again then.
RetryBudget ==
  \A e \in DOMAIN states :
    /\ states[e].permanently_failed <=> states[e].retry_count >= max_retries
    /\ states[e].permanently_failed => ~states[e].ready

\* The retries counted against an event are not forgotten while it is tracked.
RetriesCount ==
  [][\A e \in DOMAIN states \cap DOMAIN states' :
       states'[e].retry_count >= states[e].retry_count]_vars

\* What a step makes of the states: it drops some, adds a new one, sets one ready,
\* or records a failure.
LEMMA StatesStep ==
  ASSUME TypeOK, [Next]_vars, NEW e \in DOMAIN states'
  PROVE  \/ e \notin DOMAIN states /\ states'[e] = NewState
         \/ e \in DOMAIN states /\ states'[e] = states[e]
         \/ e \in DOMAIN states /\ ~states[e].permanently_failed
              /\ states'[e] = [states[e] EXCEPT !.ready = TRUE]
         \/ e \in DOMAIN states /\ states'[e] =
              [retry_count |-> states[e].retry_count + 1, ready |-> FALSE,
               permanently_failed |-> GaveUp(states[e].retry_count + 1)]
<1> DEFINE Goal == \/ e \notin DOMAIN states /\ states'[e] = NewState
                   \/ e \in DOMAIN states /\ states'[e] = states[e]
                   \/ e \in DOMAIN states /\ ~states[e].permanently_failed
                        /\ states'[e] = [states[e] EXCEPT !.ready = TRUE]
                   \/ e \in DOMAIN states /\ states'[e] =
                        [retry_count |-> states[e].retry_count + 1, ready |-> FALSE,
                         permanently_failed |-> GaveUp(states[e].retry_count + 1)]
<1>1. ASSUME UNCHANGED states PROVE Goal
  BY <1>1
<1>2. ASSUME NEW d, states' = Without(d) PROVE Goal
  BY <1>2 DEF Without
<1>3. ASSUME NEW c \in Client, Track(c) PROVE Goal
  BY <1>3 DEF Track, Tracked
<1>4. ASSUME NEW c \in Client, ClearStates(c) PROVE Goal
  BY <1>4 DEF ClearStates
<1>5. ASSUME NEW c \in Caller, RecordFailure(c) PROVE Goal
  <2>1. CASE Tracked(event[c])
    <3>1. states' = [states EXCEPT ![event[c]] =
                       [retry_count |-> states[event[c]].retry_count + 1, ready |-> FALSE,
                        permanently_failed |-> GaveUp(states[event[c]].retry_count + 1)]]
      BY <1>5, <2>1 DEF RecordFailure
    <3>. QED
      BY <3>1
  <2>2. CASE ~Tracked(event[c])
    BY <1>1, <1>5, <2>2 DEF RecordFailure
  <2>. QED
    BY <2>1, <2>2
<1>6. ASSUME NEW d \in Event, Due(d) PROVE Goal
  BY <1>6 DEF Due, Tracked, Failed
<1>7. ASSUME NEW d \in Event, Cleanup(d) PROVE Goal
  BY <1>2, <1>7 DEF Cleanup
<1>8. ASSUME NEW c \in Caller, Delivery(c) PROVE Goal
  BY <1>1, <1>2, <1>5, <1>8 DEF Delivery, PollEnds, Look, SendOk, SendFails, RecordSuccess,
     RemoveDelivered, CountDelivered, CheckFailed, RemoveFailed, CountFailed
<1>. QED
  BY <1>1, <1>3, <1>4, <1>6, <1>7, <1>8
  DEF Next, Queue, Deliver, Begin, CountQueued, Clear, ClearStats, Poll, vars

(* An event is tried at most max_retries times by the polls, though any    *)
(* number of deliveries may record failures of it at once: every failure   *)
(* recorded counts, none is taken back while the event is tracked, and the *)
(* one that reaches max_retries ends the retries for good.                 *)
THEOREM RetriesRunOut == Spec => []RetryBudget /\ RetriesCount
<1>1. Init => RetryBudget
  BY DEF Init, RetryBudget
<1>2. TypeOK /\ RetryBudget /\ [Next]_vars => RetryBudget'
  <2>. SUFFICES ASSUME TypeOK, RetryBudget, [Next]_vars, NEW e \in DOMAIN states'
                PROVE  /\ states'[e].permanently_failed <=> states'[e].retry_count >= max_retries
                       /\ states'[e].permanently_failed => ~states'[e].ready
    BY DEF RetryBudget
  <2>1. e \in DOMAIN states => states[e] \in RetryState
    BY DEF TypeOK
  <2>. QED
    <3>1. CASE states'[e] = NewState
      BY <3>1, WebhookDeliveryAssumption DEF NewState
    <3>2. CASE e \in DOMAIN states /\ states'[e] = states[e]
      BY <3>2 DEF RetryBudget
    <3>3. CASE /\ e \in DOMAIN states /\ ~states[e].permanently_failed
               /\ states'[e] = [states[e] EXCEPT !.ready = TRUE]
      <4>1. /\ states'[e].permanently_failed = states[e].permanently_failed
            /\ states'[e].retry_count = states[e].retry_count
        BY <2>1, <3>3 DEF RetryState
      <4>. QED
        BY <3>3, <4>1 DEF RetryBudget
    <3>4. CASE /\ e \in DOMAIN states
               /\ states'[e] = [retry_count |-> states[e].retry_count + 1, ready |-> FALSE,
                                permanently_failed |-> GaveUp(states[e].retry_count + 1)]
      <4> DEFINE n == states[e].retry_count + 1
      <4>1. n \in Nat
        BY <2>1, <3>4 DEF RetryState
      <4>2. /\ states'[e].permanently_failed = GaveUp(n)
            /\ states'[e].retry_count = n /\ states'[e].ready = FALSE
        BY <3>4
      <4>. QED
        BY <4>1, <4>2, WebhookDeliveryAssumption DEF GaveUp
    <3>. QED
      BY <3>1, <3>2, <3>3, <3>4, StatesStep
<1>3. TypeOK /\ [Next]_vars =>
        [\A e \in DOMAIN states \cap DOMAIN states' :
           states'[e].retry_count >= states[e].retry_count]_vars
  <2>. SUFFICES ASSUME TypeOK, [Next]_vars, NEW e \in DOMAIN states \cap DOMAIN states'
                PROVE  states'[e].retry_count >= states[e].retry_count
    OBVIOUS
  <2>1. states[e] \in RetryState
    BY DEF TypeOK
  <2>. QED
    BY <2>1, StatesStep DEF RetryState
<1>. QED
  BY <1>1, <1>2, <1>3, WebhookDeliveryTypes, PTL DEF Spec, RetriesCount

================================================================================

------------------------------ MODULE Backpressure ------------------------------
(***************************************************************************)
(* BackpressureMonitor of oxify-engine/src/backpressure.rs: two relaxed    *)
(* atomic counters shared by the coordinator of a workflow run and by the  *)
(* node tasks it spawns.  Every operator below is ONE atomic access; the   *)
(* module that EXTENDS this one says which thread makes it and when.  The  *)
(* statistics (total_blocked, total_dropped, total_throttled) steer        *)
(* nothing and are left out.  The accesses are taken in one order for all  *)
(* threads: the relaxed loads of state() could also be swapped.            *)
(***************************************************************************)
EXTENDS Naturals

VARIABLES
  queued,   \* queued_count: fetch_sub never runs before its fetch_add here
  active    \* active_count

bpVars == <<queued, active>>

\* BackpressureStrategy; "Off" stands for backpressure_config = None, where
\* the run has no monitor at all and touches neither counter.
Strategies == {"Off", "None", "Block", "Drop", "Throttle"}

BPInit == queued = 0 /\ active = 0

\* A slip: > for >=, one node too many in each counter.
OverLimitByOne(q, a, maxQueued, maxActive) == q > maxQueued \/ a > maxActive

\* The comparison of state(), on a value of each counter: the two loads are
\* two steps of the thread that calls should_apply_backpressure().
OverLimit(q, a, maxQueued, maxActive) == q >= maxQueued \/ a >= maxActive

RecordQueued == queued' = queued + 1 /\ UNCHANGED active

\* record_dequeued() is two atomic operations, so it is two steps: between
\* them the node is counted in neither counter.
RecordDequeuedSub == queued' = queued - 1 /\ UNCHANGED active
RecordDequeuedAdd == active' = active + 1 /\ UNCHANGED queued

RecordCompleted == active' = active - 1 /\ UNCHANGED queued

================================================================================

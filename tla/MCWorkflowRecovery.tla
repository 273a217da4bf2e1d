--------------------------- MODULE MCWorkflowRecovery ---------------------------
(* Instances of WorkflowRecovery for TLC.                                   *)
EXTENDS WorkflowRecovery

CONSTANTS a, b, c, d

\* Two nodes, one of which may be dropped, and two that wait for both: the
\* last level has two nodes, so a resume can be paused between them.
ForkLevels == <<<<a, b>>, <<c, d>>>>
ForkPreds == [n \in {a, b, c, d} |-> IF n \in {c, d} THEN {a, b} ELSE {}]

\* A node is dropped when its neighbour has not been dequeued yet.
RecoveryConfigs ==
  {[strategy |-> "Drop", max_queued_nodes |-> 1, max_active_nodes |-> 1,
    max_concurrent_nodes |-> 2, max_total_nodes |-> 0, time_limit |-> FALSE,
    node_timeout |-> FALSE, continue_on_error |-> TRUE,
    checkpoint_every |-> "Levels", checkpoint_n |-> 1, store |-> TRUE,
    may_panic |-> FALSE]}

================================================================================

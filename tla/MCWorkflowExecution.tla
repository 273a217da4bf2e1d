--------------------------- MODULE MCWorkflowExecution ---------------------------
(* Instances of WorkflowExecution for TLC.                                  *)
EXTENDS WorkflowExecution

CONSTANTS a, b, c, d, e, f

\* Four nodes side by side, so that chunks of one to three leave a second chunk
\* and a chunk of four holds more nodes than a limit of one and one with two
\* worker threads lets into flight; then a node that waits for two of them and
\* one that also skips a level: there are two boundaries at which a pause, a
\* cancellation or a checkpoint can fall.
WideLevels == <<<<a, b, c, d>>, <<e>>, <<f>>>>
WidePreds == [n \in {a, b, c, d, e, f} |-> IF n = e THEN {a, c}
                                           ELSE IF n = f THEN {b, e} ELSE {}]

Plain ==
  [strategy |-> "Off", max_queued_nodes |-> 0, max_active_nodes |-> 0,
   max_concurrent_nodes |-> 2, max_total_nodes |-> 0, time_limit |-> FALSE,
   node_timeout |-> FALSE, continue_on_error |-> FALSE,
   checkpoint_every |-> "Never", checkpoint_n |-> 1, store |-> FALSE,
   may_panic |-> FALSE]

\* A strategy, its two limits and the size of a chunk.
Limited(s, q, k, chunk) ==
  [Plain EXCEPT !.strategy = s, !.max_queued_nodes = q, !.max_active_nodes = k,
                !.max_concurrent_nodes = chunk]

\* Block and Drop at limits of one and one with all four nodes in one chunk:
\* the third node in flight is the slack of the two worker threads, and the
\* fourth would be beyond it.  Then unequal limits, Drop with a limit of zero,
\* the strategies that never hold a node back, and node limits below, at and
\* above the size of a chunk.
LoadConfigs ==
  {Limited("Block", 1, 1, 4),
   [Limited("Drop", 1, 1, 4) EXCEPT !.checkpoint_every = "Levels", !.store = TRUE],
   [Limited("Block", 2, 1, 2) EXCEPT !.may_panic = TRUE],
   Limited("Drop", 0, 2, 2),
   Limited("None", 1, 1, 2), Limited("Throttle", 1, 1, 2)}
  \cup {[Plain EXCEPT !.max_total_nodes = k, !.max_concurrent_nodes = m] :
          k \in {1, 2}, m \in {1, 2, 3}}

\* Timeouts, panics, time limits, checkpoints after every level and after some.
ControlConfigs ==
  {[Plain EXCEPT !.checkpoint_every = w[1], !.checkpoint_n = w[2], !.store = TRUE] :
     w \in {<<"Levels", 2>>, <<"Nodes", 2>>}}
  \cup {[Plain EXCEPT !.checkpoint_every = w[1], !.checkpoint_n = w[2], !.store = TRUE,
                      !.max_concurrent_nodes = w[3], !.node_timeout = TRUE,
                      !.continue_on_error = w[4]] :
          w \in {<<"Levels", 1, 2, FALSE>>, <<"Nodes", 3, 1, TRUE>>}}
  \cup {[Plain EXCEPT !.time_limit = TRUE, !.may_panic = TRUE]}

EngineConfigs == LoadConfigs \cup ControlConfigs

================================================================================

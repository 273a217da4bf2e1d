---------------------------- MODULE WorkflowExecution ----------------------------
(***************************************************************************)
(* One run of Engine::execute_with_config (oxify-engine/src/lib.rs): a     *)
(* coordinator walks the execution levels of a workflow in chunks of       *)
(* max_concurrent nodes, spawns one tokio task per node, joins the tasks   *)
(* of the chunk in order and records their results in the context.  The    *)
(* tasks, and the clients that pause or cancel the run, interleave with    *)
(* it.  Every await and every access to shared memory (the flags, the      *)
(* atomics of the backpressure monitor and of the resource enforcer, the   *)
(* checkpoint store) is a step of its own.                                 *)
(***************************************************************************)
EXTENDS Integers, FiniteSets, SequencesExt, Layers, Backpressure

CONSTANTS
  Node,      \* the nodes of the workflow
  Preds,     \* Preds[n]: the nodes with an edge to n
  Levels,    \* compute_execution_levels: a sequence of sequences of nodes
  Configs,   \* the ExecutionConfigs a run may be started with
  Workers    \* worker threads of the tokio runtime

LevelNodes(l) == ToSet(Levels[l])
NodesBefore(l) == Earlier(Levels, l)

ASSUME NodeAssumption == IsFiniteSet(Node)

\* What compute_execution_levels returns: theorem LevelsAreValid of module
\* ExecutionLevelsProofs.
ASSUME LevelsAssumption == Layered(Levels, Node, Preds)

\* The fields of ExecutionConfig that steer the run.  A limit of 0 is no
\* limit, as in ResourceLimits; max_concurrent_nodes = 0 and a checkpoint
\* frequency of 0 panic in the code (chunks(0), % 0) and are left out.
ASSUME ConfigsAssumption ==
  \A c \in Configs :
    /\ c.strategy \in Strategies
    /\ c.max_queued_nodes \in Nat
    /\ c.max_active_nodes \in Nat
    /\ c.max_concurrent_nodes \in Nat \ {0}
    /\ c.max_total_nodes \in Nat
    /\ c.time_limit \in BOOLEAN         \* max_execution_time_secs > 0
    /\ c.node_timeout \in BOOLEAN       \* node_timeout_ms is set
    /\ c.continue_on_error \in BOOLEAN
    /\ c.checkpoint_every \in {"Never", "Levels", "Nodes"}
    /\ c.checkpoint_n \in Nat \ {0}
    /\ c.store \in BOOLEAN              \* the Engine has a checkpoint_store
    /\ c.may_panic \in BOOLEAN          \* some node's code can panic

ASSUME WorkersAssumption == Workers \in Nat \ {0}

VARIABLES
  cfg,        \* the ExecutionConfig of the run
  pc,         \* where the coordinator is
  lvl,        \* level_idx + 1
  pos,        \* the next node of the level to hand out
  chunkStart, \* the first node of the current chunk
  seenQueued, \* the load of queued_count that state() has made
  handles,    \* JoinHandles of the chunk, in spawn order, as nodes
  task,       \* the spawned task of each node
  returned,   \* what the task of each node returns to its JoinHandle
  results,    \* ctx.node_results
  dropped,    \* nodes skipped by BackpressureStrategy::Drop
  nodesExecuted, \* ResourceUsage.nodes_executed
  paused,     \* pause_flag of this execution
  cancelled,  \* cancel_flag of this execution
  ckpts,      \* the checkpoint store
  outcome,    \* what the call returned, "open" until it does
  terminal    \* the last of the workflow's own events that says the run is over

coordVars == <<lvl, pos, chunkStart, seenQueued, handles>>
taskVars == <<task, returned, nodesExecuted>>
flagVars == <<paused, cancelled>>
vars == <<cfg, pc, coordVars, taskVars, results, dropped, flagVars, ckpts,
          outcome, terminal, bpVars>>

TaskStates ==
  {"none",      \* not spawned
   "spawned",   \* tokio::spawn has been called
   "dequeuing", \* between the two atomics of record_dequeued
   "running",   \* node_started published, execute_node_with_retry under way
   "executed",  \* has its result, node_completed or node_failed published
   "finished",  \* counters updated, the JoinHandle is ready
   "panicked"}  \* the JoinHandle is ready with a JoinError

\* execute_node_with_retry never returns Err: when its retries are used up it
\* returns Ok with a Failure result.  Only the timeout around it is an Err.
Returned == {"none", "success", "failure", "timeout", "panic"}
Absent == "absent"
NodeResults == [Node -> {Absent, "success", "failure"}]

\* What execute_with_config returns; module WorkflowRecovery adds the crash of
\* the process.
Outcomes ==
  {"open", "Completed", "Paused", "Cancelled", "Failed", "LimitExceeded", "Crashed"}

Recorded == {n \in Node : results[n] # Absent}  \* also completed_node_ids
Spawned == {n \in Node : task[n] # "none"}
InFlight == {n \in Spawned : task[n] \notin {"finished", "panicked"}}
Monitored == cfg.strategy # "Off"

--------------------------------------------------------------------------------

\* The run has its levels.  The limit checks before the first level (memory and
\* time, lib.rs:765-773) are left out: they end the call with nothing begun.
Init ==
  /\ cfg \in Configs
  /\ pc = "cancelCheck"
  /\ lvl = 1 /\ pos = 1 /\ chunkStart = 1
  /\ seenQueued = 0
  /\ handles = <<>>
  /\ task = [n \in Node |-> "none"]
  /\ returned = [n \in Node |-> "none"]
  /\ results = [n \in Node |-> Absent]
  /\ dropped = {}
  /\ nodesExecuted = 0
  /\ paused = FALSE /\ cancelled = FALSE
  /\ ckpts = {}
  /\ outcome = "open"
  /\ terminal = "none"
  /\ BPInit

Return(o) == outcome' = o /\ pc' = "returned"

\* create_checkpoint on the context of the run; the id is left out, so two
\* equal checkpoints are one.
Checkpoint(level) ==
  [level |-> level, completed |-> Recorded, results |-> results]

\* A slip: the level of the checkpoint is taken one too far.
SavedOneAhead(level) == IF cfg.store THEN ckpts \cup {Checkpoint(level + 1)} ELSE ckpts

Saved(level) == IF cfg.store THEN ckpts \cup {Checkpoint(level)} ELSE ckpts

--------------------------------------------------------------------------------
(* The coordinator. *)

\* Top of the level loop: is_cancelled() is read first.
CancelCheck ==
  /\ pc = "cancelCheck"
  /\ lvl <= Len(Levels)
  /\ IF cancelled
     THEN Return("Cancelled") /\ terminal' = "failed" /\ cancelled' = FALSE
     ELSE pc' = "pauseCheck" /\ UNCHANGED <<outcome, terminal, cancelled>>
  /\ UNCHANGED <<cfg, coordVars, taskVars, results, dropped, paused, ckpts, bpVars>>

\* A slip: a pause writes its checkpoint only when there is none yet.
PauseUnsaved ==
  /\ pc = "pauseCheck"
  /\ IF paused
     THEN /\ terminal' = "paused"
          /\ Return("Paused")
          /\ ckpts' = IF ckpts = {} THEN Saved(lvl) ELSE ckpts
     ELSE pc' = "admit" /\ UNCHANGED <<outcome, terminal, ckpts>>
  /\ UNCHANGED <<cfg, coordVars, taskVars, results, dropped, flagVars, bpVars>>

\* Then is_paused().  The checkpoint's level is the one about to start; when
\* the store fails the run returns the store's error, workflow_paused already
\* published.
PauseCheck ==
  /\ pc = "pauseCheck"
  /\ IF paused
     THEN /\ terminal' = "paused"
          /\ \/ Return("Paused") /\ ckpts' = Saved(lvl)
             \/ cfg.store /\ Return("Failed") /\ UNCHANGED ckpts
     ELSE pc' = "admit" /\ UNCHANGED <<outcome, terminal, ckpts>>
  /\ UNCHANGED <<cfg, coordVars, taskVars, results, dropped, flagVars, bpVars>>

ChunkOpen ==
  /\ pos <= Len(Levels[lvl])
  /\ pos < chunkStart + cfg.max_concurrent_nodes

\* A slip: record_queued is called for the strategies that can hold a node
\* back only.
AdmitUncounted ==
  /\ pc = "admit" /\ ChunkOpen
  /\ cfg.strategy \in {"Off", "None"}
  /\ pc' = "limits"
  /\ UNCHANGED <<cfg, coordVars, taskVars, results, dropped, flagVars, ckpts,
                 outcome, terminal, bpVars>>

\* No monitor, or a monitor that never holds a node back.
AdmitUnchecked ==
  /\ pc = "admit" /\ ChunkOpen
  /\ cfg.strategy \in {"Off", "None"}
  /\ IF Monitored THEN RecordQueued ELSE UNCHANGED bpVars
  /\ pc' = "limits"
  /\ UNCHANGED <<cfg, coordVars, taskVars, results, dropped, flagVars, ckpts,
                 outcome, terminal>>

\* should_apply_backpressure(): queued_count is loaded first ...
LoadQueued ==
  /\ pc = "admit" /\ ChunkOpen
  /\ cfg.strategy \in {"Block", "Drop", "Throttle"}
  /\ seenQueued' = queued
  /\ pc' = "decide"
  /\ UNCHANGED <<cfg, lvl, pos, chunkStart, handles, taskVars, results, dropped,
                 flagVars, ckpts, outcome, terminal, bpVars>>

\* ... then active_count, and the strategy acts on the two: Block sleeps and
\* asks again, Drop goes on to the next node for good, Throttle delays the
\* node and lets it through.
Decide ==
  /\ pc = "decide"
  /\ seenQueued' = 0
  /\ LET over == OverLimit(seenQueued, active,
                           cfg.max_queued_nodes, cfg.max_active_nodes)
     IN \/ /\ over /\ cfg.strategy = "Block"
           /\ pc' = "admit"
           /\ UNCHANGED <<pos, dropped, bpVars>>
        \/ /\ over /\ cfg.strategy = "Drop"
           /\ dropped' = dropped \cup {Levels[lvl][pos]}
           /\ pos' = pos + 1
           /\ pc' = "admit"
           /\ UNCHANGED bpVars
        \/ /\ ~over \/ cfg.strategy = "Throttle"
           /\ RecordQueued
           /\ pc' = "limits"
           /\ UNCHANGED <<pos, dropped>>
  /\ UNCHANGED <<cfg, lvl, chunkStart, handles, taskVars, results, flagVars,
                 ckpts, outcome, terminal>>

\* A slip: > for >=.
NodeLimitPassed ==
  cfg.max_total_nodes # 0 /\ nodesExecuted > cfg.max_total_nodes

NodeLimitReached ==
  cfg.max_total_nodes # 0 /\ nodesExecuted >= cfg.max_total_nodes

\* check_node_limit, check_memory (never fails: the engine records no memory)
\* and check_execution_time, then tokio::spawn.  A failed check returns from
\* the run: no workflow event, the node stays counted as queued, and the
\* tasks already spawned go on.
LimitExceeded ==
  /\ pc = "limits"
  /\ NodeLimitReached \/ cfg.time_limit
  /\ Return("LimitExceeded")
  /\ UNCHANGED <<cfg, coordVars, taskVars, results, dropped, flagVars, ckpts,
                 terminal, bpVars>>

Spawn ==
  /\ pc = "limits"
  /\ ~NodeLimitReached
  /\ LET n == Levels[lvl][pos]
     IN /\ task' = [task EXCEPT ![n] = "spawned"]
        /\ handles' = Append(handles, n)
  /\ pos' = pos + 1
  /\ pc' = "admit"
  /\ UNCHANGED <<cfg, lvl, chunkStart, seenQueued, returned, nodesExecuted, results,
                 dropped, flagVars, ckpts, outcome, terminal, bpVars>>

ChunkFull ==
  /\ pc = "admit" /\ ~ChunkOpen
  /\ pc' = "await"
  /\ UNCHANGED <<cfg, coordVars, taskVars, results, dropped, flagVars, ckpts,
                 outcome, terminal, bpVars>>

\* handles.drain(..): the handles are awaited in spawn order, so a node that
\* finishes early is recorded only after the ones before it.
AwaitHandle ==
  /\ pc = "await" /\ handles # <<>>
  /\ LET n == Head(handles)
         r == returned[n]
     IN /\ task[n] \in {"finished", "panicked"}
        /\ \/ /\ r \in {"success", "failure"}
              /\ results' = [results EXCEPT ![n] = r]
              /\ UNCHANGED <<pc, outcome, terminal>>
           \/ /\ r = "timeout" /\ cfg.continue_on_error
              /\ results' = [results EXCEPT ![n] = "failure"]
              /\ UNCHANGED <<pc, outcome, terminal>>
           \/ /\ r = "timeout" /\ ~cfg.continue_on_error
              /\ terminal' = "failed"
              /\ Return("Failed")
              /\ UNCHANGED results
           \/ /\ r = "panic"   \* Task join error, by `?`: no event
              /\ Return("Failed")
              /\ UNCHANGED <<results, terminal>>
  /\ handles' = Tail(handles)
  /\ UNCHANGED <<cfg, lvl, pos, chunkStart, seenQueued, taskVars, dropped, flagVars,
                 ckpts, bpVars>>

\* A slip: the chunk ends when its first handles are joined, the rest is
\* detached.
EndChunkEarly ==
  /\ pc = "await"
  /\ handles' = <<>>
  /\ chunkStart' = pos
  /\ pc' = IF pos <= Len(Levels[lvl]) THEN "admit" ELSE "levelEnd"
  /\ UNCHANGED <<cfg, lvl, pos, seenQueued, taskVars, results, dropped,
                 flagVars, ckpts, outcome, terminal, bpVars>>

EndChunk ==
  /\ pc = "await" /\ handles = <<>>
  /\ chunkStart' = pos
  /\ pc' = IF pos <= Len(Levels[lvl]) THEN "admit" ELSE "levelEnd"
  /\ UNCHANGED <<cfg, lvl, pos, seenQueued, handles, taskVars, results, dropped,
                 flagVars, ckpts, outcome, terminal, bpVars>>

\* CheckpointFrequency: EveryLevel is Levels with n = 1.
CheckpointDue ==
  \/ cfg.checkpoint_every = "Levels" /\ lvl % cfg.checkpoint_n = 0
  \/ cfg.checkpoint_every = "Nodes" /\ Cardinality(Recorded) % cfg.checkpoint_n = 0

\* A level is over: an automatic checkpoint names the level to go on with.
EndLevel ==
  /\ pc = "levelEnd"
  /\ \/ /\ CheckpointDue /\ cfg.store
        /\ Return("Failed")    \* the store fails: `?` on create_checkpoint
        /\ UNCHANGED <<lvl, pos, chunkStart, ckpts>>
     \/ /\ ckpts' = IF CheckpointDue THEN Saved(lvl + 1) ELSE ckpts
        /\ lvl' = lvl + 1 /\ pos' = 1 /\ chunkStart' = 1
        /\ pc' = "cancelCheck"
        /\ UNCHANGED outcome
  /\ UNCHANGED <<cfg, seenQueued, handles, taskVars, results, dropped, flagVars,
                 terminal, bpVars>>

\* No level is left: a pause or cancellation that came after the last check
\* has no effect.
Complete ==
  /\ pc = "cancelCheck" /\ lvl > Len(Levels)
  /\ Return("Completed")
  /\ terminal' = "completed"
  /\ UNCHANGED <<cfg, coordVars, taskVars, results, dropped, flagVars, ckpts, bpVars>>

Coordinator ==
  \/ CancelCheck \/ PauseCheck
  \/ AdmitUnchecked \/ LoadQueued \/ Decide \/ LimitExceeded \/ Spawn \/ ChunkFull
  \/ AwaitHandle \/ EndChunk \/ EndLevel \/ Complete

--------------------------------------------------------------------------------
(* The task of node n.  It outlives the run when the run returns early.    *)

taskFrame == <<cfg, pc, coordVars, results, dropped, flagVars, ckpts, outcome, terminal>>

\* A worker thread picks the task up.  It cannot leave it between the two
\* atomics of record_dequeued, so at most Workers tasks are between them.
Dequeue(n) ==
  /\ task[n] = "spawned"
  /\ Cardinality({m \in Node : task[m] = "dequeuing"}) < Workers
  /\ task' = [task EXCEPT ![n] = "dequeuing"]
  /\ IF Monitored THEN RecordDequeuedSub ELSE UNCHANGED bpVars
  /\ UNCHANGED <<taskFrame, returned, nodesExecuted>>

StartNode(n) ==
  /\ task[n] = "dequeuing"
  /\ task' = [task EXCEPT ![n] = "running"]
  /\ IF Monitored THEN RecordDequeuedAdd ELSE UNCHANGED bpVars
  /\ UNCHANGED <<taskFrame, returned, nodesExecuted>>

\* execute_node_with_retry returns, or node_timeout_ms cuts it off.
ExecuteNode(n) ==
  /\ task[n] = "running"
  /\ task' = [task EXCEPT ![n] = "executed"]
  /\ \E r \in {"success", "failure", "timeout"} :
       /\ r = "timeout" => cfg.node_timeout
       /\ returned' = [returned EXCEPT ![n] = r]
  /\ UNCHANGED <<taskFrame, nodesExecuted, bpVars>>

\* The node's code panics: tokio ends the task, no counter is given back.
PanicNode(n) ==
  /\ task[n] = "running" /\ cfg.may_panic
  /\ task' = [task EXCEPT ![n] = "panicked"]
  /\ returned' = [returned EXCEPT ![n] = "panic"]
  /\ UNCHANGED <<taskFrame, nodesExecuted, bpVars>>

\* A slip: the place in active_count is not given back.
FinishUncounted(n) ==
  /\ task[n] = "executed"
  /\ task' = [task EXCEPT ![n] = "finished"]
  /\ nodesExecuted' = nodesExecuted + 1
  /\ UNCHANGED <<taskFrame, returned, bpVars>>

\* record_completed, then add_node_execution; no code reads the two together.
FinishNode(n) ==
  /\ task[n] = "executed"
  /\ task' = [task EXCEPT ![n] = "finished"]
  /\ IF Monitored THEN RecordCompleted ELSE UNCHANGED bpVars
  /\ nodesExecuted' = nodesExecuted + 1
  /\ UNCHANGED <<taskFrame, returned>>

Task(n) ==
  Dequeue(n) \/ StartNode(n) \/ ExecuteNode(n) \/ PanicNode(n) \/ FinishNode(n)

--------------------------------------------------------------------------------
(* Clients of the Engine: the execution id is in the workflow_started      *)
(* event, so a client can act from then on, also when the run is over.     *)

clientFrame == <<cfg, pc, coordVars, taskVars, results, dropped, ckpts, outcome,
                 terminal, bpVars>>

PauseExecution == paused' = TRUE /\ UNCHANGED <<clientFrame, cancelled>>
ResumeExecution == paused' = FALSE /\ UNCHANGED <<clientFrame, cancelled>>
CancelExecution == cancelled' = TRUE /\ UNCHANGED <<clientFrame, paused>>
ClearCancellation == cancelled' = FALSE /\ UNCHANGED <<clientFrame, paused>>

Client == PauseExecution \/ ResumeExecution \/ CancelExecution \/ ClearCancellation

Next ==
  \/ Coordinator
  \/ \E n \in Node : Task(n)
  \/ Client

\* The runtime runs every ready task and the coordinator; a node's own work
\* ends, by its result or by node_timeout_ms.  Clients owe nothing.
Fairness ==
  /\ WF_vars(Coordinator)
  /\ \A n \in Node : SF_vars(Dequeue(n)) /\ WF_vars(Task(n))

Spec == Init /\ [][Next]_vars
FairSpec == Spec /\ Fairness

--------------------------------------------------------------------------------
(* Properties. *)

\* Types; queued_count and active_count are unsigned atomics decremented by
\* other tasks than the ones that incremented them, and never go below zero.
TypeOK ==
  /\ cfg \in Configs
  /\ pc \in {"cancelCheck", "pauseCheck", "admit", "decide", "limits", "await",
             "levelEnd", "returned"}
  /\ lvl \in Nat \ {0} /\ pos \in Nat \ {0} /\ chunkStart \in Nat \ {0}
  /\ seenQueued \in Nat
  /\ handles \in Seq(Node)
  /\ task \in [Node -> TaskStates]
  /\ returned \in [Node -> Returned]
  /\ results \in NodeResults
  /\ dropped \subseteq Node
  /\ nodesExecuted \in Nat
  /\ paused \in BOOLEAN /\ cancelled \in BOOLEAN
  /\ ckpts \subseteq [level : Nat, completed : SUBSET Node, results : NodeResults]
  /\ outcome \in Outcomes
  /\ terminal \in {"none", "completed", "paused", "failed"}
  /\ queued \in Nat /\ active \in Nat

\* The run implements DagRun: the nodes a worker has are the ones spawned and
\* not yet recorded.  Levels, chunks and joins keep the dependencies in order,
\* and no node runs on behind a run that completed, paused or was cancelled.
DagStatus ==
  [n \in Node |-> IF n \in dropped THEN "skipped"
                  ELSE IF results[n] # Absent THEN "settled"
                  ELSE IF task[n] # "none" THEN "running"
                  ELSE "pending"]
Dag == INSTANCE DagRun WITH status <- DagStatus
ImplementsDagRun == Dag!Spec

\* Block and Drop bound the nodes in flight although the monitor is read and
\* updated without a lock and a node being dequeued is in neither counter:
\* the excess over the two limits is at most what the worker threads hold
\* between their two atomics.
Dequeuing == {n \in Node : task[n] = "dequeuing"}
InFlightBounded ==
  cfg.strategy \in {"Block", "Drop"} =>
    queued + Cardinality(Dequeuing) + active
      <= IF cfg.max_queued_nodes = 0 \/ cfg.max_active_nodes = 0 THEN 0
         ELSE cfg.max_queued_nodes + cfg.max_active_nodes - 1 + Workers

\* max_total_nodes is compared with the nodes that have FINISHED, so a chunk
\* can overrun it, by less than a chunk and never by more.
NodeLimitOverrun ==
  cfg.max_total_nodes # 0 =>
    Cardinality(Spawned) <= cfg.max_total_nodes + cfg.max_concurrent_nodes - 1

\* Every checkpoint is a consistent cut of the run: exactly the levels before
\* its level are resolved in it, what it lists as completed is what it has
\* results for, and the run never contradicts a result it has saved.
CheckpointConsistent ==
  \A c \in ckpts :
    /\ c.completed = {n \in Node : c.results[n] # Absent}
    /\ c.completed \subseteq NodesBefore(c.level)
    /\ NodesBefore(c.level) \subseteq c.completed \cup dropped
    /\ \A n \in c.completed : c.results[n] = results[n]

\* A run that reports a pause has lost nothing: with a store, the whole
\* context is in a checkpoint from which no started node is missing.
PauseLosesNothing ==
  outcome = "Paused" /\ cfg.store =>
    \E c \in ckpts : c.results = results /\ c.completed = Spawned

\* Every run returns, unless a node panicked under Block: its place in
\* active_count is never given back and the coordinator may wait for it.
Leaked == cfg.strategy = "Block" /\ \E n \in Node : task[n] = "panicked"
Terminates == <>(outcome # "open" \/ Leaked)

================================================================================

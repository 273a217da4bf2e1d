---------------------------- MODULE WorkflowRecovery ----------------------------
(***************************************************************************)
(* What follows a run of WorkflowExecution: its checkpoints, the crash of  *)
(* the process, and resume_from_checkpoint, which goes on sequentially     *)
(* from a checkpoint, may be paused again (and then writes a checkpoint of *)
(* its own) and may itself be resumed.  A client resumes an execution when *)
(* its previous attempt is over; the code does not check that.             *)
(***************************************************************************)
EXTENDS WorkflowExecution

CONSTANTS
  MaxResumes,   \* resumes of the execution: a bound of the model
  MaxCrashes    \* crashes of the process: a bound of the model

VARIABLES
  rpc,        \* where execute_from_checkpoint is
  rfrom,      \* the checkpoint it was given; completed_nodes never changes
  rlvl,       \* level_idx + 1 of its loop over the levels
  rpos,       \* the node of that level it is at
  rctx,       \* ctx.node_results
  resumes, crashes

cursor == <<rlvl, rpos>>
resumeVars == <<rpc, rfrom, cursor, rctx, resumes, crashes>>
allVars == <<vars, resumeVars>>

NoCheckpoint == [level |-> 0, completed |-> {}, results |-> [n \in Node |-> Absent]]

RInit ==
  /\ Init
  /\ rpc = "idle"
  /\ rfrom = NoCheckpoint
  /\ rlvl = 1 /\ rpos = 1
  /\ rctx = [n \in Node |-> Absent]
  /\ resumes = 0 /\ crashes = 0

\* A slip: the level of the checkpoint is taken for a finished one.
LevelAfter(ckpt) == ckpt.level + 1

\* A slip: completed_nodes alone says what is skipped, from the first level on.
FromTheStart(ckpt) == 1

\* The levels before current_level are skipped.
FirstLevel(ckpt) == ckpt.level

\* resume_from_checkpoint: load, clear the pause flag, start.
Resume(ckpt) ==
  /\ outcome # "open" /\ rpc \notin {"running", "executing"}
  /\ resumes < MaxResumes
  /\ ckpt \in ckpts
  /\ paused' = FALSE
  /\ rpc' = "running"
  /\ rfrom' = ckpt
  /\ rlvl' = FirstLevel(ckpt) /\ rpos' = 1
  /\ rctx' = ckpt.results
  /\ resumes' = resumes + 1
  /\ UNCHANGED <<cfg, pc, coordVars, taskVars, results, dropped, cancelled, ckpts,
                 outcome, terminal, bpVars, crashes>>

\* The nodes of the level, from n on, that completed_nodes.contains skips.  The
\* plan may have been evicted and computed anew; the order inside a level, which
\* may then differ, is taken to be the same.
Skipped(n, m) == \A i \in n .. m : Levels[rlvl][i] \in rfrom.completed

AtLevel == rpc = "running" /\ rlvl <= Len(Levels)

\* The loop comes to the node at place i.
Reaches(i) ==
  /\ i \in rpos .. Len(Levels[rlvl])
  /\ Levels[rlvl][i] \notin rfrom.completed
  /\ Skipped(rpos, i - 1)

\* A slip: the loop ends with the level of the checkpoint.
ResumeOneLevel ==
  /\ AtLevel /\ Skipped(rpos, Len(Levels[rlvl]))
  /\ rlvl' = Len(Levels) + 1 /\ rpos' = 1
  /\ UNCHANGED <<vars, rpc, rfrom, rctx, resumes, crashes>>

ResumeNextLevel ==
  /\ AtLevel /\ Skipped(rpos, Len(Levels[rlvl]))
  /\ rlvl' = rlvl + 1 /\ rpos' = 1
  /\ UNCHANGED <<vars, rpc, rfrom, rctx, resumes, crashes>>

\* A slip: the checkpoint of a paused resume names the level after the one it
\* was paused in.
ResumePausedAhead ==
  /\ AtLevel /\ paused /\ \E i \in DOMAIN Levels[rlvl] : Reaches(i)
  /\ rpc' = "paused"
  /\ ckpts' = ckpts \cup {[level |-> rlvl + 1, completed |-> rfrom.completed, results |-> rctx]}
  /\ UNCHANGED <<cfg, pc, coordVars, taskVars, results, dropped, flagVars, outcome,
                 terminal, bpVars, rfrom, cursor, rctx, resumes, crashes>>

\* The pause is checked before every node.  The checkpoint has the context of
\* now but the completed_nodes the resume began with; a failed save is ignored.
ResumePaused ==
  /\ AtLevel /\ paused /\ \E i \in DOMAIN Levels[rlvl] : Reaches(i)
  /\ rpc' = "paused"
  /\ LET again == [level |-> rlvl, completed |-> rfrom.completed, results |-> rctx]
     IN ckpts' \in {ckpts, ckpts \cup {again}}
  /\ UNCHANGED <<cfg, pc, coordVars, taskVars, results, dropped, flagVars, outcome,
                 terminal, bpVars, rfrom, cursor, rctx, resumes, crashes>>

ResumeStartNode ==
  /\ AtLevel /\ ~paused /\ \E i \in DOMAIN Levels[rlvl] : Reaches(i) /\ rpos' = i
  /\ rpc' = "executing"
  /\ UNCHANGED <<vars, rfrom, rlvl, rctx, resumes, crashes>>

\* A slip: a node that fails is tried until it succeeds.
ResumeRetries ==
  /\ rpc = "executing"
  /\ \E r \in {"success", "failure"} :
       /\ rctx' = [rctx EXCEPT ![Levels[rlvl][rpos]] = r]
       /\ rpos' = IF r = "success" THEN rpos + 1 ELSE rpos
  /\ rpc' = "running"
  /\ UNCHANGED <<vars, rfrom, rlvl, resumes, crashes>>

\* execute_node_with_retry on the engine itself, without a timeout.
ResumeFinishNode ==
  /\ rpc = "executing"
  /\ \E r \in {"success", "failure"} : rctx' = [rctx EXCEPT ![Levels[rlvl][rpos]] = r]
  /\ rpos' = rpos + 1
  /\ rpc' = "running"
  /\ UNCHANGED <<vars, rfrom, rlvl, resumes, crashes>>

\* A panicking node unwinds into the caller, which no task stands between, and
\* a caller may drop the future: the attempt is gone, with what it has done.
ResumeLost ==
  /\ rpc = "executing"
  /\ rpc' = "idle"
  /\ UNCHANGED <<vars, rfrom, cursor, rctx, resumes, crashes>>

\* Ok(ctx): no event, no cancellation check, ctx.state is left as it was.
ResumeDone ==
  /\ rpc = "running" /\ rlvl > Len(Levels)
  /\ rpc' = "done"
  /\ UNCHANGED <<vars, rfrom, cursor, rctx, resumes, crashes>>

\* The process dies: tasks, flags and the attempt are gone.  The checkpoints
\* of a FileCheckpointStore are read back by load_all (one whose file was not
\* written in full is skipped: it is as if save had not begun), those of an
\* InMemoryCheckpointStore are lost.
Crash ==
  /\ crashes < MaxCrashes
  /\ crashes' = crashes + 1
  /\ outcome' = IF outcome = "open" THEN "Crashed" ELSE outcome
  /\ pc' = "returned"
  /\ task' = [n \in Node |-> "none"]
  /\ queued' = 0 /\ active' = 0
  /\ paused' = FALSE /\ cancelled' = FALSE
  /\ ckpts' \in {ckpts, {}}
  /\ rpc' = "idle"
  /\ UNCHANGED <<cfg, coordVars, returned, nodesExecuted, results, dropped, terminal,
                 rfrom, cursor, rctx, resumes>>

\* delete; delete_by_execution deletes one after the other.  The file goes first, then the entry that load looks at.
Delete(ckpt) ==
  /\ ckpts' = ckpts \ {ckpt}
  /\ UNCHANGED <<cfg, pc, coordVars, taskVars, results, dropped, flagVars, outcome,
                 terminal, bpVars, resumeVars>>

Resumption ==
  \/ ResumeNextLevel \/ ResumePaused \/ ResumeStartNode
  \/ ResumeFinishNode \/ ResumeDone

RNext ==
  \/ Next /\ UNCHANGED resumeVars
  \/ \E ckpt \in ckpts : Resume(ckpt) \/ Delete(ckpt)
  \/ Resumption
  \/ ResumeLost
  \/ Crash

RSpec == RInit /\ [][RNext]_allVars
RFairSpec == RSpec /\ WF_allVars(Resumption)

--------------------------------------------------------------------------------
(* Properties. *)

\* Types of the resumption, and of the run it follows.
RTypeOK ==
  /\ TypeOK
  /\ rpc \in {"idle", "running", "executing", "paused", "done"}
  /\ rfrom \in [level : Nat, completed : SUBSET Node, results : NodeResults]
  /\ rlvl \in Nat /\ rpos \in Nat
  /\ rctx \in NodeResults
  /\ resumes \in Nat /\ crashes \in Nat

Resulted(res) == {n \in Node : res[n] # Absent}

\* Every checkpoint, also one a paused resume has written, can be gone on
\* from: what lies before its level is resolved, and no node has a result
\* without the nodes it depends on.
CheckpointResumable ==
  \A ck \in ckpts :
    /\ ck.completed \subseteq Resulted(ck.results)
    /\ NodesBefore(ck.level) \subseteq Resulted(ck.results) \cup dropped
    /\ \A n \in Resulted(ck.results) : Preds[n] \subseteq Resulted(ck.results) \cup dropped

\* A resume, like a run, executes a node only when the results it depends on
\* are in the context, wherever the pause or the crash fell.
ResumeInDependencyOrder ==
  rpc = "executing" => Preds[Levels[rlvl][rpos]] \subseteq Resulted(rctx) \cup dropped

\* A resume that returns Ok has a result for every node, except those that
\* backpressure dropped before its checkpoint.
ResumeCompletesWorkflow ==
  rpc = "done" => Node \ Resulted(rctx) \subseteq dropped \cap NodesBefore(rfrom.level)

\* What succeeded is not lost.  A node that had succeeded in the run's own
\* checkpoint is a success in the context of every resume that goes on from it,
\* however long the chain of pauses and resumes is; and of the successes that
\* earlier resumes of the chain have added, a resume can lose those only that
\* belong to the level it was paused in, which it executes again.  Nothing is
\* said of failed nodes.
Repeated == NodesBefore(rfrom.level + 1) \ (NodesBefore(rfrom.level) \cup rfrom.completed)
ResumeKeepsResults ==
  rpc # "idle" =>
    /\ \A n \in rfrom.completed : results[n] = "success" => rctx[n] = "success"
    /\ \A n \in Node : rfrom.results[n] = "success" /\ rctx[n] # "success" => n \in Repeated

\* An attempt to resume comes to an end.
ResumeEnds == rpc = "running" ~> rpc \in {"idle", "paused", "done"}

\* "Skip completed nodes" (oxify-engine/TODO.md:203): a resume does not
\* execute a node whose result it already has.
ResumeSkipsCompleted == rpc = "executing" => rctx[Levels[rlvl][rpos]] = Absent

================================================================================

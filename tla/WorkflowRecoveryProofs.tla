--------------------------- MODULE WorkflowRecoveryProofs ---------------------------
(***************************************************************************)
(* Proofs about WorkflowRecovery for every workflow, every configuration,  *)
(* and any number of crashes and resumes.                                  *)
(***************************************************************************)
EXTENDS WorkflowRecovery, WorkflowExecutionProofs, WellFoundedInduction

--------------------------------------------------------------------------------
(* The inductive invariant. *)

\* Until a crash the run is as in WorkflowExecutionProofs; after it there are no tasks.
Alive == Tracking /\ Counters /\ Finishing
Dead ==
  /\ pc = "returned"
  /\ \A n \in Node : task[n] = "none"
  /\ queued = 0 /\ active = 0 /\ seenQueued \in Nat
Base == Types /\ Place /\ (Alive \/ Dead)

\* A checkpoint from which the workflow can be gone on with.
Sound(ck) ==
  /\ ck.level # 0
  /\ ck.completed \subseteq Resulted(ck.results)
  /\ NodesBefore(ck.level) \subseteq Resulted(ck.results) \cup dropped
  /\ \A n \in Resulted(ck.results) : Preds[n] \subseteq Resulted(ck.results) \cup dropped
  /\ \A n \in ck.completed : ck.results[n] = results[n]

Levelled == \A ck \in ckpts : ck.level # 0
AllSound == \A ck \in ckpts : Sound(ck)

\* Nobody resumes a run that is not over; until then the checkpoints are its own.
Opening ==
  outcome = "open" => rpc = "idle" /\ CheckpointConsistent /\ Levelled

ResumeTypes ==
  /\ rpc \in {"idle", "running", "executing", "paused", "done"}
  /\ rfrom \in [level : Nat, completed : SUBSET Node, results : NodeResults]
  /\ rlvl \in Nat /\ rpos \in Nat
  /\ rctx \in NodeResults
  /\ resumes \in Nat /\ crashes \in Nat

\* What a resume has behind it: the levels before its own are resolved, and so
\* are the nodes of its level before its place.
Resuming ==
  rpc # "idle" =>
    /\ Sound(rfrom)
    /\ rlvl # 0 /\ rpos # 0
    /\ Resulted(rfrom.results) \subseteq Resulted(rctx)
    /\ \A n \in rfrom.completed : rctx[n] = rfrom.results[n]
    /\ NodesBefore(rlvl) \ Resulted(rctx) \subseteq dropped \cap NodesBefore(rfrom.level)
    /\ rlvl \in DOMAIN Levels =>
         \A i \in DOMAIN Levels[rlvl] : i < rpos => Levels[rlvl][i] \in Resulted(rctx)
    /\ \A n \in Resulted(rctx) : Preds[n] \subseteq Resulted(rctx) \cup dropped
    /\ rpc = "executing" => /\ rlvl \in DOMAIN Levels /\ rpos \in DOMAIN Levels[rlvl]
                            /\ Levels[rlvl][rpos] \notin rfrom.completed
    /\ rpc = "done" => rlvl > Len(Levels)

RInv ==
  Base /\ Opening /\ ResumeTypes /\ Resuming /\ AllSound

--------------------------------------------------------------------------------
(* The run and its end. *)

\* While a run is open it is alive; when it is over its coordinator is.
LEMMA OpenIsAlive == ASSUME Base, outcome = "open" PROVE Alive
BY DEF Base, Place, Dead

\* Steps of tasks and clients are all that follow the end of a run.
LEMMA OverStays ==
  ASSUME Base, outcome # "open", [Next]_vars
  PROVE  UNCHANGED <<outcome, results, dropped, ckpts, pc>>
<1>1. pc = "returned"
  BY DEF Base, Place
<1>. QED
  BY <1>1 DEF Next, Coordinator, CancelCheck, PauseCheck, AdmitUnchecked, LoadQueued,
         Decide, LimitExceeded, Spawn, ChunkFull, AwaitHandle, EndChunk, EndLevel, Complete,
         Task, Dequeue, StartNode, ExecuteNode, PanicNode, FinishNode, taskFrame,
         Client, PauseExecution, ResumeExecution, CancelExecution,
         ClearCancellation, clientFrame, vars

\* Nothing moves after a crash but the flags.
LEMMA DeadStays == ASSUME Dead, [Next]_vars PROVE Dead'
<1>1. \A n \in Node : ~Task(n)
  BY DEF Dead, Task, Dequeue, StartNode, ExecuteNode, PanicNode, FinishNode
<1>2. ~Coordinator
  BY DEF Dead, Coordinator, CancelCheck, PauseCheck, AdmitUnchecked, LoadQueued,
         Decide, LimitExceeded, Spawn, ChunkFull, AwaitHandle, EndChunk, EndLevel, Complete
<1>3. UNCHANGED <<pc, task, queued, active, seenQueued>>
  BY <1>1, <1>2 DEF Next, Client, PauseExecution, ResumeExecution, CancelExecution,
         ClearCancellation, clientFrame, vars, bpVars, coordVars, taskVars
<1>. QED
  BY <1>3 DEF Dead

LEMMA BaseStep == ASSUME Base, [Next]_vars PROVE Base'
<1>1. Types' /\ Place'
  BY TypesStep, PlaceStep DEF Base
<1>2. CASE Alive
  BY <1>1, <1>2, TrackingStep, CountersStep, FinishingStep DEF Base, Alive
<1>3. CASE Dead
  BY <1>1, <1>3, DeadStays DEF Base
<1>. QED
  BY <1>2, <1>3 DEF Base

\* The steps of a resume leave the run as it is, but for a flag and a checkpoint.
LEMMA BaseKept ==
  ASSUME Base, paused' \in BOOLEAN, cancelled' = cancelled,
         ckpts' \subseteq [level : Nat, completed : SUBSET Node, results : NodeResults],
         UNCHANGED <<cfg, pc, coordVars, taskVars, results, dropped, outcome, terminal, bpVars>>
  PROVE  Base'
<1>. USE DEF coordVars, taskVars, bpVars
<1>1. Types' /\ Place'
  BY DEF Base, Types, Place, InLevel, ChunkOpen
<1>2. Tracking => Tracking'
  BY DEF Tracking, InLevel, Spawned, Recorded, Reached
<1>3. Counters => Counters'
  BY CountsKept DEF Counters, Monitored, Entering
<1>4. Finishing => Finishing'
  BY DEF Finishing, Recorded
<1>5. Dead => Dead'
  BY DEF Dead
<1>. QED
  BY <1>1, <1>2, <1>3, <1>4, <1>5 DEF Base, Alive

--------------------------------------------------------------------------------
(* Checkpoints. *)

\* A consistent cut of a run is a checkpoint to go on from.
LEMMA ConsistentIsSound ==
  ASSUME Types, CheckpointConsistent, NEW ck \in ckpts, ck.level # 0
  PROVE  Sound(ck)
<1>1. /\ ck.completed = Resulted(ck.results)
      /\ ck.completed \subseteq NodesBefore(ck.level)
      /\ NodesBefore(ck.level) \subseteq ck.completed \cup dropped
      /\ \A n \in ck.completed : ck.results[n] = results[n]
  BY DEF CheckpointConsistent, Resulted
<1>2. ASSUME NEW n \in NodesBefore(ck.level) PROVE Preds[n] \subseteq NodesBefore(ck.level)
  <2>1. PICK l \in DOMAIN Levels : l < ck.level /\ n \in LevelNodes(l)
    BY <1>2, LevelsFacts
  <2>2. Preds[n] \subseteq NodesBefore(l)
    BY <2>1, LevelsFacts
  <2>3. NodesBefore(l) \subseteq NodesBefore(ck.level)
    <3>1. ck.level \in Nat /\ l \in Nat
      BY <2>1, LevelsShape DEF Types
    <3>2. \A k \in DOMAIN Levels : k < l => k < ck.level
      BY <2>1, <3>1, LevelsShape
    <3>3. /\ NodesBefore(l) = UNION {LevelNodes(m) : m \in {k \in DOMAIN Levels : k < l}}
          /\ NodesBefore(ck.level)
               = UNION {LevelNodes(m) : m \in {k \in DOMAIN Levels : k < ck.level}}
      BY LevelsFacts
    <3>. QED
      BY <3>2, <3>3
  <2>. QED
    BY <2>2, <2>3
<1>. QED
  BY <1>1, <1>2 DEF Sound

\* The levels of a run's checkpoints are levels of the run, or the one after.
LEMMA LevelsNotZero ==
  ASSUME Types, [Next]_vars, Levelled
  PROVE  Levelled'
<1>1. \/ ckpts' = ckpts
      \/ \E l \in {lvl, lvl + 1} :
           ckpts' = ckpts \cup {[level |-> l, completed |-> Recorded, results |-> results]}
  BY DEF Next, Coordinator, CancelCheck, PauseCheck, AdmitUnchecked, LoadQueued,
         Decide, LimitExceeded, Spawn, ChunkFull, AwaitHandle, EndChunk, EndLevel, Complete,
         Task, Dequeue, StartNode, ExecuteNode, PanicNode, FinishNode, taskFrame,
         Client, PauseExecution, ResumeExecution, CancelExecution,
         ClearCancellation, clientFrame, vars, Saved, Checkpoint
<1>2. lvl # 0 /\ lvl + 1 # 0
  BY DEF Types
<1>. QED
  BY <1>1, <1>2 DEF Levelled

LEMMA ConsistentAreSound == Types /\ CheckpointConsistent /\ Levelled => AllSound
BY ConsistentIsSound DEF Levelled, AllSound

--------------------------------------------------------------------------------
(* The steps. *)

\* Nothing has been recorded, saved or resumed at the beginning.
LEMMA RInvInit == RInit => RInv
<1>. SUFFICES ASSUME RInit PROVE RInv
  OBVIOUS
<1>1. Base
  BY InvInit, CountersInit DEF RInit, Base, Alive
<1>2. Opening /\ Resuming /\ AllSound
  BY DEF RInit, Init, Opening, Resuming, CheckpointConsistent, Levelled, AllSound
<1>3. ResumeTypes
  BY DEF RInit, ResumeTypes, NoCheckpoint, NodeResults
<1>. QED
  BY <1>1, <1>2, <1>3 DEF RInv

\* The steps of the run, its tasks and its clients.
LEMMA RunStep == ASSUME RInv, [Next]_vars, UNCHANGED resumeVars PROVE RInv'
<1>. USE DEF RInv
<1>1. Base'
  BY BaseStep
<1>2. ResumeTypes'
  BY DEF ResumeTypes, resumeVars, cursor
<1>3. CASE outcome = "open"
  <2>1. rpc = "idle" /\ rpc' = rpc /\ CheckpointConsistent /\ Levelled
    BY <1>3 DEF Opening, resumeVars
  <2>2. Alive
    BY <1>3, OpenIsAlive
  <2>3. CheckpointConsistent'
    BY <2>1, <2>2, CheckpointStep DEF Base, Alive
  <2>4. Levelled'
    BY <2>1, LevelsNotZero DEF Base
  <2>5. Types'
    BY <1>1 DEF Base
  <2>6. AllSound'
    BY <2>3, <2>4, <2>5, ConsistentAreSound, PTL
  <2>. QED
    BY <1>1, <1>2, <2>1, <2>3, <2>4, <2>6 DEF Opening, Resuming
<1>4. CASE outcome # "open"
  <2>1. UNCHANGED <<outcome, results, dropped, ckpts>> /\ UNCHANGED resumeVars
    BY <1>4, OverStays
  <2>2. AllSound'
    BY <2>1 DEF AllSound, Sound
  <2>3. Resuming'
    BY <2>1 DEF Resuming, Sound, resumeVars, cursor
  <2>4. Opening'
    BY <1>4, <2>1 DEF Opening
  <2>. QED
    BY <1>1, <1>2, <2>2, <2>3, <2>4
<1>. QED
  BY <1>3, <1>4

\* A resume begins.
LEMMA ResumeStep == ASSUME RInv, NEW ckpt \in ckpts, Resume(ckpt) PROVE RInv'
<1>. USE DEF RInv
<1>1. /\ outcome # "open" /\ outcome' = outcome /\ ckpts' = ckpts
      /\ results' = results /\ dropped' = dropped
      /\ rpc' = "running" /\ rfrom' = ckpt /\ rlvl' = ckpt.level /\ rpos' = 1
      /\ rctx' = ckpt.results
      /\ resumes' = resumes + 1 /\ crashes' = crashes
  BY DEF Resume, FirstLevel
<1>2. ckpt \in [level : Nat, completed : SUBSET Node, results : NodeResults]
  BY DEF Base, Types
<1>3. Base'
  BY <1>1, BaseKept DEF Resume, Base, Types
<1>4. ResumeTypes'
  BY <1>1, <1>2 DEF ResumeTypes
<1>5. AllSound'
  BY <1>1 DEF AllSound, Sound
<1>6. Resuming'
  <2>1. Sound(ckpt) /\ Sound(ckpt)'
    BY <1>1, <1>5 DEF AllSound
  <2>2. \A l \in DOMAIN Levels : \A i \in DOMAIN Levels[l] : ~(i < 1)
    BY LevelsShape
  <2>. QED
    BY <1>1, <2>1, <2>2 DEF Resuming, Sound
<1>. QED
  BY <1>1, <1>3, <1>4, <1>5, <1>6 DEF Opening

\* While a resume goes on, and through its end, the run it follows is over.
LEMMA ResumeAfterRun == ASSUME RInv, rpc # "idle" PROVE outcome # "open"
BY DEF RInv, Opening

\* A step of a resume that writes no checkpoint.
LEMMA ResumptionKeeps ==
  ASSUME RInv, rpc # "idle", UNCHANGED <<vars, rfrom, resumes, crashes>>
  PROVE  Base' /\ AllSound' /\ Opening'
<1>1. outcome # "open"
  BY ResumeAfterRun
<1>2. Base'
  BY BaseStep DEF RInv
<1>3. AllSound' /\ outcome' = outcome
  BY DEF RInv, AllSound, Sound, vars
<1>. QED
  BY <1>1, <1>2, <1>3 DEF Opening

\* The loop leaves a level: all of its nodes have a result.
LEMMA NextLevelStep == ASSUME RInv, ResumeNextLevel PROVE RInv'
<1>. USE DEF RInv
<1>1. /\ rpc = "running" /\ rpc' = rpc /\ rlvl \in Nat \ {0} /\ rlvl <= Len(Levels)
      /\ rlvl' = rlvl + 1 /\ rpos' = 1 /\ rpos \in Nat \ {0}
      /\ UNCHANGED <<vars, rfrom, rctx, resumes, crashes>>
      /\ Skipped(rpos, Len(Levels[rlvl]))
  BY DEF ResumeNextLevel, AtLevel, ResumeTypes, Resuming
<1>2. Base' /\ AllSound' /\ Opening'
  BY <1>1, ResumptionKeeps
<1>3. ResumeTypes'
  BY <1>1 DEF ResumeTypes
<1>4. rlvl \in DOMAIN Levels
  BY <1>1, LevelsShape
<1>5. LevelNodes(rlvl) \subseteq Resulted(rctx)
  <2>1. \A i \in DOMAIN Levels[rlvl] : i < rpos \/ i \in rpos .. Len(Levels[rlvl])
    BY <1>1, <1>4, LevelsShape
  <2>2. \A i \in rpos .. Len(Levels[rlvl]) : Levels[rlvl][i] \in Resulted(rctx)
    BY <1>1 DEF Skipped, Resuming, Sound, Resulted
  <2>3. \A i \in DOMAIN Levels[rlvl] : Levels[rlvl][i] \in Resulted(rctx)
    BY <1>1, <1>4, <2>1, <2>2 DEF Resuming
  <2>. QED
    BY <1>4, <2>3, LevelsShape
<1>6. NodesBefore(rlvl + 1) = NodesBefore(rlvl) \cup LevelNodes(rlvl)
  BY <1>4, BeforeNext
<1>7. \A l \in DOMAIN Levels : \A i \in DOMAIN Levels[l] : ~(i < 1)
  BY LevelsShape
<1>8. Sound(rfrom)'
  BY <1>1 DEF Resuming, Sound, vars
<1>9. Resuming'
  BY <1>1, <1>5, <1>6, <1>7, <1>8 DEF Resuming, vars
<1>. QED
  BY <1>2, <1>3, <1>9

\* The loop comes to a node that has to be executed.
LEMMA StartNodeStep == ASSUME RInv, ResumeStartNode PROVE RInv'
<1>. USE DEF RInv
<1>1. PICK i \in rpos .. Len(Levels[rlvl]) :
        /\ rpos' = i /\ Levels[rlvl][i] \notin rfrom.completed /\ Skipped(rpos, i - 1)
  BY DEF ResumeStartNode, Reaches
<1>2. /\ rpc = "running" /\ rpc' = "executing" /\ rlvl \in Nat \ {0} /\ rlvl <= Len(Levels)
      /\ rpos \in Nat \ {0} /\ rlvl' = rlvl
      /\ UNCHANGED <<vars, rfrom, rctx, resumes, crashes>>
  BY DEF ResumeStartNode, AtLevel, ResumeTypes, Resuming
<1>3. Base' /\ AllSound' /\ Opening'
  BY <1>2, ResumptionKeeps
<1>4. rlvl \in DOMAIN Levels /\ i \in DOMAIN Levels[rlvl] /\ i \in Nat \ {0}
  BY <1>1, <1>2, LevelsShape
<1>5. ResumeTypes'
  BY <1>1, <1>2, <1>4 DEF ResumeTypes
<1>6. \A j \in DOMAIN Levels[rlvl] : j < i => Levels[rlvl][j] \in Resulted(rctx)
  <2>1. \A j \in DOMAIN Levels[rlvl] : j < i => j < rpos \/ j \in rpos .. i - 1
    BY <1>2, <1>4, LevelsShape
  <2>2. \A j \in rpos .. i - 1 : Levels[rlvl][j] \in Resulted(rctx)
    BY <1>1, <1>2 DEF Skipped, Resuming, Sound, Resulted
  <2>. QED
    BY <1>2, <1>4, <2>1, <2>2 DEF Resuming
<1>7. Sound(rfrom)'
  BY <1>2 DEF Resuming, Sound, vars
<1>8. Resuming'
  BY <1>1, <1>2, <1>4, <1>6, <1>7 DEF Resuming, vars
<1>. QED
  BY <1>3, <1>5, <1>8

\* The node ends, and its result is in the context.
LEMMA FinishNodeStep == ASSUME RInv, ResumeFinishNode PROVE RInv'
<1>. USE DEF RInv
<1> DEFINE n == Levels[rlvl][rpos]
<1>1. /\ rpc = "executing" /\ rpc' = "running" /\ rlvl \in Nat \ {0} /\ rlvl' = rlvl
      /\ rpos \in Nat \ {0} /\ rpos' = rpos + 1
      /\ rlvl \in DOMAIN Levels /\ rpos \in DOMAIN Levels[rlvl] /\ n \notin rfrom.completed
      /\ UNCHANGED <<vars, rfrom, resumes, crashes>>
  BY DEF ResumeFinishNode, ResumeTypes, Resuming
<1>2. PICK r \in {"success", "failure"} : rctx' = [rctx EXCEPT ![n] = r]
  BY DEF ResumeFinishNode
<1>3. Base' /\ AllSound' /\ Opening'
  BY <1>1, ResumptionKeeps
<1>4. n \in LevelNodes(rlvl) /\ n \in Node
  BY <1>1, LevelsShape
<1>5. rctx \in NodeResults /\ rctx' \in NodeResults
  BY <1>2, <1>4 DEF ResumeTypes, NodeResults
<1>6. ResumeTypes'
  BY <1>1, <1>5 DEF ResumeTypes
<1>7. Resulted(rctx') = Resulted(rctx) \cup {n}
  BY <1>2, <1>4, <1>5 DEF Resulted, NodeResults, Absent
<1>8. Preds[n] \subseteq Resulted(rctx) \cup dropped
  <2>1. Preds[n] \subseteq NodesBefore(rlvl)
    BY <1>1, <1>4, LevelsFacts
  <2>2. NodesBefore(rlvl) \ Resulted(rctx) \subseteq dropped
    BY <1>1 DEF Resuming
  <2>. QED
    BY <2>1, <2>2
<1>9. \A m \in rfrom.completed : rctx'[m] = rfrom.results[m]
  <2>1. rfrom.completed \subseteq Node
    BY DEF ResumeTypes
  <2>. QED
    BY <1>1, <1>2, <1>5, <2>1 DEF Resuming, NodeResults
<1>10. \A i \in DOMAIN Levels[rlvl] : i < rpos + 1 => Levels[rlvl][i] \in Resulted(rctx')
  <2>1. \A i \in DOMAIN Levels[rlvl] : i < rpos + 1 => i < rpos \/ i = rpos
    BY <1>1, LevelsShape
  <2>. QED
    BY <1>1, <1>7, <2>1 DEF Resuming
<1>11. Sound(rfrom)'
  BY <1>1 DEF Resuming, Sound, vars
<1>12. Resuming'
  BY <1>1, <1>7, <1>8, <1>9, <1>10, <1>11 DEF Resuming, vars
<1>. QED
  BY <1>3, <1>6, <1>12

\* The loop finds the pause flag set, and writes a checkpoint of its own.
LEMMA PausedStep == ASSUME RInv, ResumePaused PROVE RInv'
<1>. USE DEF RInv
<1> DEFINE again == [level |-> rlvl, completed |-> rfrom.completed, results |-> rctx]
<1>1. /\ rpc = "running" /\ rpc' = "paused" /\ rlvl \in Nat \ {0} /\ rlvl <= Len(Levels)
      /\ rlvl' = rlvl /\ rpos' = rpos
      /\ UNCHANGED <<cfg, pc, coordVars, taskVars, results, dropped, flagVars, outcome,
                     terminal, bpVars, rfrom, rctx, resumes, crashes>>
      /\ ckpts' \in {ckpts, ckpts \cup {again}}
  BY DEF ResumePaused, AtLevel, ResumeTypes, Resuming, cursor
<1>2. again \in [level : Nat, completed : SUBSET Node, results : NodeResults]
  BY <1>1 DEF ResumeTypes
<1>3. Base'
  <2>1. ckpts' \subseteq [level : Nat, completed : SUBSET Node, results : NodeResults]
    BY <1>1, <1>2 DEF Base, Types
  <2>2. paused' \in BOOLEAN /\ cancelled' = cancelled
    BY <1>1 DEF Base, Types, flagVars
  <2>. QED
    BY <1>1, <2>1, <2>2, BaseKept
<1>4. Opening'
  BY <1>1, ResumeAfterRun DEF Opening
<1>5. ResumeTypes'
  BY <1>1 DEF ResumeTypes
<1>6. Sound(again)
  <2>1. rfrom.completed \subseteq Resulted(rctx)
    BY <1>1 DEF Resuming, Sound
  <2>2. \A n \in rfrom.completed : rctx[n] = results[n]
    BY <1>1 DEF Resuming, Sound
  <2>. QED
    BY <1>1, <2>1, <2>2 DEF Resuming, Sound
<1>7. AllSound'
  <2>1. \A ck \in ckpts' : Sound(ck)
    BY <1>1, <1>6 DEF AllSound
  <2>. QED
    BY <1>1, <2>1 DEF AllSound, Sound
<1>8. Resuming'
  BY <1>1 DEF Resuming, Sound
<1>. QED
  BY <1>3, <1>4, <1>5, <1>7, <1>8

\* The loop has left the last level.
LEMMA DoneStep == ASSUME RInv, ResumeDone PROVE RInv'
<1>. USE DEF RInv
<1>1. /\ rpc = "running" /\ rpc' = "done" /\ rlvl > Len(Levels)
      /\ rlvl' = rlvl /\ rpos' = rpos
      /\ UNCHANGED <<vars, rfrom, rctx, resumes, crashes>>
  BY DEF ResumeDone, cursor
<1>2. Base' /\ AllSound' /\ Opening'
  BY <1>1, ResumptionKeeps
<1>3. ResumeTypes'
  BY <1>1 DEF ResumeTypes
<1>4. Resuming'
  BY <1>1 DEF Resuming, Sound, vars
<1>. QED
  BY <1>2, <1>3, <1>4

\* The attempt is lost to a panic or with its caller.
LEMMA LostStep == ASSUME RInv, ResumeLost PROVE RInv'
<1>. USE DEF RInv
<1>1. /\ rpc' = "idle" /\ rlvl' = rlvl /\ rpos' = rpos
      /\ UNCHANGED <<vars, rfrom, rctx, resumes, crashes>>
  BY DEF ResumeLost, cursor
<1>2. Base' /\ AllSound' /\ Opening'
  BY <1>1, ResumptionKeeps DEF ResumeLost
<1>3. ResumeTypes' /\ Resuming'
  BY <1>1 DEF ResumeTypes, Resuming
<1>. QED
  BY <1>2, <1>3

\* The process dies: no task is left, and the store may be.
LEMMA CrashStep == ASSUME RInv, Crash PROVE RInv'
<1>. USE DEF RInv
<1>1. /\ outcome' = IF outcome = "open" THEN "Crashed" ELSE outcome
      /\ pc' = "returned" /\ task' = [n \in Node |-> "none"] /\ queued' = 0 /\ active' = 0
      /\ paused' = FALSE /\ cancelled' = FALSE /\ ckpts' \in {ckpts, {}} /\ rpc' = "idle"
      /\ crashes' = crashes + 1 /\ resumes' = resumes
      /\ UNCHANGED <<cfg, coordVars, returned, nodesExecuted, results, dropped, terminal,
                     rfrom, rlvl, rpos, rctx>>
  BY DEF Crash, cursor
<1>2. Types'
  <2>1. task' \in [Node -> TaskStates]
    BY <1>1 DEF TaskStates
  <2>2. outcome' \in Outcomes /\ ckpts' \subseteq ckpts
    BY <1>1 DEF Base, Types, Outcomes
  <2>3. ckpts' \subseteq [level : Nat, completed : SUBSET Node, results : NodeResults]
    BY <2>2 DEF Base, Types
  <2>4. Types
    BY DEF Base
  <2>5. /\ lvl' = lvl /\ pos' = pos /\ chunkStart' = chunkStart
        /\ seenQueued' = seenQueued /\ handles' = handles
    BY <1>1 DEF coordVars
  <2>6. paused' \in BOOLEAN /\ cancelled' \in BOOLEAN
    BY <1>1
  <2>. QED
    BY <1>1, <2>1, <2>2, <2>3, <2>4, <2>5, <2>6 DEF Types
<1>3. Place' /\ outcome' # "open"
  BY <1>1 DEF Place, InLevel
<1>4. Dead'
  <2>1. seenQueued \in Nat
    BY DEF Base, Alive, Counters, Dead
  <2>. QED
    BY <1>1, <2>1 DEF Dead, coordVars
<1>5. ResumeTypes'
  BY <1>1 DEF ResumeTypes
<1>6. AllSound'
  BY <1>1 DEF AllSound, Sound
<1>. QED
  BY <1>1, <1>2, <1>3, <1>4, <1>5, <1>6 DEF Base, Opening, Resuming

\* A checkpoint is deleted: a resume that has loaded it has its copy.
LEMMA DeleteStep == ASSUME RInv, NEW ckpt, Delete(ckpt) PROVE RInv'
<1>. USE DEF RInv
<1>1. /\ ckpts' \subseteq ckpts
      /\ UNCHANGED <<cfg, pc, coordVars, taskVars, results, dropped, flagVars, outcome,
                     terminal, bpVars, resumeVars>>
  BY DEF Delete
<1>2. Base'
  <2>1. ckpts' \subseteq [level : Nat, completed : SUBSET Node, results : NodeResults]
    BY <1>1 DEF Base, Types
  <2>2. paused' \in BOOLEAN /\ cancelled' = cancelled
    BY <1>1 DEF Base, Types, flagVars
  <2>. QED
    BY <1>1, <2>1, <2>2, BaseKept
<1>3. Opening'
  BY <1>1 DEF Opening, CheckpointConsistent, Levelled, Resulted, resumeVars
<1>4. ResumeTypes' /\ AllSound' /\ Resuming'
  BY <1>1 DEF ResumeTypes, AllSound, Sound, Resuming, resumeVars, cursor
<1>. QED
  BY <1>2, <1>3, <1>4

\* Every step keeps the invariant.
LEMMA RInvStep == RInv /\ [RNext]_allVars => RInv'
<1>. SUFFICES ASSUME RInv, [RNext]_allVars PROVE RInv'
  OBVIOUS
<1>1. CASE UNCHANGED allVars
  BY <1>1, RunStep DEF allVars
<1>2. CASE Next /\ UNCHANGED resumeVars
  BY <1>2, RunStep
<1>3. CASE \E ckpt \in ckpts : Resume(ckpt) \/ Delete(ckpt)
  BY <1>3, ResumeStep, DeleteStep
<1>4. CASE Resumption
  BY <1>4, NextLevelStep, PausedStep, StartNodeStep, FinishNodeStep, DoneStep DEF Resumption
<1>5. CASE ResumeLost \/ Crash
  BY <1>5, LostStep, CrashStep
<1>. QED
  BY <1>1, <1>2, <1>3, <1>4, <1>5 DEF RNext

LEMMA RInvHolds == RSpec => []RInv
<1>. QED
  BY RInvInit, RInvStep, PTL DEF RSpec

--------------------------------------------------------------------------------
(* What a chain of resumes keeps.                                           *)

\* A checkpoint has no result from beyond its own level.
Within(ck) == Resulted(ck.results) \subseteq NodesBefore(ck.level + 1)

\* A resume is not behind its checkpoint, and the results of the levels before
\* the checkpoint's are the ones it was given.
Keeping ==
  /\ \A ck \in ckpts : Within(ck)
  /\ rpc # "idle" =>
       /\ Within(rfrom)
       /\ rlvl >= rfrom.level
       /\ Resulted(rctx) \subseteq NodesBefore(rlvl + 1)
       /\ \A n \in NodesBefore(rfrom.level) : rctx[n] = rfrom.results[n]

\* What is before a level is before the later ones.
LEMMA BeforeGrows ==
  ASSUME NEW l \in Nat, NEW m \in Nat, l <= m PROVE NodesBefore(l) \subseteq NodesBefore(m)
<1>1. {k \in DOMAIN Levels : k < l} \subseteq {k \in DOMAIN Levels : k < m}
  BY LevelsShape
<1>. QED
  BY <1>1, LevelsFacts

\* The checkpoints of a run hold results of the levels before theirs only.
LEMMA ConsistentAreWithin ==
  Types /\ CheckpointConsistent => \A ck \in ckpts : Within(ck)
<1>. SUFFICES ASSUME Types, CheckpointConsistent, NEW ck \in ckpts PROVE Within(ck)
  OBVIOUS
<1>1. Resulted(ck.results) \subseteq NodesBefore(ck.level)
  BY DEF CheckpointConsistent, Resulted
<1>2. ck.level \in Nat
  BY DEF Types
<1>3. NodesBefore(ck.level) \subseteq NodesBefore(ck.level + 1)
  BY <1>2, BeforeGrows
<1>. QED
  BY <1>1, <1>3 DEF Within

\* The run, and steps that leave a resume as it is and save no checkpoint.
LEMMA KeepingRun ==
  ASSUME RInv, RInv', Keeping, [Next]_vars, UNCHANGED resumeVars PROVE Keeping'
<1>1. UNCHANGED <<rpc, rfrom, rlvl, rctx>>
  BY DEF resumeVars, cursor
<1>2. CASE outcome # "open"
  BY <1>1, <1>2, OverStays DEF RInv, Keeping, Within
<1>3. CASE outcome = "open"
  <2>1. rpc = "idle" /\ CheckpointConsistent /\ Alive /\ Types
    BY <1>3, OpenIsAlive DEF RInv, Opening, Base
  <2>2. CheckpointConsistent' /\ Types'
    BY <2>1, CheckpointStep DEF RInv, Base, Alive
  <2>3. (\A ck \in ckpts : Within(ck))'
    BY <2>2, ConsistentAreWithin, PTL
  <2>. QED
    BY <1>1, <2>1, <2>3 DEF Keeping
<1>. QED
  BY <1>2, <1>3

\* A resume begins with the results of its checkpoint.
LEMMA KeepingBegin ==
  ASSUME RInv, Keeping, NEW ckpt \in ckpts, Resume(ckpt) PROVE Keeping'
<1>1. /\ ckpts' = ckpts /\ rfrom' = ckpt /\ rlvl' = ckpt.level /\ rctx' = ckpt.results
      /\ ckpt.level \in Nat
  BY DEF Resume, FirstLevel, RInv, Base, Types
<1>2. Within(ckpt)
  BY DEF Keeping
<1>. QED
  BY <1>1, <1>2 DEF Keeping, Within

\* Its loop goes on, is paused or ends.
LEMMA KeepingLoop ==
  ASSUME RInv, Keeping,
         ResumeNextLevel \/ ResumePaused \/ ResumeStartNode \/ ResumeDone
  PROVE  Keeping'
<1>1. /\ rpc # "idle" /\ rlvl \in Nat /\ rlvl' \in {rlvl, rlvl + 1}
      /\ rfrom' = rfrom /\ rctx' = rctx /\ rfrom.level \in Nat
      /\ \/ ckpts' = ckpts
         \/ /\ rlvl' = rlvl
            /\ ckpts' = ckpts \cup
                 {[level |-> rlvl, completed |-> rfrom.completed, results |-> rctx]}
  BY DEF ResumeNextLevel, ResumePaused, ResumeStartNode, ResumeDone, AtLevel, vars, cursor,
         RInv, ResumeTypes
<1>2. Within([level |-> rlvl, completed |-> rfrom.completed, results |-> rctx])
  BY <1>1 DEF Keeping, Within
<1>3. NodesBefore(rlvl + 1) \subseteq NodesBefore(rlvl' + 1)
  BY <1>1, BeforeGrows
<1>4. \A ck \in ckpts' : Within(ck)
  BY <1>1, <1>2 DEF Keeping
<1>5. rlvl' >= rfrom.level
  BY <1>1 DEF Keeping
<1>. QED
  BY <1>1, <1>3, <1>4, <1>5 DEF Keeping, Within

\* A node of the level it is at ends: no node before the checkpoint's level.
LEMMA KeepingNode == ASSUME RInv, Keeping, ResumeFinishNode PROVE Keeping'
<1> DEFINE n == Levels[rlvl][rpos]
<1>1. /\ rpc = "executing" /\ rlvl' = rlvl /\ rfrom' = rfrom /\ ckpts' = ckpts
      /\ rlvl \in DOMAIN Levels /\ rpos \in DOMAIN Levels[rlvl]
      /\ rlvl \in Nat /\ rfrom.level \in Nat /\ rctx \in NodeResults
  BY DEF ResumeFinishNode, vars, RInv, Resuming, ResumeTypes
<1>2. PICK r \in {"success", "failure"} : rctx' = [rctx EXCEPT ![n] = r]
  BY DEF ResumeFinishNode
<1>3. n \in LevelNodes(rlvl) /\ n \in Node
  BY <1>1, LevelsShape
<1>4. rlvl >= rfrom.level /\ Within(rfrom) /\ Resulted(rctx) \subseteq NodesBefore(rlvl + 1)
  BY <1>1 DEF Keeping
<1>5. n \notin NodesBefore(rfrom.level) /\ n \in NodesBefore(rlvl + 1)
  <2>1. NodesBefore(rfrom.level) \subseteq NodesBefore(rlvl)
    BY <1>1, <1>4, BeforeGrows
  <2>. QED
    BY <1>1, <1>3, <2>1, BeforeDisjoint, BeforeNext
<1>6. Resulted(rctx') \subseteq Resulted(rctx) \cup {n}
  BY <1>1, <1>2, <1>3 DEF Resulted, NodeResults
<1>7. \A m \in NodesBefore(rfrom.level) : rctx'[m] = rfrom.results[m]
  <2>1. NodesBefore(rfrom.level) \subseteq Node
    BY BeforeNodes
  <2>. QED
    BY <1>1, <1>2, <1>5, <2>1 DEF Keeping, NodeResults
<1>. QED
  BY <1>1, <1>4, <1>5, <1>6, <1>7 DEF Keeping, Within

LEMMA KeepingStep == RInv /\ RInv' /\ Keeping /\ [RNext]_allVars => Keeping'
<1>. SUFFICES ASSUME RInv, RInv', Keeping, [RNext]_allVars PROVE Keeping'
  OBVIOUS
<1>1. CASE UNCHANGED allVars
  BY <1>1, KeepingRun DEF allVars
<1>2. CASE Next /\ UNCHANGED resumeVars
  BY <1>2, KeepingRun
<1>3. CASE \E ckpt \in ckpts : Resume(ckpt)
  BY <1>3, KeepingBegin
<1>4. CASE \E ckpt \in ckpts : Delete(ckpt)
  BY <1>4 DEF Delete, Keeping, Within, resumeVars, cursor
<1>5. CASE Resumption
  BY <1>5, KeepingLoop, KeepingNode DEF Resumption
<1>6. CASE ResumeLost \/ Crash
  <2>1. rpc' = "idle" /\ ckpts' \subseteq ckpts
    BY <1>6 DEF ResumeLost, Crash, vars
  <2>. QED
    BY <2>1 DEF Keeping, Within
<1>. QED
  BY <1>1, <1>2, <1>3, <1>4, <1>5, <1>6 DEF RNext

LEMMA KeepingHolds == RSpec => []Keeping
<1>1. RInit => Keeping
  BY DEF RInit, Init, Keeping
<1>. QED
  BY <1>1, RInvHolds, KeepingStep, PTL DEF RSpec

--------------------------------------------------------------------------------
(* The theorems. *)

\* Type correctness of the run, of the crash and of what follows them.
THEOREM RecoveryTypes == RSpec => []RTypeOK
<1>1. RInv => RTypeOK
  <2>. SUFFICES ASSUME RInv PROVE RTypeOK
    OBVIOUS
  <2>1. queued \in Nat /\ active \in Nat /\ seenQueued \in Nat
    <3>1. CASE Alive
      BY <3>1, CountsAreNat DEF Alive, Counters, Entering
    <3>2. CASE Dead
      BY <3>2 DEF Dead
    <3>. QED
      BY <3>1, <3>2 DEF RInv, Base
  <2>2. TypeOK
    BY <2>1 DEF RInv, Base, Types, TypeOK
  <2>. QED
    BY <2>2 DEF RInv, ResumeTypes, RTypeOK
<1>. QED
  BY <1>1, RInvHolds, PTL

\* Every checkpoint in the store can be gone on from: those of the run's own
\* pauses and levels, and those of resumes that were paused, of whatever length
\* the chain of resumes and crashes is.
THEOREM CheckpointsCanBeResumed == RSpec => []CheckpointResumable
<1>1. RInv => CheckpointResumable
  BY DEF RInv, AllSound, Sound, CheckpointResumable
<1>. QED
  BY <1>1, RInvHolds, PTL

\* A resume executes no node before the nodes it depends on, although it looks
\* at completed_nodes and levels only, never at the edges.
THEOREM ResumeRespectsEdges == RSpec => []ResumeInDependencyOrder
<1>1. RInv => ResumeInDependencyOrder
  <2>. SUFFICES ASSUME RInv, rpc = "executing"
                PROVE  Preds[Levels[rlvl][rpos]] \subseteq Resulted(rctx) \cup dropped
    BY DEF ResumeInDependencyOrder
  <2>1. rlvl \in DOMAIN Levels /\ rpos \in DOMAIN Levels[rlvl]
    BY DEF RInv, Resuming
  <2>2. Levels[rlvl][rpos] \in LevelNodes(rlvl)
    BY <2>1, LevelsShape
  <2>3. Preds[Levels[rlvl][rpos]] \subseteq NodesBefore(rlvl)
    BY <2>1, <2>2, LevelsFacts
  <2>4. NodesBefore(rlvl) \ Resulted(rctx) \subseteq dropped
    BY DEF RInv, Resuming
  <2>. QED
    BY <2>3, <2>4
<1>. QED
  BY <1>1, RInvHolds, PTL

\* A resume that returns Ok has finished the workflow: no node is without a
\* result but the ones backpressure had dropped before the checkpoint.
THEOREM ResumeFinishesWorkflow == RSpec => []ResumeCompletesWorkflow
<1>1. RInv => ResumeCompletesWorkflow
  <2>. SUFFICES ASSUME RInv, rpc = "done"
                PROVE  Node \ Resulted(rctx) \subseteq dropped \cap NodesBefore(rfrom.level)
    BY DEF ResumeCompletesWorkflow
  <2>1. rlvl \in Nat /\ rlvl > Len(Levels)
    BY DEF RInv, ResumeTypes, Resuming
  <2>2. NodesBefore(rlvl) = Node
    BY <2>1, BeforeLast
  <2>. QED
    BY <2>2 DEF RInv, Resuming
<1>. QED
  BY <1>1, RInvHolds, PTL

\* What succeeded before a checkpoint is a success through the whole chain of
\* resumes that goes on from it, and a resume executes a node that had succeeded
\* again only in the level it was paused in.
THEOREM ResumeLosesNothing == RSpec => []ResumeKeepsResults
<1>1. RInv /\ Keeping => ResumeKeepsResults
  <2>. SUFFICES ASSUME RInv, Keeping, rpc # "idle" PROVE ResumeKeepsResults
    BY DEF ResumeKeepsResults
  <2>1. \A n \in rfrom.completed : rctx[n] = rfrom.results[n] /\ rctx[n] = results[n]
    BY DEF RInv, Resuming, Sound
  <2>2. /\ Within(rfrom)
        /\ \A n \in NodesBefore(rfrom.level) : rctx[n] = rfrom.results[n]
    BY DEF Keeping
  <2>3. ASSUME NEW n \in Node, rfrom.results[n] = "success", rctx[n] # "success"
        PROVE  n \in Repeated
    <3>1. n \in NodesBefore(rfrom.level + 1)
      BY <2>2, <2>3 DEF Within, Resulted, Absent
    <3>. QED
      BY <2>1, <2>2, <2>3, <3>1 DEF Repeated
  <2>. QED
    BY <2>1, <2>3 DEF ResumeKeepsResults
<1>. QED
  BY <1>1, RInvHolds, KeepingHolds, PTL

--------------------------------------------------------------------------------
(***************************************************************************)
(* What ResumeEnds rests on, without fairness: the loop of a resume always *)
(* has somewhere to go, and each of its steps goes forward.                *)
(***************************************************************************)

Less == {p \in Nat \X Nat : p[1] < p[2]}

\* A set of numbers that is not empty has a least element.
LEMMA LeastNumber ==
  ASSUME NEW T \in SUBSET Nat, T # {} PROVE \E n \in T : \A m \in T : n <= m
<1>1. OpToRel(<, Nat) = Less
  BY Zenon DEF OpToRel, Less
<1>2. IsWellFoundedOn(Less, Nat)
  BY <1>1, NatLessThanWellFounded, Zenon
<1>3. PICK n \in T : \A m \in T : <<m, n>> \notin Less
  BY <1>2, WFMin, T \subseteq Nat, Zenon
<1>4. ASSUME NEW m \in T PROVE n <= m
  <2>1. n \in Nat /\ m \in Nat /\ <<m, n>> \notin Less
    BY <1>3
  <2>. QED
    BY <2>1 DEF Less
<1>. QED
  BY <1>3, <1>4, Zenon

\* The loop has left the last level, leaves its level, or comes to a node.
CanGoForward ==
  rpc = "running" => \/ rlvl > Len(Levels)
                     \/ Skipped(rpos, Len(Levels[rlvl]))
                     \/ \E i \in DOMAIN Levels[rlvl] : Reaches(i)

\* A resume that goes on is never stuck: the first node of the level that is
\* not in completed_nodes is the one its loop comes to.
THEOREM ResumeCanGoOn == RSpec => []CanGoForward
<1>1. RInv => CanGoForward
  <2>. SUFFICES ASSUME RInv, rpc = "running", rlvl <= Len(Levels),
                       ~Skipped(rpos, Len(Levels[rlvl]))
                PROVE  \E i \in DOMAIN Levels[rlvl] : Reaches(i)
    BY LevelsShape DEF CanGoForward, RInv, ResumeTypes
  <2>1. /\ rlvl \in DOMAIN Levels /\ rpos \in Nat \ {0}
        /\ Len(Levels[rlvl]) \in Nat /\ DOMAIN Levels[rlvl] = 1 .. Len(Levels[rlvl])
    BY LevelsShape DEF RInv, ResumeTypes, Resuming
  <2> DEFINE Left == {i \in rpos .. Len(Levels[rlvl]) : Levels[rlvl][i] \notin rfrom.completed}
  <2>2. Left # {} /\ Left \in SUBSET Nat
    BY <2>1 DEF Skipped
  <2>3. PICK i \in Left : \A j \in Left : i <= j
    <3> HIDE DEF Left
    <3>. QED
      BY <2>2, LeastNumber
  <2>4. i \in DOMAIN Levels[rlvl]
    BY <2>1
  <2>5. Skipped(rpos, i - 1)
    BY <2>1, <2>3 DEF Skipped
  <2>. QED
    BY <2>4, <2>5 DEF Reaches
<1>. QED
  BY <1>1, RInvHolds, PTL

\* The order of the statements of the loop's body.
ResumeStage(p) ==
  CASE p = "running" -> 0
    [] p = "executing" -> 1
    [] p \in {"idle", "paused", "done"} -> 2

GoesForward ==
  \/ rlvl' > rlvl
  \/ rlvl' = rlvl /\ rpos' > rpos
  \/ UNCHANGED cursor /\ ResumeStage(rpc') > ResumeStage(rpc)

ResumeRepeatsNothing == [][Resumption => GoesForward]_allVars

\* Every step of a resume takes it to a later level, node or statement: what
\* fails is not tried again by the loop, and no pause takes it back.
THEOREM ResumeGoesForward == RSpec => ResumeRepeatsNothing
<1>1. RInv /\ [RNext]_allVars => [Resumption => GoesForward]_allVars
  <2>. SUFFICES ASSUME RInv, Resumption PROVE GoesForward
    OBVIOUS
  <2>. USE DEF cursor, GoesForward, ResumeStage
  <2>1. rlvl \in Nat /\ rpos \in Nat
    BY DEF RInv, ResumeTypes
  <2>2. CASE ResumeNextLevel
    BY <2>1, <2>2 DEF ResumeNextLevel
  <2>3. CASE ResumeFinishNode
    BY <2>1, <2>3 DEF ResumeFinishNode
  <2>4. CASE ResumePaused \/ ResumeDone
    BY <2>4 DEF ResumePaused, ResumeDone, AtLevel
  <2>5. CASE ResumeStartNode
    <3>1. PICK i \in DOMAIN Levels[rlvl] : Reaches(i) /\ rpos' = i
      BY <2>5 DEF ResumeStartNode
    <3>2. rpos' \in Nat /\ rpos' >= rpos
      BY <2>1, <3>1 DEF Reaches
    <3>. QED
      BY <2>1, <2>5, <3>2 DEF ResumeStartNode, AtLevel
  <2>. QED
    BY <2>2, <2>3, <2>4, <2>5 DEF Resumption
<1>. QED
  BY <1>1, RInvHolds, PTL DEF RSpec, ResumeRepeatsNothing

================================================================================

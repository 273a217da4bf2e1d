---------------------------------- MODULE Scheduler ----------------------------------
(***************************************************************************)
(* WorkflowScheduler (oxify-engine/src/scheduler.rs): clients register and *)
(* remove schedules, start and stop the scheduler; every call of start     *)
(* spawns a loop that wakes once a second, collects the schedules whose    *)
(* next_run has passed and spawns a run of each that its limit allows.     *)
(* The two maps have a lock each, held within one step but for the two     *)
(* places where a loop holds one while it waits for the other: "scan"      *)
(* holds schedules.read, "nextRun" holds executions.write.                 *)
(* RwLock of std lets no reader in while a writer waits.                   *)
(***************************************************************************)
EXTENDS Integers, FiniteSets

CONSTANTS
  Schedule,    \* the ids add_schedule may return, each used once
  NoSchedule,  \* a loop that has no schedule in hand
  Loop,        \* the loops: one for every call of start
  Enabled,     \* schedules with config.enabled
  Limited,     \* schedules with max_concurrent_runs = Some(Limit[s])
  Limit,
  MaxDue       \* bound: how often the clock passes a schedule's next_run

ASSUME SchedulerAssumption ==
  /\ NoSchedule \notin Schedule
  /\ IsFiniteSet(Loop)
  /\ Enabled \subseteq Schedule
  /\ Limited \subseteq Schedule
  /\ Limit \in [Limited -> Nat]
  /\ MaxDue \in Nat

VARIABLES
  reg,         \* how far add_schedule and remove_schedule are with each id
  due,         \* next_run of the entry has passed
  active_runs, \* ScheduledExecution.active_runs
  running,     \* the flag start sets and stop clears
  lpc,         \* where each loop is
  to_run,      \* the schedules a loop has collected and not yet handled
  cur,         \* the schedule a loop is handling
  tasks,       \* the runs of each schedule that are in flight
  panicked,    \* history: runs whose task died of a panic
  started,     \* history: the runs each loop has spawned of each schedule
  passed       \* history: how often next_run has passed

entryVars == <<due, active_runs, passed>>
loopVars == <<running, lpc, to_run, cur>>
runVars == <<tasks, panicked, started>>
vars == <<reg, entryVars, loopVars, runVars>>

RegStates ==
  {"new",
   "inserting",   \* add_schedule waits for schedules.write
   "inserted",    \* it waits for executions.write
   "registered",
   "removing",    \* remove_schedule waits for schedules.write
   "halfRemoved", \* it waits for executions.write
   "removed"}

LoopStates ==
  {"off",      \* not spawned
   "top",      \* sleeping, or about to read the running flag
   "enter",    \* waits for schedules.read
   "scan",     \* holds it, waits for executions.read
   "pick",     \* in the for loop, no lock held
   "check",    \* waits for executions.read
   "count",    \* waits for executions.write
   "nextRun",  \* holds it, waits for schedules.read
   "ended"}

\* The keys of the two maps.
Schedules == {s \in Schedule : reg[s] \in {"inserted", "registered", "removing"}}
Executions == {s \in Schedule : reg[s] \in {"registered", "removing", "halfRemoved"}}

\* schedules: a writer waits for the readers, a reader for the queued writers.
SchedulesWritable == \A l \in Loop : lpc[l] # "scan"
SchedulesReadable == \A s \in Schedule : reg[s] \notin {"inserting", "removing"}
\* executions is held from one step to the next only by a writer.
ExecutionsFree == \A l \in Loop : lpc[l] # "nextRun"

\* A slip: <= for <.
CanRunAtLimit(s) ==
  /\ s \in Executions
  /\ s \in Limited => active_runs[s] <= Limit[s]

CanRun(s) ==
  /\ s \in Executions
  /\ s \in Limited => active_runs[s] < Limit[s]

--------------------------------------------------------------------------------

Init ==
  /\ reg = [s \in Schedule |-> "new"]
  /\ due = [s \in Schedule |-> FALSE]
  /\ active_runs = [s \in Schedule |-> 0]
  /\ running = FALSE
  /\ lpc = [l \in Loop |-> "off"]
  /\ to_run = [l \in Loop |-> {}]
  /\ cur = [l \in Loop |-> NoSchedule]
  /\ tasks = [s \in Schedule |-> 0]
  /\ panicked = [s \in Schedule |-> 0]
  /\ started = [l \in Loop |-> [s \in Schedule |-> 0]]
  /\ passed = [s \in Schedule |-> 0]

SetReg(s, from, to) ==
  /\ reg[s] = from
  /\ reg' = [reg EXCEPT ![s] = to]

\* add_schedule.  A cron expression that is refused changes nothing.
CallAdd(s) ==
  /\ SetReg(s, "new", "inserting")
  /\ UNCHANGED <<entryVars, loopVars, runVars>>

InsertSchedule(s) ==
  /\ SchedulesWritable
  /\ SetReg(s, "inserting", "inserted")
  /\ UNCHANGED <<entryVars, loopVars, runVars>>

InsertExecution(s) ==
  /\ ExecutionsFree
  /\ SetReg(s, "inserted", "registered")
  /\ due' = [due EXCEPT ![s] = FALSE]
  /\ active_runs' = [active_runs EXCEPT ![s] = 0]
  /\ UNCHANGED <<passed, loopVars, runVars>>

\* remove_schedule.  A second call for the same id finds nothing and returns.
CallRemove(s) ==
  /\ SetReg(s, "registered", "removing")
  /\ UNCHANGED <<entryVars, loopVars, runVars>>

RemoveSchedule(s) ==
  /\ SchedulesWritable
  /\ SetReg(s, "removing", "halfRemoved")
  /\ UNCHANGED <<entryVars, loopVars, runVars>>

\* The entry goes with what it held.
RemoveExecution(s) ==
  /\ ExecutionsFree
  /\ SetReg(s, "halfRemoved", "removed")
  /\ due' = [due EXCEPT ![s] = FALSE]
  /\ active_runs' = [active_runs EXCEPT ![s] = 0]
  /\ UNCHANGED <<passed, loopVars, runVars>>

\* The clock reaches next_run.
Due(s) ==
  /\ s \in Executions /\ ~due[s] /\ passed[s] < MaxDue
  /\ due' = [due EXCEPT ![s] = TRUE]
  /\ passed' = [passed EXCEPT ![s] = @ + 1]
  /\ UNCHANGED <<reg, active_runs, loopVars, runVars>>

\* start spawns a loop whether or not one runs already.
Start(l) ==
  /\ lpc[l] = "off"
  /\ running' = TRUE
  /\ lpc' = [lpc EXCEPT ![l] = "top"]
  /\ UNCHANGED <<reg, entryVars, to_run, cur, runVars>>

Stop ==
  /\ running
  /\ running' = FALSE
  /\ UNCHANGED <<reg, entryVars, lpc, to_run, cur, runVars>>

--------------------------------------------------------------------------------

Goto(l, from, to) ==
  /\ lpc[l] = from
  /\ lpc' = [lpc EXCEPT ![l] = to]

\* while *running.read()
Top(l) ==
  /\ Goto(l, "top", IF running THEN "enter" ELSE "ended")
  /\ UNCHANGED <<reg, entryVars, running, to_run, cur, runVars>>

Enter(l) ==
  /\ SchedulesReadable
  /\ Goto(l, "enter", "scan")
  /\ UNCHANGED <<reg, entryVars, running, to_run, cur, runVars>>

\* `now` is taken before the locks (scheduler.rs:156) and next_run read under
\* them: what has passed in between is found by the next scan, as it would be
\* here if the scan came earlier.
Scan(l) ==
  /\ ExecutionsFree
  /\ Goto(l, "scan", "pick")
  /\ to_run' = [to_run EXCEPT ![l] = {s \in Executions \cap Schedules : due[s]}]
  /\ UNCHANGED <<reg, entryVars, running, cur, runVars>>

\* The iteration order of a HashMap is any order.
PickEnabled(l, s) ==
  /\ s \in to_run[l] \cap Enabled
  /\ Goto(l, "pick", "check")
  /\ to_run' = [to_run EXCEPT ![l] = @ \ {s}]
  /\ cur' = [cur EXCEPT ![l] = s]
  /\ UNCHANGED <<reg, entryVars, running, runVars>>

\* A slip: return for continue.
ReturnDisabled(l, s) ==
  /\ s \in to_run[l] \ Enabled
  /\ Goto(l, "pick", "ended")
  /\ UNCHANGED <<reg, entryVars, running, to_run, cur, runVars>>

SkipDisabled(l, s) ==
  /\ s \in to_run[l] \ Enabled
  /\ Goto(l, "pick", "pick")
  /\ to_run' = [to_run EXCEPT ![l] = @ \ {s}]
  /\ UNCHANGED <<reg, entryVars, running, cur, runVars>>

\* tokio::time::sleep
Sleep(l) ==
  /\ to_run[l] = {}
  /\ Goto(l, "pick", "top")
  /\ UNCHANGED <<reg, entryVars, running, to_run, cur, runVars>>

\* A schedule at its limit stays due: the next scan finds it again.
CheckAllows(l) ==
  /\ ExecutionsFree
  /\ Goto(l, "check", "count")
  /\ CanRun(cur[l])
  /\ UNCHANGED <<reg, entryVars, running, to_run, cur, runVars>>

CheckSkips(l) ==
  /\ ExecutionsFree
  /\ Goto(l, "check", "pick")
  /\ ~CanRun(cur[l])
  /\ cur' = [cur EXCEPT ![l] = NoSchedule]
  /\ UNCHANGED <<reg, entryVars, running, to_run, runVars>>

Spawn(l) ==
  /\ tasks' = [tasks EXCEPT ![cur[l]] = @ + 1]
  /\ started' = [started EXCEPT ![l][cur[l]] = @ + 1]
  /\ cur' = [cur EXCEPT ![l] = NoSchedule]
  /\ UNCHANGED panicked

Count(l) ==
  /\ ExecutionsFree
  /\ Goto(l, "count", "nextRun")
  /\ cur[l] \in Executions
  /\ active_runs' = [active_runs EXCEPT ![cur[l]] = @ + 1]
  /\ UNCHANGED <<reg, due, passed, running, to_run, cur, runVars>>

\* The entry is gone since the check: the run is spawned all the same.
CountGone(l) ==
  /\ ExecutionsFree
  /\ Goto(l, "count", "pick")
  /\ cur[l] \notin Executions
  /\ Spawn(l)
  /\ UNCHANGED <<reg, entryVars, running, to_run>>

\* A slip: next_run is left as it was.
NextRunKept(l) ==
  /\ SchedulesReadable
  /\ Goto(l, "nextRun", "pick")
  /\ Spawn(l)
  /\ UNCHANGED <<reg, entryVars, running, to_run>>

\* upcoming(Utc).next() lies in the future.  An id that has left schedules
\* keeps its next_run.
NextRun(l) ==
  /\ SchedulesReadable
  /\ Goto(l, "nextRun", "pick")
  /\ due' = [due EXCEPT ![cur[l]] = @ /\ cur[l] \notin Schedules]
  /\ Spawn(l)
  /\ UNCHANGED <<reg, active_runs, passed, running, to_run>>

LoopStep(l) ==
  \/ Top(l) \/ Enter(l) \/ Scan(l) \/ Sleep(l)
  \/ CheckAllows(l) \/ CheckSkips(l)
  \/ Count(l) \/ CountGone(l) \/ NextRun(l)
  \/ \E s \in Schedule : PickEnabled(l, s) \/ SkipDisabled(l, s)

--------------------------------------------------------------------------------

\* A slip: the entry of a removed schedule is not looked for.
ReleasedAnyway(s) == [active_runs EXCEPT ![s] = @ - 1]

\* saturating_sub(1) on the entry, if there still is one; successful_runs and
\* failed_runs are statistics nobody acts on.
Released(s) ==
  [active_runs EXCEPT ![s] = IF s \in Executions /\ @ > 0 THEN @ - 1 ELSE @]

\* A slip: the count goes down in the Ok arm only.
FinishOkOnly(s) ==
  /\ tasks[s] > 0
  /\ ExecutionsFree
  /\ tasks' = [tasks EXCEPT ![s] = @ - 1]
  /\ active_runs' \in {Released(s), active_runs}
  /\ UNCHANGED <<reg, due, passed, loopVars, panicked, started>>

Finish(s) ==
  /\ tasks[s] > 0
  /\ ExecutionsFree
  /\ tasks' = [tasks EXCEPT ![s] = @ - 1]
  /\ active_runs' = Released(s)
  /\ UNCHANGED <<reg, due, passed, loopVars, panicked, started>>

\* execute_sequential panics: the task is gone before it reaches the update.
Panic(s) ==
  /\ tasks[s] > 0
  /\ tasks' = [tasks EXCEPT ![s] = @ - 1]
  /\ panicked' = [panicked EXCEPT ![s] = @ + 1]
  /\ UNCHANGED <<reg, entryVars, loopVars, started>>

Client(s) == CallAdd(s) \/ CallRemove(s)
Registry(s) ==
  InsertSchedule(s) \/ InsertExecution(s) \/ RemoveSchedule(s) \/ RemoveExecution(s)

Next ==
  \/ Stop
  \/ \E s \in Schedule : Client(s) \/ Registry(s) \/ Due(s) \/ Finish(s) \/ Panic(s)
  \/ \E l \in Loop : Start(l) \/ LoopStep(l)

Spec == Init /\ [][Next]_vars

\* The threads that are inside a call or a loop keep running; whether a client
\* calls, time passes or a run ends is left open.
FairSpec ==
  /\ Spec
  /\ \A s \in Schedule : WF_vars(Registry(s))
  /\ \A l \in Loop : WF_vars(LoopStep(l))

--------------------------------------------------------------------------------

(* Every variable has its type, and a loop has a schedule in hand exactly  *)
(* while it handles one; counters stay natural numbers, so the unsigned    *)
(* active_runs never wraps.                                                *)
TypeOK ==
  /\ reg \in [Schedule -> RegStates]
  /\ due \in [Schedule -> BOOLEAN]
  /\ active_runs \in [Schedule -> Nat]
  /\ running \in BOOLEAN
  /\ lpc \in [Loop -> LoopStates]
  /\ to_run \in [Loop -> SUBSET Schedule]
  /\ cur \in [Loop -> Schedule \cup {NoSchedule}]
  /\ \A l \in Loop : cur[l] \in Schedule <=> lpc[l] \in {"check", "count", "nextRun"}
  /\ tasks \in [Schedule -> Nat]
  /\ panicked \in [Schedule -> Nat]
  /\ started \in [Loop -> [Schedule -> Nat]]
  /\ passed \in [Schedule -> 0..MaxDue]

Counting(s) == {l \in Loop : lpc[l] = "nextRun" /\ cur[l] = s}

(* While a schedule is registered its active_runs is what is in flight,    *)
(* plus the run a loop has counted and not yet spawned, plus the runs that *)
(* panicked: those hold their slot for good.  No run of a registered       *)
(* schedule is ever missing from the count, however loops, finishing runs  *)
(* and removals interleave.                                                *)
Ledger ==
  \A s \in Executions :
    active_runs[s] = tasks[s] + panicked[s] + Cardinality(Counting(s))

(* The check and the count are two critical sections: each loop may pass   *)
(* the check on the same free slot.  So a limit is overrun, but by no more *)
(* than one run per further call of start, and this also while the         *)
(* schedule is being removed and after.  A limit of 0 is never overrun.    *)
Spawned == {l \in Loop : lpc[l] # "off"}
RunsBounded ==
  \A s \in Limited :
    IF Limit[s] = 0 THEN tasks[s] = 0
    ELSE tasks[s] <= Limit[s] - 1 + Cardinality(Spawned)

(* A loop starts at most one run for each time next_run has passed: one    *)
(* that works on a stale scan repeats what another has started, but no     *)
(* loop runs a schedule twice for one due time.                            *)
FiresOncePerLoop ==
  \A l \in Loop, s \in Schedule : started[l][s] <= passed[s]

(* A loop holds schedules.read and waits for executions, a second one      *)
(* holds executions.write and waits for schedules, a client's queued write *)
(* keeps it out: none of the three moves again.                            *)
Deadlocked ==
  /\ \E l \in Loop : lpc[l] = "scan"
  /\ ~ExecutionsFree
  /\ ~SchedulesReadable

AtLimit(s) == s \in Limited /\ active_runs[s] >= Limit[s]

(* A registered and enabled schedule that is due is run, whatever else is  *)
(* due, disabled or being removed at that time, unless the scheduler is    *)
(* stopped, the schedule removed or at its limit, or the locks are taken   *)
(* in the order that blocks everything.                                    *)
DueRuns ==
  \A s \in Enabled :
    due[s] ~> (~due[s] \/ ~running \/ s \notin Schedules \/ AtLimit(s) \/ Deadlocked)

(* "Maximum number of concurrent runs allowed (None = unlimited)"          *)
(* (oxify-model/src/workflow.rs:339).                                      *)
RunsWithinLimit == \A s \in Limited : tasks[s] <= Limit[s]

================================================================================

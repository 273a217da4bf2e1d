------------------------------ MODULE SchedulerProofs ------------------------------
(***************************************************************************)
(* Proofs about Scheduler for every set of schedules, limits and loops.    *)
(***************************************************************************)
EXTENDS Scheduler, FiniteSetTheorems, TLAPS

\* The loops that have passed the check for s and not yet spawned its run.
InHand(s) == {l \in Loop : lpc[l] \in {"count", "nextRun"} /\ cur[l] = s}

\* executions.write has one holder, and the entry it counts in stays.
Holder ==
  /\ \A l, m \in Loop : lpc[l] = "nextRun" /\ lpc[m] = "nextRun" => l = m
  /\ \A l \in Loop : lpc[l] = "nextRun" => cur[l] \in Executions

\* An id that add_schedule has not yet returned has no runs and is in no loop.
Fresh ==
  \A s \in Schedule : reg[s] \in {"new", "inserting", "inserted"} =>
    /\ tasks[s] = 0 /\ panicked[s] = 0
    /\ \A l \in Loop : s \notin to_run[l] /\ cur[l] # s

\* The runs in flight and those a loop is about to spawn.
Overrun ==
  \A s \in Limited :
    IF Limit[s] = 0 THEN tasks[s] = 0 /\ InHand(s) = {}
    ELSE tasks[s] + Cardinality(InHand(s)) <= Limit[s] - 1 + Cardinality(Spawned)

SInv == TypeOK /\ Holder /\ Fresh /\ Ledger /\ Overrun

--------------------------------------------------------------------------------

\* The sets of loops that are counted are finite.
LEMMA LoopSets ==
  \A s : /\ IsFiniteSet(Counting(s)) /\ Cardinality(Counting(s)) \in Nat
         /\ IsFiniteSet(InHand(s)) /\ Cardinality(InHand(s)) \in Nat
         /\ Cardinality(InHand(s)) <= Cardinality(Spawned) /\ Cardinality(Spawned) \in Nat
<1>. TAKE s
<1>1. Counting(s) \subseteq Loop /\ InHand(s) \subseteq Spawned /\ Spawned \subseteq Loop
  BY DEF Counting, InHand, Spawned
<1>2. IsFiniteSet(Spawned)
  BY <1>1, FS_Subset, SchedulerAssumption
<1>. QED
  BY <1>1, <1>2, FS_Subset, FS_CardinalityType, SchedulerAssumption

\* A step that leaves program counters and schedules in hand alone leaves those
\* sets alone.
LEMMA SameSets ==
  ASSUME lpc' = lpc, cur' = cur
  PROVE  \A s : Counting(s)' = Counting(s) /\ InHand(s)' = InHand(s)
BY DEF Counting, InHand

\* So does a loop that moves between statements where nothing is counted.
LEMMA OutsideSets ==
  ASSUME TypeOK, NEW l \in Loop, NEW from, NEW to, Goto(l, from, to),
         from \notin {"count", "nextRun"}, to \notin {"count", "nextRun"},
         \A m \in Loop \ {l} : cur'[m] = cur[m]
  PROVE  \A s : Counting(s)' = Counting(s) /\ InHand(s)' = InHand(s)
<1>1. lpc[l] = from /\ lpc'[l] = to /\ \A m \in Loop \ {l} : lpc'[m] = lpc[m]
  BY DEF Goto, TypeOK
<1>. QED
  BY <1>1 DEF Counting, InHand

\* One executions.write holder at most: its run is the only one counted and
\* not yet spawned.
LEMMA CountingOne ==
  ASSUME Holder, NEW l \in Loop, lpc[l] = "nextRun"
  PROVE  \A s : Cardinality(Counting(s)) = IF cur[l] = s THEN 1 ELSE 0
<1>. TAKE s
<1>1. Counting(s) = IF cur[l] = s THEN {l} ELSE {}
  BY DEF Holder, Counting
<1>. QED
  BY <1>1, FS_EmptySet, FS_Singleton

\* While the lock is free nothing is.
LEMMA CountingNone ==
  ASSUME ExecutionsFree
  PROVE  \A s : Counting(s) = {} /\ Cardinality(Counting(s)) = 0
BY FS_EmptySet DEF ExecutionsFree, Counting

--------------------------------------------------------------------------------

\* The initial state satisfies the invariant.
LEMMA SInvInit == Init => SInv
<1>. SUFFICES ASSUME Init PROVE SInv
  OBVIOUS
<1>1. TypeOK
  <2>1. /\ reg \in [Schedule -> RegStates] /\ lpc \in [Loop -> LoopStates]
        /\ \A l \in Loop : cur[l] = NoSchedule /\ lpc[l] = "off"
    BY DEF Init, RegStates, LoopStates
  <2>2. /\ due \in [Schedule -> BOOLEAN] /\ to_run \in [Loop -> SUBSET Schedule]
        /\ cur \in [Loop -> Schedule \cup {NoSchedule}] /\ running \in BOOLEAN
    BY DEF Init
  <2>3. /\ active_runs \in [Schedule -> Nat] /\ tasks \in [Schedule -> Nat]
        /\ panicked \in [Schedule -> Nat] /\ started \in [Loop -> [Schedule -> Nat]]
        /\ passed \in [Schedule -> 0 .. MaxDue]
    BY SchedulerAssumption DEF Init
  <2>. QED
    BY <2>1, <2>2, <2>3, SchedulerAssumption DEF TypeOK
<1>2. Executions = {} /\ \A s : InHand(s) = {}
  BY DEF Init, Executions, InHand
<1>3. Holder
  BY DEF Init, Holder
<1>4. Ledger
  BY <1>2 DEF Ledger
<1>5. Fresh
  BY SchedulerAssumption DEF Init, Fresh
<1>6. Overrun
  <2>1. Spawned = {} /\ \A s \in Limited : tasks[s] = 0 /\ Limit[s] \in Nat
    BY SchedulerAssumption DEF Init, Spawned
  <2>2. Cardinality(Spawned) = 0 /\ \A s \in Limited : Cardinality(InHand(s)) = 0
    BY <1>2, <2>1, FS_EmptySet
  <2>. QED
    BY <1>2, <2>1, <2>2 DEF Overrun
<1>. QED
  BY <1>1, <1>3, <1>4, <1>5, <1>6 DEF SInv

\* Every step keeps the types.
LEMMA TypeStep == TypeOK /\ Holder /\ [Next]_vars => TypeOK'
<1>. SUFFICES ASSUME TypeOK, Holder, [Next]_vars PROVE TypeOK'
  OBVIOUS
<1>. USE DEF TypeOK, RegStates, LoopStates, entryVars, loopVars, runVars
<1>1. CASE UNCHANGED vars
  BY <1>1 DEF vars
<1>2. CASE Stop
  BY <1>2 DEF Stop
<1>3. ASSUME NEW s \in Schedule, Client(s) \/ Registry(s) PROVE TypeOK'
  <2>1. CASE CallAdd(s) \/ CallRemove(s) \/ InsertSchedule(s) \/ RemoveSchedule(s)
    <3>1. PICK r \in RegStates : reg' = [reg EXCEPT ![s] = r]
      BY <2>1 DEF CallAdd, CallRemove, InsertSchedule, RemoveSchedule, SetReg
    <3>2. UNCHANGED <<entryVars, loopVars, runVars>>
      BY <2>1 DEF CallAdd, CallRemove, InsertSchedule, RemoveSchedule
    <3>. QED
      BY <3>1, <3>2
  <2>2. CASE InsertExecution(s)
    BY <2>2 DEF InsertExecution, SetReg
  <2>3. CASE RemoveExecution(s)
    BY <2>3 DEF RemoveExecution, SetReg
  <2>. QED
    BY <1>3, <2>1, <2>2, <2>3 DEF Client, Registry
<1>4. ASSUME NEW s \in Schedule, Due(s) PROVE TypeOK'
  BY <1>4, SchedulerAssumption DEF Due
<1>5. ASSUME NEW s \in Schedule, Finish(s) PROVE TypeOK'
  BY <1>5 DEF Finish, Released
<1>6. ASSUME NEW s \in Schedule, Panic(s) PROVE TypeOK'
  BY <1>6 DEF Panic
<1>7. ASSUME NEW l \in Loop, Start(l) PROVE TypeOK'
  BY <1>7 DEF Start
<1>8. ASSUME NEW l \in Loop, LoopStep(l) PROVE TypeOK'
  <2>1. CASE Top(l) \/ Enter(l) \/ Sleep(l) \/ CheckAllows(l)
    BY <2>1 DEF Top, Enter, Sleep, CheckAllows, Goto
  <2>2. CASE Scan(l)
    BY <2>2 DEF Scan, Goto, Executions
  <2>3. CASE CheckSkips(l)
    BY <2>3, SchedulerAssumption DEF CheckSkips, Goto
  <2>4. CASE Count(l)
    BY <2>4 DEF Count, Goto
  <2>5. CASE CountGone(l)
    BY <2>5, SchedulerAssumption DEF CountGone, Spawn, Goto
  <2>6. CASE NextRun(l)
    BY <2>6, SchedulerAssumption DEF NextRun, Spawn, Goto
  <2>7. ASSUME NEW s \in Schedule, PickEnabled(l, s) PROVE TypeOK'
    BY <2>7 DEF PickEnabled, Goto
  <2>8. ASSUME NEW s \in Schedule, SkipDisabled(l, s) PROVE TypeOK'
    BY <2>8 DEF SkipDisabled, Goto
  <2>. QED
    BY <1>8, <2>1, <2>2, <2>3, <2>4, <2>5, <2>6, <2>7, <2>8 DEF LoopStep
<1>. QED
  BY <1>1, <1>2, <1>3, <1>4, <1>5, <1>6, <1>7, <1>8 DEF Next

--------------------------------------------------------------------------------

\* executions.write keeps one holder, whose entry stays.
LEMMA HolderStep == TypeOK /\ Holder /\ [Next]_vars => Holder'
<1>. SUFFICES ASSUME TypeOK, Holder, [Next]_vars PROVE Holder'
  OBVIOUS
<1>. USE DEF loopVars
<1>1. ASSUME lpc' = lpc, cur' = cur, reg' = reg PROVE Holder'
  BY <1>1 DEF Holder, Executions
<1>2. CASE UNCHANGED vars
  BY <1>1, <1>2 DEF vars
<1>3. CASE Stop
  BY <1>1, <1>3 DEF Stop
<1>4. ASSUME NEW s \in Schedule, Due(s) \/ Finish(s) \/ Panic(s) PROVE Holder'
  BY <1>1, <1>4 DEF Due, Finish, Panic
<1>5. ASSUME NEW s \in Schedule, Client(s) \/ Registry(s) PROVE Holder'
  <2>1. lpc' = lpc /\ cur' = cur
    BY <1>5 DEF Client, Registry, CallAdd, CallRemove, InsertSchedule, InsertExecution,
                RemoveSchedule, RemoveExecution
  <2>2. CASE Executions \subseteq Executions'
    BY <2>1, <2>2 DEF Holder
  <2>3. CASE RemoveExecution(s)
    BY <2>1, <2>3 DEF Holder, RemoveExecution, ExecutionsFree
  <2>4. CASE ~RemoveExecution(s)
    <3>1. PICK from, to \in RegStates :
            /\ SetReg(s, from, to)
            /\ from \in {"registered", "removing", "halfRemoved"} =>
                 to \in {"registered", "removing", "halfRemoved"}
      BY <1>5, <2>4 DEF Client, Registry, CallAdd, CallRemove, InsertSchedule,
                        InsertExecution, RemoveSchedule, RegStates
    <3>2. Executions \subseteq Executions'
      BY <3>1 DEF Executions, SetReg, TypeOK
    <3>. QED
      BY <2>2, <3>2
  <2>. QED
    BY <2>3, <2>4
<1>6. ASSUME NEW l \in Loop, Start(l) PROVE Holder'
  BY <1>6 DEF Start, Holder, Executions, TypeOK
<1>7. ASSUME NEW l \in Loop, LoopStep(l) PROVE Holder'
  <2>1. reg' = reg /\ Executions' = Executions
    BY <1>7 DEF LoopStep, Top, Enter, Scan, Sleep, CheckAllows, CheckSkips, Count, CountGone,
                NextRun, PickEnabled, SkipDisabled, Executions
  <2>2. CASE Count(l)
    BY <2>1, <2>2 DEF Holder, Count, Goto, ExecutionsFree, TypeOK
  <2>3. CASE ~Count(l)
    <3>1. /\ \A m \in Loop \ {l} : lpc'[m] = lpc[m] /\ cur'[m] = cur[m]
          /\ lpc'[l] # "nextRun"
      BY <1>7, <2>3 DEF LoopStep, Top, Enter, Scan, Sleep, CheckAllows, CheckSkips,
           CountGone, NextRun, PickEnabled, SkipDisabled, Spawn, Goto, TypeOK
    <3>. QED
      BY <2>1, <3>1 DEF Holder
  <2>. QED
    BY <2>2, <2>3
<1>. QED
  BY <1>2, <1>3, <1>4, <1>5, <1>6, <1>7 DEF Next

\* An id nobody has been given stays out of the loops.
LEMMA FreshStep == TypeOK /\ Fresh /\ [Next]_vars => Fresh'
<1>. SUFFICES ASSUME TypeOK, Fresh, [Next]_vars, NEW s \in Schedule,
                     reg'[s] \in {"new", "inserting", "inserted"}
              PROVE  /\ tasks'[s] = 0 /\ panicked'[s] = 0
                     /\ \A l \in Loop : s \notin to_run'[l] /\ cur'[l] # s
  BY DEF Fresh
<1>. USE DEF loopVars, runVars
<1>1. reg[s] \in {"new", "inserting", "inserted"}
  <2>1. ASSUME NEW x \in Schedule, Client(x) \/ Registry(x)
        PROVE  reg[s] \in {"new", "inserting", "inserted"}
    <3>1. PICK from, to \in RegStates :
            /\ SetReg(x, from, to)
            /\ to \in {"new", "inserting", "inserted"} =>
                 from \in {"new", "inserting", "inserted"}
      BY <2>1 DEF Client, Registry, CallAdd, CallRemove, InsertSchedule,
                  InsertExecution, RemoveSchedule, RemoveExecution, RegStates
    <3>. QED
      BY <3>1 DEF SetReg, TypeOK
  <2>2. CASE reg' = reg
    BY <2>2
  <2>. QED
    BY <2>1, <2>2 DEF Next, vars, Stop, Due, Finish, Panic, Start, LoopStep, Top, Enter, Scan,
       Sleep, CheckAllows, CheckSkips, Count, CountGone, NextRun, PickEnabled, SkipDisabled
<1>2. /\ tasks[s] = 0 /\ panicked[s] = 0 /\ s \notin Executions
      /\ \A l \in Loop : s \notin to_run[l] /\ cur[l] # s
  BY <1>1 DEF Fresh, Executions
<1>3. CASE UNCHANGED <<tasks, panicked, to_run, cur>>
  BY <1>2, <1>3
<1>4. CASE UNCHANGED vars
  BY <1>3, <1>4 DEF vars
<1>5. CASE Stop
  BY <1>3, <1>5 DEF Stop
<1>6. ASSUME NEW x \in Schedule, Client(x) \/ Registry(x) \/ Due(x)
      PROVE  UNCHANGED <<tasks, panicked, to_run, cur>>
  BY <1>6 DEF Client, Registry, CallAdd, CallRemove, InsertSchedule, InsertExecution,
              RemoveSchedule, RemoveExecution, Due
<1>7. ASSUME NEW x \in Schedule, Finish(x) \/ Panic(x)
      PROVE  UNCHANGED <<to_run, cur>> /\ tasks'[s] = 0 /\ panicked'[s] = 0
  BY <1>2, <1>7 DEF Finish, Panic, TypeOK
<1>8. ASSUME NEW l \in Loop, Start(l) PROVE UNCHANGED <<tasks, panicked, to_run, cur>>
  BY <1>8 DEF Start
<1>9. ASSUME NEW l \in Loop, LoopStep(l)
      PROVE  /\ tasks'[s] = 0 /\ panicked'[s] = 0
             /\ \A m \in Loop : s \notin to_run'[m] /\ cur'[m] # s
  <2>1. CASE Top(l) \/ Enter(l) \/ Sleep(l) \/ CheckAllows(l) \/ Count(l)
    BY <1>2, <2>1 DEF Top, Enter, Sleep, CheckAllows, Count
  <2>2. CASE Scan(l)
    BY <1>2, <2>2 DEF Scan, TypeOK
  <2>3. CASE CheckSkips(l)
    BY <1>2, <2>3, SchedulerAssumption DEF CheckSkips, TypeOK
  <2>4. CASE CountGone(l) \/ NextRun(l)
    BY <1>2, <2>4, SchedulerAssumption DEF CountGone, NextRun, Spawn, TypeOK
  <2>5. ASSUME NEW x \in Schedule, PickEnabled(l, x) \/ SkipDisabled(l, x)
        PROVE  /\ UNCHANGED <<tasks, panicked>>
               /\ \A m \in Loop : s \notin to_run'[m] /\ cur'[m] # s
    BY <1>2, <2>5 DEF PickEnabled, SkipDisabled, TypeOK
  <2>. QED
    BY <1>2, <1>9, <2>1, <2>2, <2>3, <2>4, <2>5 DEF LoopStep
<1>. QED
  BY <1>2, <1>3, <1>4, <1>5, <1>6, <1>7, <1>8, <1>9 DEF Next

--------------------------------------------------------------------------------

\* The loop steps that neither count nor spawn a run.
Plain(l) ==
  \/ Top(l) \/ Enter(l) \/ Scan(l) \/ Sleep(l) \/ CheckSkips(l)
  \/ \E s \in Schedule : PickEnabled(l, s) \/ SkipDisabled(l, s)

\* They leave what the invariant counts alone.
LEMMA PlainStep ==
  ASSUME TypeOK, NEW l \in Loop, Plain(l)
  PROVE  /\ UNCHANGED <<reg, active_runs, tasks, panicked>>
         /\ \A s : Counting(s)' = Counting(s) /\ InHand(s)' = InHand(s)
<1>. USE DEF entryVars, runVars
<1>1. UNCHANGED <<reg, active_runs, tasks, panicked>>
  BY DEF Plain, Top, Enter, Scan, Sleep, CheckSkips, PickEnabled, SkipDisabled
<1>2. PICK from, to \in LoopStates \ {"count", "nextRun"} :
        Goto(l, from, to) /\ \A m \in Loop \ {l} : cur'[m] = cur[m]
  BY DEF Plain, Top, Enter, Scan, Sleep, CheckSkips, PickEnabled, SkipDisabled,
         TypeOK, LoopStates
<1>. QED
  BY <1>1, <1>2, OutsideSets

\* The count of active runs stays exact.
LEMMA LedgerStep == SInv /\ [Next]_vars => Ledger'
<1>. SUFFICES ASSUME SInv, [Next]_vars PROVE Ledger'
  OBVIOUS
<1>. USE DEF SInv, entryVars, loopVars, runVars
<1>1. ASSUME UNCHANGED <<active_runs, tasks, panicked>>, Executions' \subseteq Executions,
             \A s : Counting(s)' = Counting(s)
      PROVE  Ledger'
  BY <1>1 DEF Ledger
<1>2. CASE UNCHANGED vars
  BY <1>1, <1>2, SameSets DEF vars, Executions
<1>3. CASE Stop
  BY <1>1, <1>3, SameSets DEF Stop, Executions
<1>4. ASSUME NEW s \in Schedule, Due(s) PROVE Ledger'
  BY <1>1, <1>4, SameSets DEF Due, Executions
<1>5. ASSUME NEW s \in Schedule,
             CallAdd(s) \/ CallRemove(s) \/ InsertSchedule(s) \/ RemoveSchedule(s)
      PROVE  Ledger'
  <2>1. Executions' = Executions
    BY <1>5 DEF CallAdd, CallRemove, InsertSchedule, RemoveSchedule, SetReg, Executions, TypeOK
  <2>. QED
    BY <1>1, <1>5, <2>1, SameSets DEF CallAdd, CallRemove, InsertSchedule, RemoveSchedule
<1>6. ASSUME NEW s \in Schedule, InsertExecution(s) PROVE Ledger'
  <2>1. /\ lpc' = lpc /\ cur' = cur /\ tasks' = tasks /\ panicked' = panicked
        /\ reg[s] = "inserted" /\ active_runs' = [active_runs EXCEPT ![s] = 0]
        /\ Executions' = Executions \cup {s}
    BY <1>6 DEF InsertExecution, SetReg, Executions, TypeOK
  <2>2. active_runs'[s] = tasks'[s] + panicked'[s] + Cardinality(Counting(s)')
    BY <1>6, <2>1, SameSets, CountingNone DEF InsertExecution, Fresh, TypeOK
  <2>3. ASSUME NEW x \in Executions, x # s
        PROVE  active_runs'[x] = tasks'[x] + panicked'[x] + Cardinality(Counting(x)')
    BY <2>1, <2>3, SameSets DEF Ledger, TypeOK, Executions
  <2>. QED
    BY <2>1, <2>2, <2>3 DEF Ledger
<1>7. ASSUME NEW s \in Schedule, RemoveExecution(s) PROVE Ledger'
  <2>1. /\ lpc' = lpc /\ cur' = cur /\ tasks' = tasks /\ panicked' = panicked
        /\ active_runs' = [active_runs EXCEPT ![s] = 0]
        /\ Executions' = Executions \ {s}
    BY <1>7 DEF RemoveExecution, SetReg, Executions, TypeOK
  <2>. QED
    BY <2>1, SameSets DEF Ledger, TypeOK, Executions
<1>8. ASSUME NEW s \in Schedule, Finish(s) PROVE Ledger'
  <2>1. /\ lpc' = lpc /\ cur' = cur /\ panicked' = panicked /\ Executions' = Executions
        /\ tasks' = [tasks EXCEPT ![s] = @ - 1] /\ active_runs' = Released(s)
    BY <1>8 DEF Finish, Executions
  <2>2. ASSUME NEW x \in Executions
        PROVE  active_runs'[x] = tasks'[x] + panicked'[x] + Cardinality(Counting(x)')
    <3>1. active_runs[x] = tasks[x] + panicked[x] /\ Cardinality(Counting(x)') = 0
      BY <1>8, <2>1, SameSets, CountingNone DEF Finish, Ledger, TypeOK, Executions
    <3>. QED
      BY <1>8, <2>1, <3>1 DEF Finish, Released, TypeOK, Executions
  <2>. QED
    BY <2>1, <2>2 DEF Ledger
<1>9. ASSUME NEW s \in Schedule, Panic(s) PROVE Ledger'
  <2>1. /\ lpc' = lpc /\ cur' = cur /\ Executions' = Executions /\ active_runs' = active_runs
    BY <1>9 DEF Panic, Executions
  <2>2. ASSUME NEW x \in Executions
        PROVE  tasks'[x] + panicked'[x] = tasks[x] + panicked[x]
    BY <1>9 DEF Panic, TypeOK, Executions
  <2>3. ASSUME NEW x \in Executions
        PROVE  active_runs'[x] = tasks'[x] + panicked'[x] + Cardinality(Counting(x)')
    BY <2>1, <2>2, SameSets DEF Ledger
  <2>. QED
    BY <2>1, <2>3 DEF Ledger
<1>10. ASSUME NEW l \in Loop, Start(l) PROVE Ledger'
  <2>1. \A s : Counting(s)' = Counting(s)
    BY <1>10 DEF Start, Counting, TypeOK
  <2>. QED
    BY <1>1, <1>10, <2>1 DEF Start, Executions
<1>11. ASSUME NEW l \in Loop, LoopStep(l) PROVE Ledger'
  <2>1. CASE Plain(l)
    BY <1>1, <2>1, PlainStep DEF Executions
  <2>2. CASE CheckAllows(l)
    <3>1. \A s : Counting(s)' = Counting(s)
      BY <2>2 DEF CheckAllows, Goto, Counting, TypeOK
    <3>. QED
      BY <1>1, <2>2, <3>1 DEF CheckAllows, Executions
  <2>3. CASE Count(l)
    <3>1. /\ UNCHANGED <<tasks, panicked, cur>> /\ Executions' = Executions
          /\ lpc'[l] = "nextRun" /\ active_runs' = [active_runs EXCEPT ![cur[l]] = @ + 1]
      BY <2>3 DEF Count, Goto, Executions, TypeOK
    <3>2. Holder'
      BY HolderStep
    <3>3. \A s : Cardinality(Counting(s)') = IF cur'[l] = s THEN 1 ELSE 0
      <4>1. \A s : Counting(s)' = IF cur'[l] = s THEN {l} ELSE {}
        BY <3>1, <3>2 DEF Holder, Counting
      <4>. QED
        BY <4>1, FS_EmptySet, FS_Singleton
    <3>4. \A s \in Executions : active_runs[s] = tasks[s] + panicked[s]
      BY <2>3, CountingNone DEF Count, Ledger, TypeOK, Executions
    <3>5. ASSUME NEW s \in Executions
          PROVE  active_runs'[s] = tasks'[s] + panicked'[s] + Cardinality(Counting(s)')
      BY <3>1, <3>3, <3>4 DEF TypeOK, Executions
    <3>. QED
      BY <3>1, <3>5 DEF Ledger
  <2>4. CASE CountGone(l)
    <3>1. \A s : Counting(s)' = Counting(s)
      BY <2>4 DEF CountGone, Spawn, Goto, Counting, TypeOK
    <3>2. /\ active_runs' = active_runs /\ panicked' = panicked /\ Executions' = Executions
          /\ \A s \in Executions : tasks'[s] = tasks[s]
      BY <2>4 DEF CountGone, Spawn, Executions, TypeOK
    <3>. QED
      BY <3>1, <3>2 DEF Ledger
  <2>5. CASE NextRun(l)
    <3>1. lpc[l] = "nextRun" /\ \A s : Cardinality(Counting(s)) = IF cur[l] = s THEN 1 ELSE 0
      BY <2>5, CountingOne DEF NextRun, Goto
    <3>2. \A s : Cardinality(Counting(s)') = 0
      <4>1. \A s : Counting(s)' = {}
        BY <2>5 DEF NextRun, Spawn, Goto, Counting, Holder, TypeOK
      <4>. QED
        BY <4>1, FS_EmptySet
    <3>3. /\ active_runs' = active_runs /\ panicked' = panicked /\ Executions' = Executions
          /\ tasks' = [tasks EXCEPT ![cur[l]] = @ + 1]
      BY <2>5 DEF NextRun, Spawn, Executions
    <3>4. ASSUME NEW s \in Executions
          PROVE  active_runs'[s] = tasks'[s] + panicked'[s] + Cardinality(Counting(s)')
      BY <3>1, <3>2, <3>3 DEF Ledger, TypeOK, Executions
    <3>. QED
      BY <3>3, <3>4 DEF Ledger
  <2>. QED
    BY <1>11, <2>1, <2>2, <2>3, <2>4, <2>5 DEF LoopStep, Plain
<1>. QED
  BY <1>2, <1>3, <1>4, <1>5, <1>6, <1>7, <1>8, <1>9, <1>10, <1>11
     DEF Next, Client, Registry

\* No loop is ever unspawned.
LEMMA SpawnedGrows ==
  ASSUME TypeOK, [Next]_vars
  PROVE  /\ Spawned \subseteq Spawned'
         /\ Cardinality(Spawned) <= Cardinality(Spawned') /\ Cardinality(Spawned') \in Nat
<1>1. ASSUME NEW l \in Loop, lpc[l] # "off" PROVE lpc'[l] # "off"
  <2>1. ASSUME NEW m \in Loop, NEW from, NEW to, Goto(m, from, to), to # "off"
        PROVE  lpc'[l] # "off"
    BY <1>1, <2>1 DEF Goto, TypeOK
  <2>2. ASSUME NEW m \in Loop, LoopStep(m) PROVE lpc'[l] # "off"
    BY <2>1, <2>2 DEF LoopStep, Top, Enter, Scan, Sleep, CheckAllows, CheckSkips, Count,
                      CountGone, NextRun, PickEnabled, SkipDisabled
  <2>3. ASSUME NEW m \in Loop, Start(m) PROVE lpc'[l] # "off"
    BY <1>1, <2>3 DEF Start, TypeOK
  <2>4. ASSUME lpc' = lpc PROVE lpc'[l] # "off"
    BY <1>1, <2>4
  <2>5. ASSUME NEW s \in Schedule,
               Client(s) \/ Registry(s) \/ Due(s) \/ Finish(s) \/ Panic(s)
        PROVE  lpc'[l] # "off"
    BY <2>4, <2>5 DEF Client, Registry, CallAdd, CallRemove, InsertSchedule, InsertExecution,
                      RemoveSchedule, RemoveExecution, Due, Finish, Panic, loopVars
  <2>6. CASE Stop
    BY <2>4, <2>6 DEF Stop
  <2>7. CASE UNCHANGED vars
    BY <2>4, <2>7 DEF vars, loopVars
  <2>. QED
    BY <2>2, <2>3, <2>5, <2>6, <2>7 DEF Next
<1>2. Spawned \subseteq Spawned' /\ Spawned' \subseteq Loop
  BY <1>1 DEF Spawned
<1>. QED
  BY <1>2, FS_Subset, FS_CardinalityType, SchedulerAssumption

\* What a limit allows is kept: a loop that passes the check finds fewer runs
\* in flight than the limit, and there are only so many loops.
LEMMA OverrunStep == SInv /\ [Next]_vars => Overrun'
<1>. SUFFICES ASSUME SInv, [Next]_vars PROVE Overrun'
  OBVIOUS
<1>. USE DEF SInv, entryVars, loopVars, runVars
<1>0. Cardinality(Spawned) <= Cardinality(Spawned') /\ Cardinality(Spawned') \in Nat
  BY SpawnedGrows
<1>1. ASSUME \A s \in Schedule : tasks'[s] <= tasks[s] /\ tasks'[s] \in Nat,
             \A s : InHand(s)' = InHand(s)
      PROVE  Overrun'
  <2>1. ASSUME NEW s \in Limited
        PROVE  IF Limit[s] = 0 THEN tasks'[s] = 0 /\ InHand(s)' = {}
               ELSE tasks'[s] + Cardinality(InHand(s)') <= Limit[s] - 1 + Cardinality(Spawned')
    <3>1. /\ s \in Schedule /\ tasks[s] \in Nat /\ Limit[s] \in Nat
          /\ Cardinality(InHand(s)) \in Nat /\ Cardinality(Spawned) \in Nat
      BY LoopSets, SchedulerAssumption DEF TypeOK
    <3>2. tasks'[s] <= tasks[s] /\ tasks'[s] \in Nat /\ InHand(s)' = InHand(s)
      BY <1>1, <3>1
    <3>. QED
      BY <1>0, <3>1, <3>2 DEF Overrun
  <2>. QED
    BY <2>1 DEF Overrun
<1>2. ASSUME tasks' = tasks, \A s : InHand(s)' = InHand(s) PROVE Overrun'
  BY <1>1, <1>2 DEF TypeOK
<1>3. CASE UNCHANGED vars
  BY <1>2, <1>3, SameSets DEF vars
<1>4. CASE Stop
  BY <1>2, <1>4, SameSets DEF Stop
<1>5. ASSUME NEW s \in Schedule, Client(s) \/ Registry(s) \/ Due(s) PROVE Overrun'
  <2>1. tasks' = tasks /\ lpc' = lpc /\ cur' = cur
    BY <1>5 DEF Client, Registry, CallAdd, CallRemove, InsertSchedule, InsertExecution,
                RemoveSchedule, RemoveExecution, Due
  <2>. QED
    BY <1>2, <2>1, SameSets
<1>6. ASSUME NEW s \in Schedule, Finish(s) \/ Panic(s) PROVE Overrun'
  <2>1. lpc' = lpc /\ cur' = cur /\ tasks' = [tasks EXCEPT ![s] = @ - 1] /\ tasks[s] > 0
    BY <1>6 DEF Finish, Panic
  <2>2. \A x \in Schedule : tasks'[x] <= tasks[x] /\ tasks'[x] \in Nat
    BY <2>1 DEF TypeOK
  <2>. QED
    BY <1>1, <2>1, <2>2, SameSets
<1>7. ASSUME NEW l \in Loop, Start(l) PROVE Overrun'
  <2>1. \A s : InHand(s)' = InHand(s)
    BY <1>7 DEF Start, InHand, TypeOK
  <2>. QED
    BY <1>2, <1>7, <2>1 DEF Start
<1>8. ASSUME NEW l \in Loop, CheckAllows(l) PROVE Overrun'
  <2>1. /\ tasks' = tasks /\ cur' = cur /\ cur[l] \in Schedule
        /\ \A m \in Loop \ {l} : lpc'[m] = lpc[m]
    BY <1>8 DEF CheckAllows, Goto, TypeOK
  <2>2. ASSUME NEW s \in Limited, s # cur[l] PROVE InHand(s)' = InHand(s)
    BY <2>1, <2>2 DEF InHand
  <2>3. ASSUME cur[l] \in Limited
        PROVE  /\ Limit[cur[l]] # 0
               /\ tasks[cur[l]] + Cardinality(InHand(cur[l])')
                    <= Limit[cur[l]] - 1 + Cardinality(Spawned')
    <3>1. active_runs[cur[l]] < Limit[cur[l]] /\ active_runs[cur[l]] >= tasks[cur[l]]
      BY <1>8, <2>1, <2>3, CountingNone DEF CheckAllows, CanRun, Ledger, TypeOK, Executions
    <3>2. InHand(cur[l])' \subseteq Spawned' /\ Spawned' \subseteq Loop
      BY DEF InHand, Spawned
    <3>3. /\ Cardinality(InHand(cur[l])') \in Nat
          /\ Cardinality(InHand(cur[l])') <= Cardinality(Spawned')
      BY <3>2, FS_Subset, FS_CardinalityType, SchedulerAssumption
    <3>4. /\ tasks[cur[l]] \in Nat /\ active_runs[cur[l]] \in Nat
          /\ Limit[cur[l]] \in Nat
      BY <2>1, <2>3, SchedulerAssumption DEF TypeOK
    <3>. QED
      BY <1>0, <3>1, <3>3, <3>4
  <2>4. ASSUME NEW s \in Limited
        PROVE  IF Limit[s] = 0 THEN tasks'[s] = 0 /\ InHand(s)' = {}
               ELSE tasks'[s] + Cardinality(InHand(s)') <= Limit[s] - 1 + Cardinality(Spawned')
    <3>1. CASE s = cur[l]
      BY <2>1, <2>3, <3>1
    <3>2. CASE s # cur[l]
      <4>1. /\ tasks'[s] = tasks[s] /\ InHand(s)' = InHand(s)
            /\ tasks[s] \in Nat /\ Limit[s] \in Nat
            /\ Cardinality(InHand(s)) \in Nat /\ Cardinality(Spawned) \in Nat
        BY <2>1, <2>2, <3>2, LoopSets, SchedulerAssumption DEF TypeOK
      <4>. QED
        BY <1>0, <4>1 DEF Overrun
    <3>. QED
      BY <3>1, <3>2
  <2>. QED
    BY <2>4 DEF Overrun
<1>9. ASSUME NEW l \in Loop, CountGone(l) \/ NextRun(l) PROVE Overrun'
  <2>1. /\ tasks' = [tasks EXCEPT ![cur[l]] = @ + 1] /\ cur[l] \in Schedule
        /\ lpc[l] \in {"count", "nextRun"} /\ lpc'[l] = "pick"
        /\ \A m \in Loop \ {l} : lpc'[m] = lpc[m] /\ cur'[m] = cur[m]
    BY <1>9 DEF CountGone, NextRun, Spawn, Goto, TypeOK
  <2>2. ASSUME NEW s \in Limited, s # cur[l] PROVE InHand(s)' = InHand(s)
    BY <2>1, <2>2 DEF InHand
  <2>3. ASSUME NEW s \in Limited, s = cur[l]
        PROVE  l \in InHand(s) /\ InHand(s)' = InHand(s) \ {l}
    BY <2>1, <2>3 DEF InHand
  <2>4. ASSUME NEW s \in Limited, s = cur[l]
        PROVE  Cardinality(InHand(s)') = Cardinality(InHand(s)) - 1
    BY <2>3, <2>4, LoopSets, FS_RemoveElement
  <2>5. ASSUME NEW s \in Limited
        PROVE  IF Limit[s] = 0 THEN tasks'[s] = 0 /\ InHand(s)' = {}
               ELSE tasks'[s] + Cardinality(InHand(s)') <= Limit[s] - 1 + Cardinality(Spawned')
    <3>1. CASE s = cur[l]
      <4>1. Limit[s] # 0
        BY <2>3, <3>1 DEF Overrun
      <4>2. tasks'[s] = tasks[s] + 1 /\ tasks[s] \in Nat /\ Limit[s] \in Nat
        BY <2>1, <3>1, SchedulerAssumption DEF TypeOK
      <4>3. tasks[s] + Cardinality(InHand(s)) <= Limit[s] - 1 + Cardinality(Spawned)
        BY <4>1 DEF Overrun
      <4>4. Cardinality(InHand(s)) \in Nat /\ Cardinality(Spawned) \in Nat
        BY LoopSets
      <4>. QED
        BY <1>0, <2>4, <3>1, <4>1, <4>2, <4>3, <4>4
    <3>2. CASE s # cur[l]
      <4>1. /\ tasks'[s] = tasks[s] /\ InHand(s)' = InHand(s)
            /\ tasks[s] \in Nat /\ Limit[s] \in Nat
            /\ Cardinality(InHand(s)) \in Nat /\ Cardinality(Spawned) \in Nat
        BY <2>1, <2>2, <3>2, LoopSets, SchedulerAssumption DEF TypeOK
      <4>. QED
        BY <1>0, <4>1 DEF Overrun
    <3>. QED
      BY <3>1, <3>2
  <2>. QED
    BY <2>5 DEF Overrun
<1>10. ASSUME NEW l \in Loop, LoopStep(l) PROVE Overrun'
  <2>1. CASE Plain(l)
    BY <1>2, <2>1, PlainStep
  <2>2. CASE Count(l)
    <3>1. tasks' = tasks /\ \A s : InHand(s)' = InHand(s)
      BY <2>2 DEF Count, Goto, InHand, TypeOK
    <3>. QED
      BY <1>2, <3>1
  <2>. QED
    BY <1>8, <1>9, <1>10, <2>1, <2>2 DEF LoopStep, Plain
<1>. QED
  BY <1>3, <1>4, <1>5, <1>6, <1>7, <1>10 DEF Next

\* The invariant holds in every reachable state.
THEOREM SchedulerInvariant == Spec => []SInv
<1>1. SInv /\ [Next]_vars => SInv'
  BY TypeStep, HolderStep, FreshStep, LedgerStep, OverrunStep DEF SInv
<1>. QED
  BY SInvInit, <1>1, PTL DEF Spec

--------------------------------------------------------------------------------

\* Every variable keeps its type; active_runs never goes below zero.
THEOREM SchedulerTypes == Spec => []TypeOK
<1>1. SInv => TypeOK
  BY DEF SInv
<1>. QED
  BY <1>1, SchedulerInvariant, PTL

\* active_runs of a registered schedule is exact, whatever loops, clients and
\* runs do at the same time: saturating_sub never saturates.
THEOREM ActiveRunsExact == Spec => []Ledger
<1>1. SInv => Ledger
  BY DEF SInv
<1>. QED
  BY <1>1, SchedulerInvariant, PTL

\* Of a limited schedule no more runs are in flight than its limit and one for
\* every loop beyond the first; none at all if the limit is 0.
THEOREM LimitOverrunBounded == Spec => []RunsBounded
<1>1. ASSUME SInv, NEW s \in Limited
      PROVE  IF Limit[s] = 0 THEN tasks[s] = 0
             ELSE tasks[s] <= Limit[s] - 1 + Cardinality(Spawned)
  <2>1. /\ tasks[s] \in Nat /\ Limit[s] \in Nat /\ Cardinality(Spawned) \in Nat
        /\ Cardinality(InHand(s)) \in Nat
    BY <1>1, LoopSets, SchedulerAssumption DEF SInv, TypeOK
  <2>. QED
    BY <1>1, <2>1 DEF SInv, Overrun
<1>2. SInv => RunsBounded
  BY <1>1 DEF RunsBounded
<1>. QED
  BY <1>2, SchedulerInvariant, PTL

\* With one call of start the limit is exact.
THEOREM OneLoopWithinLimit == Cardinality(Loop) = 1 => (Spec => []RunsWithinLimit)
<1>. SUFFICES ASSUME Cardinality(Loop) = 1 PROVE Spec => []RunsWithinLimit
  OBVIOUS
<1>1. Cardinality(Spawned) <= 1 /\ Cardinality(Spawned) \in Nat
  <2>1. Spawned \subseteq Loop
    BY DEF Spawned
  <2>. QED
    BY <2>1, FS_Subset, FS_CardinalityType, SchedulerAssumption
<1>2. ASSUME TypeOK, RunsBounded PROVE RunsWithinLimit
  BY <1>1, <1>2, SchedulerAssumption DEF TypeOK, RunsBounded, RunsWithinLimit
<1>. QED
  BY <1>2, SchedulerTypes, LimitOverrunBounded, PTL
--------------------------------------------------------------------------------
(* One run per loop and passing of next_run. *)

\* The loop has collected s and is not yet done with it.
Holds(l, s) == s \in to_run[l] \/ cur[l] = s

\* The loop may start one more run of s for the passings there were: while s is
\* due it may collect it, and what it has collected it may run.
Claims(l, s) == (due[s] /\ s \in Schedules) \/ Holds(l, s)

Collecting ==
  /\ \A s \in Schedule : due[s] => s \in Executions /\ passed[s] # 0
  /\ \A l \in Loop : cur[l] \notin to_run[l] /\ (lpc[l] = "off" => to_run[l] = {})

Fired(l, s) ==
  /\ started[l][s] <= passed[s]
  /\ Claims(l, s) => started[l][s] < passed[s]

FInv == SInv /\ Collecting /\ \A l \in Loop, s \in Schedule : Fired(l, s)

\* A loop collects a schedule that is due, once.
LEMMA CollectingStep == SInv /\ Collecting /\ [Next]_vars => Collecting'
<1>. SUFFICES ASSUME SInv, Collecting, [Next]_vars PROVE Collecting'
  OBVIOUS
<1>. USE SchedulerAssumption DEF SInv, TypeOK, entryVars, loopVars, runVars
<1>1. ASSUME UNCHANGED <<reg, due, passed>>
      PROVE  \A s \in Schedule : due'[s] => s \in Executions' /\ passed'[s] # 0
  BY <1>1 DEF Collecting, Executions
<1>2. ASSUME UNCHANGED <<to_run, cur, lpc>>
      PROVE  \A l \in Loop : cur'[l] \notin to_run'[l] /\ (lpc'[l] = "off" => to_run'[l] = {})
  BY <1>2 DEF Collecting
<1>3. CASE UNCHANGED vars \/ Stop
  BY <1>1, <1>2, <1>3 DEF Collecting, vars, Stop
<1>4. ASSUME NEW x \in Schedule, Client(x) \/ Registry(x) PROVE Collecting'
  <2>1. UNCHANGED <<to_run, cur, lpc, passed>>
    BY <1>4 DEF Client, Registry, CallAdd, CallRemove, InsertSchedule, InsertExecution,
                RemoveSchedule, RemoveExecution
  <2>2. ASSUME NEW s \in Schedule, due'[s]
        PROVE  due[s] /\ (s \in Executions => s \in Executions')
    BY <1>4, <2>2 DEF Client, Registry, CallAdd, CallRemove, InsertSchedule,
       InsertExecution, RemoveSchedule, RemoveExecution, SetReg, Executions
  <2>. QED
    BY <1>2, <2>1, <2>2 DEF Collecting
<1>5. ASSUME NEW x \in Schedule, Due(x) PROVE Collecting'
  BY <1>5 DEF Due, Collecting, Executions
<1>6. ASSUME NEW x \in Schedule, Finish(x) \/ Panic(x) PROVE Collecting'
  BY <1>1, <1>2, <1>6 DEF Finish, Panic, Collecting
<1>7. ASSUME NEW l \in Loop, Start(l) PROVE Collecting'
  BY <1>1, <1>7 DEF Start, Collecting
<1>8. ASSUME NEW l \in Loop, LoopStep(l) PROVE Collecting'
  <2>1. \A s \in Schedule : due'[s] => s \in Executions' /\ passed'[s] # 0
    <3>1. reg' = reg /\ passed' = passed /\ \A s \in Schedule : due'[s] => due[s]
      BY <1>8 DEF LoopStep, Top, Enter, Scan, Sleep, CheckAllows, CheckSkips, Count,
         CountGone, NextRun, PickEnabled, SkipDisabled
    <3>. QED
      BY <3>1 DEF Collecting, Executions
  <2>2. /\ \A m \in Loop \ {l} : /\ lpc'[m] = lpc[m] /\ to_run'[m] = to_run[m]
                                 /\ cur'[m] = cur[m]
        /\ lpc'[l] # "off"
    BY <1>8 DEF LoopStep, Top, Enter, Scan, Sleep, CheckAllows, CheckSkips, Count,
         CountGone, NextRun, PickEnabled, SkipDisabled, Spawn, Goto
  <2>3. cur'[l] \notin to_run'[l]
    <3>1. CASE Scan(l)
      <4>1. cur'[l] = cur[l] /\ cur[l] \notin Schedule /\ to_run'[l] \subseteq Schedule
        BY <3>1 DEF Scan, Goto, Executions
      <4>. QED
        BY <4>1
    <3>2. ASSUME NEW s \in Schedule, PickEnabled(l, s) PROVE cur'[l] \notin to_run'[l]
      BY <3>2 DEF PickEnabled
    <3>3. ASSUME NEW s \in Schedule, SkipDisabled(l, s) PROVE cur'[l] \notin to_run'[l]
      BY <3>3 DEF SkipDisabled, Collecting
    <3>4. CASE CheckSkips(l) \/ CountGone(l) \/ NextRun(l)
      BY <3>4 DEF CheckSkips, CountGone, NextRun, Spawn
    <3>5. CASE Top(l) \/ Enter(l) \/ Sleep(l) \/ CheckAllows(l) \/ Count(l)
      BY <3>5 DEF Top, Enter, Sleep, CheckAllows, Count, Collecting
    <3>. QED
      BY <1>8, <3>1, <3>2, <3>3, <3>4, <3>5 DEF LoopStep
  <2>. QED
    BY <2>1, <2>2, <2>3 DEF Collecting
<1>. QED
  BY <1>3, <1>4, <1>5, <1>6, <1>7, <1>8 DEF Next

\* No loop starts, or may still start, more runs than there were passings.
LEMMA FiredStep ==
  ASSUME FInv, [Next]_vars, NEW m \in Loop, NEW s \in Schedule PROVE Fired(m, s)'
<1>. USE DEF FInv, SInv, entryVars, loopVars, runVars
<1>0. /\ started[m][s] \in Nat /\ passed[s] \in Nat
      /\ Fired(m, s)
  BY SchedulerAssumption DEF TypeOK
<1>2. ASSUME started'[m][s] = started[m][s], passed'[s] = passed[s],
             Claims(m, s)' => Claims(m, s)
      PROVE  Fired(m, s)'
  BY <1>0, <1>2 DEF Fired
<1>3. CASE UNCHANGED vars \/ Stop
  BY <1>2, <1>3 DEF vars, Stop, Claims, Holds, Schedules
<1>4. ASSUME NEW x \in Schedule, Client(x) \/ Registry(x) PROVE Fired(m, s)'
  <2>1. UNCHANGED <<to_run, cur, lpc, passed, started>>
    BY <1>4 DEF Client, Registry, CallAdd, CallRemove, InsertSchedule, InsertExecution,
                RemoveSchedule, RemoveExecution
  <2>2. due'[s] => due[s]
    BY <1>4 DEF Client, Registry, CallAdd, CallRemove, InsertSchedule,
       InsertExecution, RemoveSchedule, RemoveExecution, TypeOK
  <2>3. due[s] /\ s \in Schedules' => s \in Schedules
    BY <1>4 DEF Client, Registry, CallAdd, CallRemove, InsertSchedule, InsertExecution,
       RemoveSchedule, RemoveExecution, SetReg, TypeOK, Collecting, Executions, Schedules
  <2>. QED
    BY <1>2, <2>1, <2>2, <2>3 DEF Claims, Holds
<1>5. ASSUME NEW x \in Schedule, Due(x) PROVE Fired(m, s)'
  <2>1. /\ UNCHANGED <<to_run, cur, lpc, reg, started>>
        /\ due' = [due EXCEPT ![x] = TRUE] /\ passed' = [passed EXCEPT ![x] = @ + 1]
    BY <1>5 DEF Due
  <2>2. CASE x # s
    BY <1>2, <2>1, <2>2 DEF TypeOK, Claims, Holds, Schedules
  <2>3. CASE x = s
    <3>1. passed'[s] = passed[s] + 1 /\ started'[m][s] = started[m][s]
      BY <2>1, <2>3 DEF TypeOK
    <3>. QED
      BY <1>0, <3>1 DEF Fired
  <2>. QED
    BY <2>2, <2>3
<1>6. ASSUME NEW x \in Schedule, Finish(x) \/ Panic(x) PROVE Fired(m, s)'
  BY <1>2, <1>6 DEF Finish, Panic, Claims, Holds, Schedules
<1>7. ASSUME NEW l \in Loop, Start(l) PROVE Fired(m, s)'
  BY <1>2, <1>7 DEF Start, Claims, Holds, Schedules
<1>8. ASSUME NEW l \in Loop, LoopStep(l) PROVE Fired(m, s)'
  <2>1. /\ UNCHANGED <<reg, passed>> /\ Schedules' = Schedules
        /\ m # l => /\ to_run'[m] = to_run[m] /\ cur'[m] = cur[m]
                    /\ started'[m] = started[m]
        /\ due'[s] => due[s]
    BY <1>8 DEF LoopStep, Top, Enter, Scan, Sleep, CheckAllows, CheckSkips, Count,
       CountGone, NextRun, PickEnabled, SkipDisabled, Spawn, Goto, Schedules, TypeOK
  <2>2. CASE m # l
    BY <1>2, <2>1, <2>2 DEF Claims, Holds
  <2>3. CASE m = l /\ Scan(l)
    <3>1. /\ UNCHANGED <<due, cur, started>>
          /\ to_run' = [to_run EXCEPT ![l] = {x \in Executions \cap Schedules : due[x]}]
      BY <2>3 DEF Scan
    <3>2. Claims(m, s)' => Claims(m, s)
      BY <2>1, <2>3, <3>1 DEF Claims, Holds, TypeOK
    <3>. QED
      BY <1>2, <2>1, <3>1, <3>2
  <2>4. ASSUME m = l, CountGone(l) \/ NextRun(l), cur[l] = s PROVE Fired(m, s)'
    <3>1. /\ started'[m][s] = started[m][s] + 1 /\ to_run' = to_run
          /\ cur'[m] = NoSchedule
      BY <2>4 DEF CountGone, NextRun, Spawn, TypeOK
    <3>2. started[m][s] < passed[s]
      BY <1>0, <2>4 DEF Fired, Claims, Holds
    <3>3. ~Claims(m, s)'
      <4>1. s \notin to_run'[m] /\ s # NoSchedule
        BY <2>4, <3>1, SchedulerAssumption DEF Collecting
      <4>2. ~(due'[s] /\ s \in Schedules')
        BY <2>1, <2>4 DEF CountGone, NextRun, Collecting, TypeOK
      <4>. QED
        BY <3>1, <4>1, <4>2 DEF Claims, Holds
    <3>. QED
      BY <1>0, <2>1, <3>1, <3>2, <3>3 DEF Fired
  <2>5. ASSUME m = l, CountGone(l) \/ NextRun(l), cur[l] # s PROVE Fired(m, s)'
    <3>1. /\ started'[m][s] = started[m][s] /\ to_run' = to_run /\ cur'[m] = NoSchedule
      BY <2>5 DEF CountGone, NextRun, Spawn, TypeOK
    <3>. QED
      BY <1>2, <2>1, <3>1, SchedulerAssumption DEF Claims, Holds
  <2>6. CASE m = l /\ ~Scan(l) /\ ~CountGone(l) /\ ~NextRun(l)
    <3>1. UNCHANGED <<due, started>>
      BY <1>8, <2>6 DEF LoopStep, Top, Enter, Sleep, CheckAllows, CheckSkips, Count,
         PickEnabled, SkipDisabled
    <3>2. Holds(m, s)' => Holds(m, s)
      BY <1>8, <2>6, SchedulerAssumption DEF LoopStep, Top, Enter, Sleep, CheckAllows,
         CheckSkips, Count, PickEnabled, SkipDisabled, Holds, TypeOK
    <3>. QED
      BY <1>2, <2>1, <3>1, <3>2 DEF Claims
  <2>. QED
    BY <2>2, <2>3, <2>4, <2>5, <2>6
<1>. QED
  BY <1>3, <1>4, <1>5, <1>6, <1>7, <1>8 DEF Next

\* Nothing is due and nothing has run at the beginning.
LEMMA FInvInit == Init => FInv
<1>. SUFFICES ASSUME Init PROVE FInv
  OBVIOUS
<1>1. Collecting
  BY DEF Init, Collecting
<1>2. ASSUME NEW l \in Loop, NEW s \in Schedule PROVE Fired(l, s)
  BY SchedulerAssumption DEF Init, Fired, Claims, Holds
<1>. QED
  BY <1>1, <1>2, SInvInit DEF FInv

\* The invariant holds in every reachable state.
LEMMA FInvHolds == Spec => []FInv
<1>1. FInv /\ [Next]_vars => FInv'
  <2>1. SInv /\ [Next]_vars => SInv'
    BY TypeStep, HolderStep, FreshStep, LedgerStep, OverrunStep DEF SInv
  <2>2. FInv /\ [Next]_vars => \A l \in Loop, s \in Schedule : Fired(l, s)'
    BY FiredStep
  <2>. QED
    BY <2>1, <2>2, CollectingStep DEF FInv
<1>. QED
  BY FInvInit, <1>1, PTL DEF Spec

\* A loop starts at most one run of a schedule per passing of its next_run, for any
\* number of loops, schedules and passings, however stale its scan is.
THEOREM DueTimesFireOncePerLoop == Spec => []FiresOncePerLoop
<1>1. FInv => FiresOncePerLoop
  BY DEF FInv, Fired, FiresOncePerLoop
<1>. QED
  BY <1>1, FInvHolds, PTL

--------------------------------------------------------------------------------
(* What DueRuns rests on, without fairness.                                *)

\* A run of s is spawned in this step.
SpawnsRun(s) == \E l \in Loop : started'[l][s] = started[l][s] + 1

\* A due time ends in a run, or with the schedule.
DueTimesKept ==
  [][\A s \in Schedule :
       due[s] /\ ~due'[s] => SpawnsRun(s) \/ reg'[s] = "removed"]_vars

(* A next_run that has passed is not lost: whatever the loops have scanned,*)
(* skipped or left at its limit, it is recomputed only in the step that    *)
(* spawns a run, and otherwise goes with its entry.                        *)
THEOREM NoDueTimeIsLost == Spec => DueTimesKept
<1>1. ASSUME SInv, Collecting, [Next]_vars, NEW s \in Schedule, due[s], ~due'[s]
      PROVE  SpawnsRun(s) \/ reg'[s] = "removed"
  <2>. USE <1>1 DEF SInv, TypeOK, entryVars, loopVars, runVars
  <2>1. s \in Executions
    BY DEF Collecting
  <2>2. CASE UNCHANGED due
    BY <2>2
  <2>3. ASSUME NEW x \in Schedule, InsertExecution(x) \/ RemoveExecution(x) \/ Due(x)
        PROVE  reg'[s] = "removed"
    BY <2>1, <2>3 DEF InsertExecution, RemoveExecution, Due, SetReg, Executions
  <2>4. ASSUME NEW l \in Loop, NextRun(l) PROVE SpawnsRun(s)
    <3>1. s = cur[l]
      BY <2>4 DEF NextRun
    <3>. QED
      BY <2>4, <3>1, SchedulerAssumption DEF NextRun, Spawn, SpawnsRun
  <2>. QED
    BY <2>2, <2>3, <2>4
    DEF Next, Stop, Client, Registry, CallAdd, CallRemove, InsertSchedule, RemoveSchedule,
        Finish, Panic, Start, LoopStep, Top, Enter, Scan, Sleep, CheckAllows, CheckSkips,
        Count, CountGone, PickEnabled, SkipDisabled, vars
<1>2. FInv /\ [Next]_vars =>
        [\A s \in Schedule :
           due[s] /\ ~due'[s] => SpawnsRun(s) \/ reg'[s] = "removed"]_vars
  BY <1>1 DEF FInv
<1>. QED
  BY <1>2, FInvHolds, PTL DEF Spec, DueTimesKept

\* Somebody waits for a lock: a loop at one of its lock statements, or a call of add
\* or remove in the middle.
WaitsForLock ==
  \/ \E l \in Loop : lpc[l] \in {"enter", "scan", "check", "count", "nextRun"}
  \/ \E s \in Schedule : reg[s] \in {"inserting", "inserted", "removing", "halfRemoved"}

\* One of them gets the lock it waits for.
SomebodyGetsLock ==
  \/ \E l \in Loop :
       \/ lpc[l] \in {"enter", "nextRun"} /\ SchedulesReadable
       \/ lpc[l] \in {"scan", "check", "count"} /\ ExecutionsFree
  \/ \E s \in Schedule :
       \/ reg[s] \in {"inserting", "removing"} /\ SchedulesWritable
       \/ reg[s] \in {"inserted", "halfRemoved"} /\ ExecutionsFree

OneDeadlock == WaitsForLock => SomebodyGetsLock \/ Deadlocked

(* The two locks of the scheduler block each other in one constellation    *)
(* only, a loop that scans, one that has counted a run and a client that   *)
(* waits to write schedules, and that one is for ever.                     *)
THEOREM DeadlockIsOneAndFinal == Spec => []OneDeadlock /\ [][Deadlocked => Deadlocked']_vars
<1>1. OneDeadlock
  BY DEF OneDeadlock, WaitsForLock, SomebodyGetsLock, Deadlocked, ExecutionsFree,
         SchedulesReadable, SchedulesWritable
<1>2. TypeOK /\ [Next]_vars => [Deadlocked => Deadlocked']_vars
  <2>. SUFFICES ASSUME TypeOK, [Next]_vars, Deadlocked PROVE Deadlocked'
    OBVIOUS
  <2>1. PICK l \in Loop : lpc[l] = "scan"
    BY DEF Deadlocked
  <2>2. PICK m \in Loop : lpc[m] = "nextRun"
    BY DEF Deadlocked, ExecutionsFree
  <2>3. PICK s \in Schedule : reg[s] \in {"inserting", "removing"}
    BY DEF Deadlocked, SchedulesReadable
  <2>4. lpc'[l] = "scan" /\ lpc'[m] = "nextRun"
    <3>1. CASE lpc' = lpc
      BY <2>1, <2>2, <3>1
    <3>2. ASSUME NEW k \in Loop, Start(k) \/ LoopStep(k)
          PROVE  lpc'[l] = "scan" /\ lpc'[m] = "nextRun"
      <4>1. k # l /\ k # m
        BY <2>1, <2>2, <3>2
        DEF Deadlocked, Start, LoopStep, Top, Enter, Scan, Sleep, CheckAllows, CheckSkips,
            Count, CountGone, NextRun, PickEnabled, SkipDisabled, Goto
      <4>2. \A j \in Loop \ {k} : lpc'[j] = lpc[j]
        BY <3>2
        DEF TypeOK, Start, LoopStep, Top, Enter, Scan, Sleep, CheckAllows, CheckSkips,
            Count, CountGone, NextRun, PickEnabled, SkipDisabled, Goto
      <4>. QED
        BY <2>1, <2>2, <4>1, <4>2
    <3>. QED
      BY <3>1, <3>2
      DEF Next, Stop, Client, Registry, CallAdd, CallRemove, InsertSchedule, InsertExecution,
          RemoveSchedule, RemoveExecution, Due, Finish, Panic, vars, loopVars
  <2>5. reg'[s] = reg[s]
    <3>1. CASE reg' = reg
      BY <3>1
    <3>2. ASSUME NEW x \in Schedule, Client(x) \/ Registry(x) PROVE reg'[s] = reg[s]
      <4>1. x # s
        BY <2>1, <2>3, <3>2
        DEF Client, Registry, CallAdd, CallRemove, InsertSchedule, InsertExecution,
            RemoveSchedule, RemoveExecution, SetReg, SchedulesWritable
      <4>. QED
        BY <3>2, <4>1
        DEF TypeOK, Client, Registry, CallAdd, CallRemove, InsertSchedule, InsertExecution,
            RemoveSchedule, RemoveExecution, SetReg
    <3>. QED
      BY <3>1, <3>2
      DEF Next, Stop, Due, Finish, Panic, Start, LoopStep, Top, Enter, Scan, Sleep,
          CheckAllows, CheckSkips, Count, CountGone, NextRun, PickEnabled, SkipDisabled, vars
  <2>. QED
    BY <2>1, <2>2, <2>3, <2>4, <2>5 DEF Deadlocked, ExecutionsFree, SchedulesReadable
<1>. QED
  BY <1>1, <1>2, SchedulerTypes, PTL DEF Spec

================================================================================

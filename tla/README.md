# Formal models of OxiFY

TLA+ models of the parts of OxiFY whose correctness depends on the order in
which concurrent things happen, TLC instances that check them, and TLAPS proofs
of the properties that matter most. Paths below are relative to `src/crates/`;
`lib.rs` alone is `oxify-engine/src/lib.rs`.

## 1. The system and its components

OxiFY executes LLM workflows: directed acyclic graphs of nodes (LLM calls, code,
HTTP calls, loops, approvals, ...). The crates and what is in them:

| Component | State | Operations | Interacts with | Hard behaviour |
|---|---|---|---|---|
| Workflow run (`lib.rs`, `execute_with_config`) | context with the node results, completed list, handles of the chunk, pause and cancel flags | run the levels, spawn and join node tasks, pause, cancel | backpressure monitor, resource enforcer, checkpoint store, event bus, clients | tasks of a chunk finish in any order; pause, cancel, timeout and panic at any moment; early return leaves tasks behind |
| Backpressure (`backpressure.rs`) | two relaxed atomics | record_queued, record_dequeued, record_completed, state | coordinator and every task | checks and updates without a lock; a node between two counters |
| Execution levels and plan cache (`lib.rs` 2228-2299, `plan_cache.rs`) | process-wide map of plans behind a mutex | get, put, layered topological sort | every execution | stale, evicted and replaced plans, parallel edges, cycles |
| Checkpoint and resume (`checkpoint.rs`, `lib.rs` 574-687) | stored checkpoints, memory or files | create, resume, pause during a resume | the run, clients | crash between steps, resume of a resume, failed saves |
| Resource limits (`resource_limits.rs`) | atomics per run, quotas per user, token budget | check_*, add_*, reserve, consume | the run | check then act |
| Approvals, forms (`approval_store.rs`, `form_store.rs`) | map of requests per store | create, approve, reject, submit, mark_timed_out, cleanup_old | the polling node, people | read-modify-write over two locks, answer against timeout |
| Scheduler (`scheduler.rs`) | schedules, execution info, running flag | add, remove, start, stop | the engine | check and count under different locks, lock order, two loops |
| Webhook triggers (`webhook.rs`) | webhooks, trigger history | register, unregister, trigger | callers | lost updates |
| Node executors (`loop_executor.rs`, `try_catch_executor.rs`, ...) | none shared | execute one node | the run | sequential |
| LLM circuit breaker and deduplication (`oxify-connect-llm`) | circuit state and counters, in-flight map of channels | complete, clear, reset | callers, providers | results arriving after the state has moved on, calls dropped at an await |
| Other LLM wrappers (priority queue, retry, balancing, rate limit, batches, caches) | heap, counters, caches | complete | providers | one lock, one call |
| Webhook delivery (`oxify-storage`, `webhook_delivery.rs`, `webhook_retry.rs`) | pending events, retry states and statistics in memory, a lock each | queue_event, deliver, process_pending_retries, clear, cleanup_old_failures | receivers, whoever polls | overlapping deliveries of one event, a clear across the three locks |
| Other storage | SQL tables | quotas, workflows, executions, secrets | API | check then act in SQL |
| Executions of the HTTP API (`oxify-api`: `handlers.rs`, `graphql.rs`, `batch_handlers.rs`, `websocket.rs`, `rollback_handlers.rs`, `storage.rs`, `middleware.rs`) | execution store, gauge of active executions, snapshots | start by REST, batch or GraphQL; cancel, pause, resume, snapshot, rollback | the engine, the store, clients | read-change-write of stored contexts against the outcome of the run, dropped handlers, three ids for one execution |
| Authentication (`oxify-authn`) | sessions, refresh token families | create, use, rotate, revoke | API | limits across two locks, reuse detection |
| Authorization (`oxify-authz`) | relation tuples, caches | check, write | API | cache staleness |
| API, server, CLI, UI, MCP, vector, vision | - | - | - | I/O, numeric code, presentation |

What makes the main components correct:

* **Run**: dependencies are settled before a node starts; a node starts and is
  recorded at most once; a run that completes, pauses or is cancelled leaves
  nothing running; a pause loses nothing; limits hold up to a known slack; every
  run returns.
* **Backpressure**: the counters count what they are meant to and never wrap.
* **Levels**: every node once, after its predecessors, as early as possible; a
  cycle is always found; the cache never answers with another structure's plan.
* **Resume**: goes on from any checkpoint in dependency order to a complete
  context; what had succeeded stays a success, but for the level a paused resume
  executes again.
* **Approvals and forms**: a node ends with what a person was told is the answer, or
  with the clock; nothing is offered to people that no node waits for; an answered
  node ends.
* **Scheduler**: the count of active runs is exact, the limit is overrun at most by
  the number of loops less one, a due schedule runs.
* **API executions**: the gauge says how many executions are active (it does not, section
  6; what is shown is by what exactly it is off), a client's id finds its record (it does
  so for GraphQL only, section 6), a finished record is not taken back.
* **Deduplication, breaker**: everybody is answered, with the answer to a request of his own key;
  counters and state of the breaker agree in any order of results.
* **Webhook delivery**: the three maps stay in step, an event is never stranded and
  leaves the queue for a reason.

`PROJECT.json` lists every component with its status and every hazard at its line.

## 2. Plan

1. `Backpressure`, `DagRun`, `WorkflowExecution`: the run and its abstract
   specification. *Checked, proved, with the refinement.*
2. `WorkflowRecovery`: composes the run with crash, checkpoints and resume.
   *Checked, proved.*
3. `Layers`, `ExecutionLevels`: what the run assumes of its levels, and that it gets it. *Checked, proved.*
4. `Scheduler`: two loops, active-run limit, lock order, panicking runs. *Checked,
   proved.*
5. `HumanTasks`: approval and form nodes against people, timeout and sweep.
   *Checked, proved.*
6. `ExecutionApi`: the life of an execution in the HTTP API. *Checked, proved.*
7. `LlmCalls`: deduplication around the circuit breaker. *Checked, proved.*
8. `WebhookDelivery`: queue, retries and statistics. *Checked, proved.*

What is left, in order of worth: the sessions and refresh token families of
`oxify-authn` (their check and later count is the scheduler's shape), the priority
queue of the LLM wrappers, the token budget and user quotas of
`resource_limits.rs` (called by nothing on the path of an execution), the caches
of `oxify-authz`, and the webhook triggers of the engine, whose lost updates touch
only counters.

## 3. The modules

### WorkflowExecution (with Backpressure)

One call of `Engine::execute_with_config`. The coordinator is the calling task; its
control state `pc` names the statement it is at:

| `pc` | code (`lib.rs`) | actions |
|---|---|---|
| `cancelCheck`, `pauseCheck` | top of the level loop, 785-837 | `CancelCheck`, `PauseCheck`, `Complete` (1116-) |
| `admit`, `decide` | backpressure of one node, 873-907 | `AdmitUnchecked`, `LoadQueued`, `Decide` |
| `limits` | limits and `tokio::spawn`, 909-936 | `LimitExceeded`, `Spawn` |
| `await` | `handles.drain(..)`, 1028-1062 | `ChunkFull`, `AwaitHandle`, `EndChunk` |
| `levelEnd` | automatic checkpoint, 1086-1114 | `EndLevel` |

A node's task (936-1022) goes `spawned`, `dequeuing`, `running`, `executed`,
`finished` or `panicked`, one step per atomic access. Clients set and clear the two
flags at any time. Every access to memory another thread can touch is one step;
what only the coordinator touches is merged into the step around it.

`Backpressure` holds the two atomics: `record_dequeued` is two steps, `state()` is
two loads in two steps. `DagRun` is the abstract specification: per node `pending`,
`running`, `settled`, `skipped`, and how the run ended. `WorkflowExecution`
implements it under the mapping `DagStatus`.

Abstractions: a node's result is success, failure, timeout or panic, chosen
freely, so the executors and their retries are covered by any choice; payloads,
ids and events other than the terminal one are left out; the resource monitor's
per-level chunk size is the constant `max_concurrent_nodes`; atomics are taken as
sequentially consistent (the code uses Relaxed: swapping the two loads of
`state()` is not modelled); waiting loops with sleeps are repeated steps.
The model begins where the run has its levels: the memory and time limits checked
before the first level (`lib.rs:765-773`) only end the call with nothing begun.
`FinishNode` is `record_completed` (1014) and `add_node_execution` (1019) in one step: no
one reads the two counters together.
Preconditions, stated as `ConfigsAssumption`: `max_concurrent_nodes` and the checkpoint
frequencies are not 0, where the code panics.

### WorkflowRecovery

Extends the run with the crash of the process (tasks and flags are gone, the run's
own outcome becomes `Crashed`, the checkpoints stay if they were in files and are
lost if they were in memory), and `resume_from_checkpoint`: sequential, with a cursor
`rlvl`, `rpos` over the levels, skipping what is in the checkpoint's `completed_nodes`,
paused before any node, writing its own checkpoint whose save may silently fail. A
client resumes only when the previous attempt is over; the code does not enforce that.
An attempt is also lost when a node panics in it (no task stands between the node and
the caller) or its caller drops the future. Any checkpoint may be deleted at any moment.
`execute_sequential`, for sub-workflows, is the loop of the resume from the first level
on, without pause and checkpoints, and has no module of its own.

### ExecutionLevels

One thread's calls of `compute_execution_levels`, edge by edge, with the
process-wide cache. Other executions put plans at any moment (`Other`); that those
plans are exact is `KnownAssumption`, and it is what `PlansAreExact` proves of the plans
this call returns and puts, so the assumption is discharged by the code itself: of all
the calls of a process, none can be the first to put a wrong plan. Iterating a
HashMap is a choice of any order. Hash collisions and the kind of a node, which
is in the hash but does not change the levels, are left out. What levels owe a run is `Layered` of module
`Layers` (every node once, after its predecessors): `LevelsAssumption` of `WorkflowExecution`
assumes it, `Valid` of this module is the same definition, and `Tight` adds that no level
could be merged into an earlier one; the workflow validator's own cycle
check (`oxify-model/src/validation.rs`) is the same search.

### Scheduler

`WorkflowScheduler` with its clients, its loops and the runs they spawn. `reg` is how far
`add_schedule` and `remove_schedule` are with an id, and gives the keys of the two maps
(`Schedules`, `Executions`): each call writes them one after the other, under a lock
each. Every call of `start` (144-268) is one element of `Loop`; `lpc` is its statement.
The lock a loop holds from one step to the next is in `lpc` too: at `scan` it has
`schedules.read` and waits for `executions.read` (160-161), at `nextRun` it has
`executions.write` and waits for `schedules.read` (208-214). A client waiting to write
`schedules` (`inserting`, `removing`) keeps new readers out, as the futex based RwLock
of std does on Linux; on a platform whose lock lets them in, `Deadlocked` cannot
happen and every other behaviour is a behaviour of the model. `next_run` is the flag
`due`: recomputing it puts it in the future, whatever the cron expression. `start_date`,
`end_date`, `timezone` and `retry_on_failure` of a schedule are read nowhere in the
scheduler, so they are not in the model. A run is one that finishes or panics; what it does
is `execute_sequential`. The sleep is merged with the next look at `running`. A scan reads
`due` when it has its locks, the code compares with a `now` taken just before them (156):
what passes in between waits for the next scan. `started` is a history, kept per loop.

### HumanTasks

`ApprovalStore` and `FormStore` are the same code with other names for the verdicts: one
`store`, whose requests have the `kind` of their node. Every lock taken is a step: a
person's `approve`, `reject` or `submit` is a `get` into `hand` and a later `update`;
the node (`npc`) looks, sleeps, and when its wait is over (`late`) takes a copy once
more to mark it timed out. `CleanupOld` is `cleanup_old`. `path` and `configured` say which
engine executes the node: `execute_with_config` makes an `Engine::new()` per node, which
has no stores. `acked` is a history: whom the store told `true`. It is taken that the run's own
future is not dropped while its node polls; then the request would pend for nobody.

### ExecutionApi

A request comes to one of three handlers (`via`), each with its own order of storing,
counting, spawning and answering (`hpc`); the spawned run (`tpc`) returns with any
outcome, leaves the gauge and then writes its record, which REST and batch do for a
completed run only.
Commands that cancel (REST, GraphQL or WebSocket), pause and resume read a context and put
a changed copy back later. A snapshot and a rollback are one step each: a rollback
writes the snapshot's state whatever its own `get` (`rollback_handlers.rs:366`) has read, so
its `update` (402) is the step; the `get`, `get_or_create` and `update` of a snapshot
(237, 262, 277) are not told apart, so a snapshot lost to two overlapping calls is not in the
model. `Id` has three draws per request: the
context's, the in-memory store's and the handler's own; `backend` decides under which
the record is filed. Calls of the database may fail, and a client
that goes away takes its handler with it. `engine.execute` is taken not to panic itself
(its nodes may: it returns an error). Events to WebSocket clients and the
retention of snapshots are left out.

### LlmCalls

`DedupProvider` around `CircuitBreakerProvider`: a call looks up its key, enters, calls
through the breaker (check, provider, record), sends to its followers and removes
the entry, each under its own lock; it may be dropped at any await, which is what
`TimeoutProvider` does. `Caller` are slots for calls, used again. A `Request` is the part the
key covers (`keyed`) and the rest, since tools and images are not in the key. `last_failure` compares the
clock with `recovery_timeout` instead of counting it. `LlmCallsAssumption` leaves out
thresholds of 0, which the builder accepts and which act like 1 but for
`BreakerCounters`: a closed circuit is then not below its threshold.

### WebhookDelivery

`WebhookDeliveryService` with its `WebhookRetryManager`: `pending`, `states` and `stats` are three
maps behind three locks, and a call is at one of the places `pc` between them.
`process_pending_retries` and `deliver` are one walk over `todo`. An event is looked up and
copied before it is sent, so what other calls do to it meanwhile goes unnoticed. `ready` is
whether `next_retry_at` has passed. `past` is a history of each event: delivered, its errors
(up to `max_retries`), cleared, and `torn`: a `clear` overlapped its `queue_event`, which
leaves it in one map and not in the other. It is taken that ids are queued once (they
are fresh UUIDs), that an id is delivered only after `queue_event` has returned it,
that `max_age` of the clean-up is longer than the time between recording a failure and
reading it back, and that delivering futures are not dropped. `WebhookDeliveryAssumption`
leaves out `max_retries` of 0, which the code accepts: the first failure is then final, as
with 1.

## 4. The runs

| Run | Question | Instance | Result |
|---|---|---|---|
| `engine` | do backpressure and node limit hold up to the stated slack, are pause, cancel, timeouts, panics and failing stores safe at every point, does the run implement `DagRun`, does it return? | 6 nodes in levels of 4, 1 and 1; Block and Drop at limits of 1 and 1 with all four in a chunk, Block at 2 and 1, Drop at 0 and 2, None, Throttle; node limits 1 and 2 with chunks of 1 to 3; checkpoints after every level, every second, some nodes; 2 workers | pass |
| `recovery` | can every checkpoint be resumed, in order, to the end, keeping what had succeeded? | 2 levels of 2 nodes; Drop with room for one node in the queue, a checkpoint after each level; 2 resumes, 1 crash, any deletions | pass |
| `levels` | are the levels and the cache right? | 11 structures: diamond, shortcuts, parallel edges, reversed chains, no edges, cycles, self loops; 2 workflows, cache of 1 | pass |
| `scheduler_two_loops` | what is left of the limit with two loops, is `active_runs` exact, does a due time fire once per loop, does a due schedule run? | 2 schedules, one limited to 1, one disabled; each due twice; 2 loops | pass |
| `executions` | by what is the gauge off, who still changes a finished record, and does a run end under its client's id, when handlers, runs, commands, rollbacks and failing stores interleave? | 1 request, 3 commands, both backends, gauge modulo 4 | pass |
| `human_tasks` | who decides, who waits, who may be left hanging? | 2 tasks of either kind on either path, 2 people | pass |
| `llm_calls` | is nobody left waiting, no entry left behind, and can the breaker always recover? | 3 callers, 2 keys, both thresholds 2 | pass |
| `webhook_delivery` | do the maps stay in step, and is every event settled? | 1 event, 2 clients, 2 pollers, 2 retries | pass |
| `over_limit` | `oxify-model/src/workflow.rs:339` "Maximum number of concurrent runs allowed" | as `scheduler_two_loops` | violated |
| `skip_completed` | `oxify-engine/TODO.md:203` "Skip completed nodes" | as `recovery` | violated |
| `gauge` | `oxify-api/src/middleware.rs:770` "Currently active workflow executions" | as `executions` | violated |
| `answer_id` | `oxify-api/README.md:167`, `175`, `179`: the id of the answer is the id to get | as `executions` | violated |

What the properties of the later modules say:

* `OutcomeHasAuthor`: what a node ends with, a person was told is the answer, or the wait was
  over. `PendingIsAwaited`: a pending request has a node that waits. `PanicLosesAnswer`:
  the `expect` of the polling loop fails only when an answered request was swept
  out before the node saw it. `AnswerEndsWait`: an answered node ends.
* `GaugeDrift`: with nothing in flight the gauge is off by exactly the cancellations,
  which count out what the run counts out again, and by the REST runs whose record
  could not be created; that it is off at all is what `GaugeReturns` finds in `gauge`.
  `AnswerFindsRecord`, in `answer_id`: the id of an answer finds a record.
  `FinishedChangesByLateWriters`: a finished record changes only by a command that
  had read it before, by its run's outcome over a cancellation, or by a rollback.
  `GraphqlRunRecorded`: a run started by GraphQL is recorded under the client's id.
* `BreakerCounters`, `EntriesLead`: the breaker's counters agree with its
  state, entries belong to calls that will remove them or were dropped. `AnsweredUnlessAbandoned`: the only way to wait for ever
  is behind the entry of a dropped leader.
* `ResumeKeepsResults`: a success in the run's checkpoint is one in every resume that goes on
  from it, and a resume can lose successes of earlier resumes in one level only, the one the
  earlier resume was paused in, whose list of completed nodes it wrote too short
  (`skip_completed`). Of failed nodes it says nothing.
* `FiresOncePerLoop`: a loop starts at most one run for each time `next_run` has passed.
* `MapsAgree`, `SettledRightly`, `EventsSettle`: a pending event will be retried or a call is about
  to settle it; what is retried is pending; an event leaves delivered, cleared or after
  `max_retries` errors, is counted, and leaves in the end.

Why the bounds are enough to be interesting. `engine`: with limits of 1 and 1 and two workers
`InFlightBounded` allows three nodes in flight, the third by the slack of a worker between
the two counters; four nodes in one chunk reach the three and would reach a fourth, so the
bound is attained and can be broken, under Block and under Drop. Chunks of two leave a second
chunk to be admitted while tasks are still between counters; node limits below, at and
above the size of a chunk put `NodeLimitOverrun` on its boundary; three
levels give a pause, cancellation or checkpoint a boundary with work before and after
it. `recovery`: a level with two nodes can be paused between them, two resumes let a
resume start from a checkpoint of a resume. `levels`: a cache of one with two workflows
evicts on every new id. Scheduler: a limit of one is the smallest a second loop can
overrun, and a schedule that is due twice lets a loop with a stale scan meet the next
due time. `executions`: requests share nothing but the gauge, so one request with three
commands (one to cancel, one that has read before, one to roll back) has every
interleaving on a record; a gauge modulo 4 wraps within that. `human_tasks`: two people
with the same request in hand, and a second task to tell requests apart. `llm_calls`: a leader, a
follower and a third call that replaces the entry; thresholds of two leave a state between none
and open. `webhook_delivery`: events share only a clear and the statistics, so one event;
two pollers and two clients deliver it four times at once, and with two retries the last failure of one
call meets the first of another. `MaxResumes`, `MaxCrashes` and `MaxDue` are the only bounds
that are not in the code or the instance; the proofs need none of them.

Deadlock is checked in `engine`, `recovery`, `levels` and `llm_calls`; the others may stop: every
loop ended and every schedule removed, every request answered, every node ended, every
event settled and every client gone.

Fairness. `WF(Coordinator)` and `WF(Task(n))`: the tokio runtime polls every ready task,
and a node's own work ends by its result or its timeout. `SF(Dequeue(n))`: a worker
that becomes free again and again takes a waiting task in the end (the queue is first
in, first out). Clients owe nothing. `Terminates` excepts one case, which it names:
under Block a panicked node never gives back its place in `active_count` and the
coordinator may wait for ever. (With a limit of 0 Block waits for ever from the start:
the run has no such configuration, `NobodyIsWaitedForInVain` names it `NoRoomAtAll`.) `ResumeEnds` assumes `WF(Resumption)` only. The
scheduler assumes that threads inside a call of add or remove and inside a loop go on
(`WF`); that time passes, that a client calls or that a run ends is not assumed.
`DueRuns` names its exceptions: stopped, removed, at the limit (which a panicked run can
make permanent) and `Deadlocked`, which needs two loops. `executions`: handlers, spawned tasks
and commands are polled (`WF`), as tokio does; a client may still leave, and the fairness of a
task says that `engine.execute` returns, which is what `Terminates` shows of it. `human_tasks`: the
node's polling loop wakes (`WF(Poll)`); neither clock nor people owe anything.
`llm_calls`: a call that is not dropped is polled and the provider answers; nobody is
bound to call or to drop. `webhook_delivery`: calls are polled to their end, a retry
becomes due as time passes, and somebody calls `process_pending_retries` again and again: the repository
has no such loop, and without one nothing is ever retried. Clients and receivers owe
nothing: a receiver may fail for ever.

## 5. What is proved

For every workflow, every set of configurations, any number of worker threads,
schedules, loops, callers, people, requests and events, from the named ASSUMEs of the
modules. Each theorem `Spec => []P` goes by an inductive invariant: it holds initially, every
action keeps it, it implies `P`.

* `WorkflowExecutionProofs`: `CheckpointsAreConsistent`, `PauseIsLossless`,
  `RunImplementsDagRun` (refinement: initial states to initial states, every step to a
  step or a stutter). The inductive invariant is `Types`, `Place` and `Tracking`. `Place` says where
  the cursor can be in each control state. `Tracking` says that the nodes the cursor has passed
  are exactly the spawned and the dropped ones, and that the spawned ones are recorded or in the
  handles of the current chunk, never both; without it a checkpoint's contents and
  its level number are unrelated. For `TypeCorrect`, `BackpressureBounds` and `NodeLimitHolds`, `Counters`
  equates each atomic with the number of tasks in certain states (nothing in the
  code counts tasks); `Finishing` says only finished tasks are recorded.
* `WorkflowRecoveryProofs`: `RecoveryTypes`, `CheckpointsCanBeResumed`, `ResumeRespectsEdges`,
  `ResumeFinishesWorkflow`, `ResumeLosesNothing`. `RInv` adds to the run's invariant what the
  resume's cursor has passed: every node before it has a result or was dropped before the
  checkpoint, so a checkpoint written by a paused resume is as good as the run's. `Keeping`
  follows the results through the chain: a context reaches no further than the level of its
  cursor, and what lies before the checkpoint's level stays as it was given, so only
  that one level can be executed twice.
* `ExecutionLevelsProofs`: `LevelsAreValid`, `CacheIsSound`, `DegreesNeverUnderflow`,
  `AnswersAreExact`, `PlansAreExact`. `LInv` equates an in-degree with the number of edges not yet
  followed, so the nodes at 0 are those already pushed or being collected. `XInv` adds
  what makes the answer the best one: each node being collected has a predecessor in the level
  just pushed (`Chained`), and an answer `CycleDetected` has left a set of nodes that all have
  predecessors in the set (`Trapped`). The reference definition `WalkEnds` is a recursive function over the length of
  walks; what the proof needs of it is shown by the least counterexample (`WFMin` and
  the function's own equation, which `WalkEndsDef` states), not by an induction rule.
* `SchedulerProofs`: `SchedulerTypes`, `ActiveRunsExact`, `LimitOverrunBounded`,
  `OneLoopWithinLimit`, `DueTimesFireOncePerLoop`. `SInv` adds three facts to the
  properties: `Holder` (one holder of `executions.write`, whose entry cannot be removed under
  it), `Fresh` (an id not yet returned has no runs) and `Overrun`, which counts the loops
  between check and spawn together with the runs in flight: `RunsBounded` alone is not
  inductive, since it does not see the runs about to be spawned. `FInv` adds, per loop and
  schedule, the run the loop may still start: it has collected the schedule, or the schedule
  is due and it may.
* `HumanTasksProofs`: `HumanTasksTypes`, `DecisionsHaveAuthors`, `NothingPendsForNobody`,
  `OnlyAnsweredRequestsVanish`. `HInv` adds `Asked` (a copy in a hand is of a filed request),
  `Authored` (a stored verdict was told to somebody) and `Witnessed` (the request of a polling node
  is pending until somebody answers).
* `ExecutionApiProofs`: `ExecutionApiTypes`, `GaugeIsOffByCancellations`,
  `LateWritersOnly`. `AInv` has the gauge exact at every step, not only at rest, and what the
  copies in commands' hands may be.
* `LlmCallsProofs`: `LlmCallsTypes`, `BreakerStaysConsistent`, `NoEntryOutlivesItsCall`,
  `AnswersStayWithinTheirKey`, which no run checks: no result crosses keys, while tools and images
  are outside the key (section 6). `LInv` adds `Followers`: whose channel a follower listens to has his key.
* `WebhookDeliveryProofs`: `WebhookDeliveryTypes`, `PendingAndRetriesAgree`, `EventsSettleForAReason`.
  `DInv` adds `Futures` (a failed, pending event is on the way out by a call), `Untouched` (nobody has
  an event before it is tracked), `Found` (what a delivery has read of the state stays true
  until it acts on it), `Errors` (the errors recorded and those still to be recorded are
  no more than the errors there were, so `retry_count` never gives up early) and `Cleared`
  (between its two locks a clear leaves nothing pending but what it tears).

What liveness rests on. The prover reaches neither fairness nor ENABLED, so the seven
liveness properties stay with TLC. What each of them needs beside fairness is safety, though,
and that is proved: who waits has somebody to wait for, and what goes on does not go in circles.

| Checked | Proved beneath it |
|---|---|
| `Terminates` | `NobodyIsWaitedForInVain`: a join waits for a task in flight, Block too unless a panicked node has kept its place or a limit is 0, and while tasks are in flight one of them can go on. `OnlyBlockCanRepeat`: every other step goes to a later level, node, chunk, statement or state of a task, within bounds; it needs `Closing`, a chunk being joined is full or at its level's end |
| `ResumeEnds` | `ResumeCanGoOn`: the loop has somewhere to go, by the least node not completed. `ResumeGoesForward`: every step goes to a later level, node or statement |
| `DueRuns` | `NoDueTimeIsLost`: `next_run` is recomputed only where a run is spawned. `DeadlockIsOneAndFinal`: no other constellation of the two locks blocks, and this one for ever |
| `GraphqlRunRecorded` | `GraphqlOutcomeWritten`: the run's last step files its outcome under the client's id |
| `AnswerEndsWait` | `AcknowledgedIsResolved`: no acknowledged answer is undone, and the next look ends the wait; it needs `AskedFirst`, nobody answers before the node has asked |
| `AnsweredUnlessAbandoned` | `NobodyWaitsInVain`: followers wait for calls that can go on, not for each other, nor for the entry of a call that has ended |
| `EventsSettle` | `RetriesRunOut`: failures count up to `max_retries` under any overlap of deliveries, and the last ends the retries |

Every safety invariant and action property that a passing run checks, and the refinement, is
stated by a theorem; only the seven of the table are model-checked alone.

## 6. Disagreements with the documentation

* A resume that is paused writes the completed list it began with
  (`lib.rs:661-668`), so the next resume **executes nodes again** whose results it has,
  where `oxify-engine/TODO.md:203` has "Skip completed nodes" done (`skip_completed`).
* **max_concurrent_runs** is exceeded when two loops run, which two calls of `start` or a
  stop and a start within a second give: the check and the count are two critical
  sections (`scheduler.rs:185`, `207`) (`over_limit`).
* The gauge "Currently active workflow executions" (`middleware.rs:770`) **does not come back
  to 0**: a cancelled execution is counted out twice (`handlers.rs:650` and by its run), and a REST
  run whose record could not be created is counted out without having been in
  (`handlers.rs:390`, `420`, `432`). It is unsigned and wraps (`gauge`).
* The id of a REST or batch answer **names no record**: `GET /api/v1/executions/:id` and the
  cancel by it (`oxify-api/README.md:167`, `175`) answer 404, and the run's own update
  does not find its record (`answer_id`).

Met while modelling, without a run of their own:

* **Drop** does not fail fast (`backpressure.rs:16` "Drop new tasks when queue is full (fails
  fast)"): the node is skipped, its dependents run without its result and the run is
  `Completed` (`lib.rs:886-893`).
* An engine with an approval or form store **does not ask it** when `execute` runs the
  workflow: every node is run by an `Engine::new()` (`lib.rs:958`), and fails with the
  advice to do what the caller did (`lib.rs:1694`). `AppState` of the API does not even configure
  one (`handlers.rs:46`, `86`).
* **Failed nodes are not executed again** by a resume, although `oxify-engine/TODO.md:204` has
  "Re-execute failed nodes" done: they are in `completed_nodes` like the successful ones
  (`lib.rs:1035-1048`, `651`). `ResumeKeepsResults` therefore speaks of successes only.
* `dedup.rs:3-4` and `25-26` promise shared results to callers that "request the same thing"; the key
  (`dedup.rs:49-64`) leaves out `tools` and `images` and rounds the temperature to six places, so
  **callers that ask for different things share an answer**, too.
* A follower that subscribes between its leader's `send` (`dedup.rs:147`) and the removal of the entry
  (`150-153`) gets "Failed to receive result from in-flight request" for a request that
  **succeeded**; the model has it as `Closed`.
* "only one actual API call" (`dedup.rs:25-26`) does not hold of two calls that both
  miss before either enters.
* A half open circuit (`circuit_breaker.rs:50`) lets every call through, and the "Shouldn't happen" of
  `circuit_breaker.rs:131` does happen: a call admitted before the circuit opened succeeds after it.
* "Currently pending deliveries" (`webhook_delivery.rs:111`) **drifts**: `queue_event` counts an
  event after it is visible, so a delivery in between subtracts from 0 and the count
  stays at one with nothing pending.
* `active_workers` of the LLM priority queue (`priority_queue.rs:85`) is never written.

## 7. Not modelled

`PROJECT.json` has every component with its reason. In short:

* **SQL stores**: their state is in tables and a step is what the database makes atomic.
* **Priority queue, retry, balancing, rate limit, batches, caches** of the LLM wrappers:
  one lock or one counter around a call.
* **Webhook triggers, token budget, user quotas**: read, change and put back of
  counters that steer nothing on the path of an execution.
* **Sessions, token rotation, JWT, MFA**: cryptography and formats around maps with one lock;
  **ReBAC**: a system of its own that no execution calls.
* **Node executors, REST and WebSocket connectors, MCP**: sequential code of one node and
  I/O; a run sees only what it returns, which `WorkflowExecution` chooses freely.
* **Vector, vision, analysis, optimisation**: numeric and pure code, to be tested rather
  than model-checked. **CLI, UI, meta crate**: presentation.

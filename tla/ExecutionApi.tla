---------------------------------- MODULE ExecutionApi ----------------------------------
(***************************************************************************)
(* The executions of oxify-api: a handler stores a context and spawns a    *)
(* run of the engine, the run writes its outcome back when it returns, and *)
(* commands (cancel by REST, GraphQL or WebSocket, pause and resume by     *)
(* WebSocket) read a stored context, change the copy and put it back;      *)
(* snapshots and rollbacks by REST are one step each here, see below.  The *)
(* store has a lock per call, the gauge of active executions is atomic,    *)
(* and nothing else orders handlers, runs and commands.  A client that     *)
(* goes away takes its handler with it at the next await, but never a      *)
(* spawned run.                                                            *)
(***************************************************************************)
EXTENDS Integers, FiniteSets

CONSTANTS
  Request,      \* the executions asked for; those of a batch are one each
  Command,      \* the commands clients send
  NoId,
  GaugeModulus  \* active_executions is an AtomicU64: 2^64 in the code

ASSUME ExecutionApiAssumption ==
  /\ IsFiniteSet(Request)
  /\ IsFiniteSet(Command)
  /\ GaugeModulus \in Nat \ {0}

VARIABLES
  backend,    \* ExecutionStoreBackend
  via,        \* the handler each request came to
  executions, \* the store: a function from ids to execution states
  active_executions,
  hpc,        \* where the handler of each request is
  tpc,        \* where the spawned task of each request is
  outcome,    \* what engine.execute returned
  command,    \* what each command does, to which id, and how far it is
  snapshots   \* the snapshots taken: an id and the state its record was in

vars == <<backend, via, executions, active_executions, hpc, tpc, outcome, command, snapshots>>

Handlers == {"rest", "batch", "graphql"}

\* Three Uuid::new_v4() are drawn for a request: by its context, by the
\* in-memory store, and by the REST and batch handlers for their answer.
Id == [of : Request, drawn : {"context", "store", "handler"}]
IdOf(r, d) == [of |-> r, drawn |-> d]

\* A command that holds no copy.
Ended(pc) == [kind |-> "none", id |-> NoId, saw |-> "none", pc |-> pc]

ExecutionState == {"Running", "Paused", "Completed", "Failed", "Cancelled"}
Final == {"Completed", "Failed", "Cancelled"}

\* The id under which create files the context, and returns.
CreatedId(r) == IdOf(r, IF backend = "memory" THEN "store" ELSE "context")

\* The id the client is told and the task passes to update.
ClientId(r) == IF via[r] = "graphql" THEN CreatedId(r) ELSE IdOf(r, "handler")

\* A slip: update inserts without looking.
Upserted(id, s) == [i \in DOMAIN executions \cup {id} |-> IF i = id THEN s ELSE executions[i]]

\* ExecutionStore::update: nothing where the id is unknown.
Updated(id, s) == [i \in DOMAIN executions |-> IF i = id THEN s ELSE executions[i]]

\* A database call may fail; the in-memory store answers every call.
MayFail == backend = "database"

Created(r) ==
  [i \in DOMAIN executions \cup {CreatedId(r)} |->
     IF i = CreatedId(r) THEN "Running" ELSE executions[i]]

\* fetch_add and fetch_sub wrap.
Gauge(d) == active_executions' = (active_executions + d) % GaugeModulus

--------------------------------------------------------------------------------

Init ==
  /\ backend \in {"memory", "database"}
  /\ via \in [Request -> Handlers]
  /\ executions = [i \in {} |-> "Running"]
  /\ active_executions = 0
  /\ hpc = [r \in Request |-> "new"]
  /\ tpc = [r \in Request |-> "none"]
  /\ outcome = [r \in Request |-> "none"]
  /\ command = [c \in Command |-> Ended("new")]
  /\ snapshots = {}

HandlerAt(r, from, to) ==
  /\ hpc[r] = from
  /\ hpc' = [hpc EXCEPT ![r] = to]

TaskAt(r, from, to) ==
  /\ tpc[r] = from
  /\ tpc' = [tpc EXCEPT ![r] = to]

\* The workflow was found.  The REST handler spawns before it stores.
BeginRest(r) ==
  /\ via[r] = "rest"
  /\ HandlerAt(r, "new", "storing")
  /\ TaskAt(r, "none", "running")
  /\ UNCHANGED <<backend, via, executions, active_executions, outcome, command, snapshots>>

Begin(r) ==
  /\ via[r] # "rest"
  /\ HandlerAt(r, "new", "storing")
  /\ UNCHANGED <<backend, via, executions, active_executions, tpc, outcome, command, snapshots>>

Create(r) ==
  /\ HandlerAt(r, "storing", "stored")
  /\ executions' = Created(r)
  /\ UNCHANGED <<backend, via, active_executions, tpc, outcome, command, snapshots>>

\* The handler answers with an error, or its client is gone and it is dropped
\* at the await, when the record may be in the database all the same.  A run
\* spawned before goes on.
CreateFails(r) ==
  /\ HandlerAt(r, "storing", "failed")
  /\ executions' \in {executions} \cup IF MayFail THEN {Created(r)} ELSE {}
  /\ UNCHANGED <<backend, via, active_executions, tpc, outcome, command, snapshots>>

CountRest(r) ==
  /\ via[r] = "rest"
  /\ HandlerAt(r, "stored", "replied")
  /\ Gauge(1)
  /\ UNCHANGED <<backend, via, executions, tpc, outcome, command, snapshots>>

Count(r) ==
  /\ via[r] # "rest"
  /\ HandlerAt(r, "stored", "counted")
  /\ Gauge(1)
  /\ UNCHANGED <<backend, via, executions, tpc, outcome, command, snapshots>>

SpawnAndReply(r) ==
  /\ HandlerAt(r, "counted", "replied")
  /\ TaskAt(r, "none", "running")
  /\ UNCHANGED <<backend, via, executions, active_executions, outcome, command, snapshots>>

HandlerStep(r) ==
  \/ Create(r) \/ CreateFails(r)
  \/ CountRest(r) \/ Count(r) \/ SpawnAndReply(r)

--------------------------------------------------------------------------------

\* engine.execute returns: Ok with a context that says Completed, or Err.
Execute(r) ==
  /\ TaskAt(r, "running", "returned")
  /\ \E o \in {"Completed", "Failed"} : outcome' = [outcome EXCEPT ![r] = o]
  /\ UNCHANGED <<backend, via, executions, active_executions, hpc, command, snapshots>>

\* A slip: the gauge goes down in the Ok arm only.
UncountOkOnly(r) ==
  /\ TaskAt(r, "returned", "uncounted")
  /\ Gauge(IF outcome[r] = "Completed" THEN 0 - 1 ELSE 0)
  /\ UNCHANGED <<backend, via, executions, hpc, outcome, command, snapshots>>

Uncount(r) ==
  /\ TaskAt(r, "returned", "uncounted")
  /\ Gauge(0 - 1)
  /\ UNCHANGED <<backend, via, executions, hpc, outcome, command, snapshots>>

\* REST and batch write nothing for a run that failed.
Writes(r) == via[r] = "graphql" \/ outcome[r] = "Completed"

\* A slip: the outcome is not written.
ForgetOutcome(r) ==
  /\ TaskAt(r, "uncounted", "done")
  /\ UNCHANGED <<backend, via, executions, active_executions, hpc, outcome, command, snapshots>>

\* The outcome replaces whatever the record says by now.
WriteOutcome(r) ==
  /\ TaskAt(r, "uncounted", "done")
  /\ executions' \in IF Writes(r)
                     THEN {Updated(ClientId(r), outcome[r])}
                            \cup IF MayFail THEN {executions} ELSE {}
                     ELSE {executions}
  /\ UNCHANGED <<backend, via, active_executions, hpc, outcome, command, snapshots>>

TaskStep(r) == Execute(r) \/ Uncount(r) \/ WriteOutcome(r)

--------------------------------------------------------------------------------

\* cancel_execution of the REST and of the GraphQL API, and the commands of
\* the WebSocket.
Cancels == {"cancel", "wsCancel"}
Commands == Cancels \cup {"wsPause", "wsResume"}

\* A slip: only a completed execution is refused.
AllowedUnlessCompleted(k) == ExecutionState \ {"Completed"}

\* The states in which a command acts, and what it makes of them.
Allowed(k) == IF k \in Cancels THEN {"Running", "Paused"}
              ELSE IF k = "wsPause" THEN {"Running"} ELSE {"Paused"}
Target(k) == IF k \in Cancels THEN "Cancelled"
             ELSE IF k = "wsPause" THEN "Paused" ELSE "Running"

SetCommand(c, from, to) ==
  /\ command[c].pc = from
  /\ command' = [command EXCEPT ![c] = to]

\* get, and the check of the copy.  A command for an unknown id, or refused for
\* the state of the record, changes nothing.
Look(c, k, id) ==
  /\ executions[id] \in Allowed(k)
  /\ SetCommand(c, "new", [kind |-> k, id |-> id, saw |-> executions[id], pc |-> "looked"])
  /\ UNCHANGED <<backend, via, executions, active_executions, hpc, tpc, outcome, snapshots>>

\* update with the changed copy.  A WebSocket command does not touch the gauge.
Write(c) ==
  /\ SetCommand(c, "looked", IF command[c].kind = "cancel"
                             THEN [command[c] EXCEPT !.pc = "written"] ELSE Ended("acked"))
  /\ executions' = Updated(command[c].id, Target(command[c].kind))
  /\ UNCHANGED <<backend, via, active_executions, hpc, tpc, outcome, snapshots>>

\* An error, or the client is gone.
WriteFails(c) ==
  /\ SetCommand(c, "looked", Ended("new"))
  /\ executions' \in {executions}
       \cup IF MayFail THEN {Updated(command[c].id, Target(command[c].kind))} ELSE {}
  /\ UNCHANGED <<backend, via, active_executions, hpc, tpc, outcome, snapshots>>

UncountCancelled(c) ==
  /\ SetCommand(c, "written", Ended("cancelled"))
  /\ Gauge(0 - 1)
  /\ UNCHANGED <<backend, via, executions, hpc, tpc, outcome, snapshots>>

\* create_snapshot.  The get of the record, the get_or_create and the update of
\* the snapshots are one step: of two calls that overlap on one execution the
\* later update loses the snapshot of the earlier, which is not modelled.
TakeSnapshot(c, id) ==
  /\ SetCommand(c, "new", Ended("acked"))
  /\ snapshots' = snapshots \cup {<<id, executions[id]>>}
  /\ UNCHANGED <<backend, via, executions, active_executions, hpc, tpc, outcome>>

\* rollback_execution: whatever the record says, it is given the state of one
\* of its snapshots (which of them are kept is not modelled).  The state
\* written is the snapshot's and not that of the copy the handler has read, so
\* the update is the step, and one that fails leaves the record as it is.
RollBack(c, id) ==
  /\ SetCommand(c, "new", Ended("acked"))
  /\ \E s \in ExecutionState : <<id, s>> \in snapshots /\ executions' = Updated(id, s)
  /\ UNCHANGED <<backend, via, active_executions, hpc, tpc, outcome, snapshots>>

CommandStep(c) == Write(c) \/ WriteFails(c) \/ UncountCancelled(c)

Next ==
  \/ \E r \in Request : BeginRest(r) \/ Begin(r) \/ HandlerStep(r) \/ TaskStep(r)
  \/ \E c \in Command :
       \/ CommandStep(c)
       \/ \E id \in DOMAIN executions :
            TakeSnapshot(c, id) \/ RollBack(c, id) \/ \E k \in Commands : Look(c, k, id)

Spec == Init /\ [][Next]_vars

\* tokio polls a handler or task that can go on, and every run of the engine
\* ends; clients may send what they like, or nothing.
FairSpec ==
  /\ Spec
  /\ \A r \in Request : WF_vars(HandlerStep(r)) /\ WF_vars(TaskStep(r))
  /\ \A c \in Command : WF_vars(CommandStep(c))

--------------------------------------------------------------------------------

HandlerStates == {"new", "storing", "stored", "counted", "replied", "failed"}
TaskStates == {"none", "running", "returned", "uncounted", "done"}
CommandStates == {"new", "looked", "written", "acked", "cancelled"}

(* Every variable has its type: the store holds contexts that create filed *)
(* and all that it has answered with an id for, a task is there once its   *)
(* handler has spawned it, an outcome once the engine has returned, and    *)
(* what a command or a snapshot refers to is in the store.                 *)
Stored == {"stored", "counted", "replied"}

TypeOK ==
  /\ backend \in {"memory", "database"}
  /\ via \in [Request -> Handlers]
  /\ DOMAIN executions \subseteq {CreatedId(r) : r \in {q \in Request : hpc[q] \in Stored \cup {"failed"}}}
  /\ \A r \in Request : hpc[r] \in Stored => CreatedId(r) \in DOMAIN executions
  /\ \A i \in DOMAIN executions : executions[i] \in ExecutionState
  /\ active_executions \in 0..(GaugeModulus - 1)
  /\ hpc \in [Request -> HandlerStates]
  /\ tpc \in [Request -> TaskStates]
  /\ outcome \in [Request -> {"none", "Completed", "Failed"}]
  /\ command \in [Command -> [kind : Commands \cup {"none"}, id : Id \cup {NoId},
                              saw : ExecutionState \cup {"none"}, pc : CommandStates]]
  /\ snapshots \subseteq (DOMAIN executions) \X ExecutionState
  /\ \A r \in Request :
       /\ (tpc[r] # "none") = IF via[r] = "rest" THEN hpc[r] # "new" ELSE hpc[r] = "replied"
       /\ (outcome[r] = "none") = (tpc[r] \in {"none", "running"})
       /\ hpc[r] = "counted" => via[r] # "rest"
  /\ \A c \in Command : command[c].pc \in {"looked", "written"} =>
       /\ command[c].id \in DOMAIN executions
       /\ command[c].kind \in Commands

(* The gauge of active executions (inc_active_execution in the handlers,   *)
(* dec_active_execution in the tasks and in the cancellations) is at every *)
(* moment the executions counted in, less the runs and the cancellations   *)
(* counted out, in the arithmetic of a u64.  With nothing in flight it is  *)
(* off by one for each execution that was cancelled, which is counted out  *)
(* twice, and for each that the REST handler spawned and then could not    *)
(* file, which is counted out and never in, and by nothing else: no        *)
(* dropped handler, failed write, failed run or late command adds to it.   *)
(* That it is off at all is GaugeReturns.                                  *)
CountedIn == {r \in Request : IF via[r] = "rest" THEN hpc[r] = "replied"
                              ELSE hpc[r] \in {"counted", "replied"}}
CountedOut == {r \in Request : tpc[r] \in {"uncounted", "done"}}
CancelledOut == {c \in Command : command[c].pc = "cancelled"}
AtRest ==
  /\ \A r \in Request : hpc[r] \in {"new", "replied", "failed"} /\ tpc[r] \in {"none", "done"}
  /\ \A c \in Command : command[c].pc \notin {"looked", "written"}
RanUncounted == {r \in Request : via[r] = "rest" /\ hpc[r] = "failed"}

GaugeDrift ==
  AtRest =>
    active_executions =
      (0 - Cardinality(CancelledOut) - Cardinality(RanUncounted)) % GaugeModulus

(* The gauge's help text, "Currently active workflow executions"           *)
(* (middleware.rs:770): when none is active, it says so.                   *)
GaugeReturns == AtRest => active_executions = 0

(* The API's README gives the execution_id that a request to execute is    *)
(* answered with as the id for GET /api/v1/executions/:id and its          *)
(* commands (oxify-api/README.md:167-193): once a client has its answer,   *)
(* there is a record of that id, which no handler ever deletes.            *)
AnswerFindsRecord ==
  \A r \in Request : hpc[r] = "replied" => ClientId(r) \in DOMAIN executions

(* A record that says it is over (completed, failed, cancelled) changes    *)
(* only at the hand of a command that had read it before it was over, or,  *)
(* where it says cancelled, because the outcome of its own run arrives, or *)
(* when it is rolled back to a snapshot of itself.  No command that looks  *)
(* at a finished execution ever changes it (the 400 answers of             *)
(* cancel_execution), and no outcome replaces another.                     *)
FinishedChangesByLateWriters ==
  [][\A i \in DOMAIN executions :
       /\ executions[i] \in Final
       /\ executions'[i] # executions[i]
       => \/ \E c \in Command : /\ command[c].pc = "looked" /\ command[c].id = i
                                /\ command[c].saw \notin Final
          \/ \E r \in Request : /\ i = ClientId(r)
                                /\ tpc[r] = "uncounted"
                                /\ executions[i] = "Cancelled"
          \/ <<i, executions'[i]>> \in snapshots]_vars

(* With the in-memory store a run started by GraphQL ends, and when it has *)
(* ended its record says so under the id the client holds, whatever        *)
(* commands did to the record meanwhile.                                   *)
Records == {<<i, executions[i]>> : i \in DOMAIN executions}
GraphqlRunRecorded ==
  \A r \in Request :
    (via[r] = "graphql" /\ backend = "memory" /\ tpc[r] = "running")
      ~> (tpc[r] = "done" /\ \E s \in Final : <<ClientId(r), s>> \in Records)

================================================================================

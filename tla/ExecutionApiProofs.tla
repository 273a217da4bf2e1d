------------------------------ MODULE ExecutionApiProofs ------------------------------
(***************************************************************************)
(* Proofs about ExecutionApi for every finite number of requests and       *)
(* commands and every width of the gauge.                                  *)
(***************************************************************************)
EXTENDS ExecutionApi, FiniteSetTheorems, TLAPS

\* What is counted, before the arithmetic of the gauge wraps.
Balance == Cardinality(CountedIn) - Cardinality(CountedOut) - Cardinality(CancelledOut)
GaugeExact == active_executions = Balance % GaugeModulus

\* A command acts on a copy in a state it is allowed in.
CopiesAllowed ==
  \A c \in Command :
    command[c].pc = "looked" => command[c].saw \in Allowed(command[c].kind)

\* Only the outcome of its own run, started by GraphQL, makes a record say
\* Completed or Failed; a snapshot says it only after the record did.
OutcomesOwn ==
  \A r \in Request :
    \/ via[r] = "graphql" /\ tpc[r] = "done"
    \/ /\ CreatedId(r) \in DOMAIN executions =>
            executions[CreatedId(r)] \notin {"Completed", "Failed"}
       /\ \A s \in {"Completed", "Failed"} : <<CreatedId(r), s>> \notin snapshots

AInv == TypeOK /\ GaugeExact /\ CopiesAllowed /\ OutcomesOwn

--------------------------------------------------------------------------------

\* Division with remainder, as the gauge uses it.
LEMMA Remainder ==
  ASSUME NEW x \in Int
  PROVE  /\ x % GaugeModulus \in 0 .. (GaugeModulus - 1)
         /\ \E q \in Int : x = GaugeModulus * q + (x % GaugeModulus)
<1>1. x % GaugeModulus \in 0 .. (GaugeModulus - 1)
  BY ExecutionApiAssumption
<1>2. x \div GaugeModulus \in Int /\ x = GaugeModulus * (x \div GaugeModulus) + (x % GaugeModulus)
  BY ExecutionApiAssumption
<1>. QED
  BY <1>1, <1>2

\* The remainder is unique.
LEMMA RemainderOf ==
  ASSUME NEW q \in Int, NEW r \in 0 .. (GaugeModulus - 1)
  PROVE  (GaugeModulus * q + r) % GaugeModulus = r
<1>. USE ExecutionApiAssumption
<1>. DEFINE y == GaugeModulus * q + r
<1>1. y \in Int
  OBVIOUS
<1>2. PICK p \in Int : y = GaugeModulus * p + (y % GaugeModulus)
  BY <1>1, Remainder
<1>3. y % GaugeModulus \in 0 .. (GaugeModulus - 1)
  BY <1>1, Remainder
<1>4. p = q
  <2>1. GaugeModulus * p - GaugeModulus * q = r - (y % GaugeModulus)
    BY <1>2, <1>3
  <2>2. GaugeModulus * p - GaugeModulus * q = GaugeModulus * (p - q)
    OBVIOUS
  <2>3. CASE p - q >= 1
    <3>1. GaugeModulus * (p - q) >= GaugeModulus
      BY <2>3
    <3>. QED
      BY <3>1, <2>1, <2>2, <1>3
  <2>4. CASE p - q <= 0 - 1
    <3>1. GaugeModulus * (p - q) <= 0 - GaugeModulus
      BY <2>4
    <3>. QED
      BY <3>1, <2>1, <2>2, <1>3
  <2>. QED
    BY <2>3, <2>4
<1>. QED
  BY <1>2, <1>3, <1>4

\* Taking the remainder first makes no difference to a sum.
LEMMA RemainderOfSum ==
  ASSUME NEW x \in Int, NEW d \in Int
  PROVE  ((x % GaugeModulus) + d) % GaugeModulus = (x + d) % GaugeModulus
<1>1. PICK q \in Int : x = GaugeModulus * q + (x % GaugeModulus)
  BY Remainder
<1>2. x % GaugeModulus \in Int
  BY Remainder, ExecutionApiAssumption
<1>. DEFINE y == (x % GaugeModulus) + d
<1>3. y \in Int
  BY <1>2
<1>4. PICK p \in Int : y = GaugeModulus * p + (y % GaugeModulus)
  BY <1>3, Remainder
<1>5. y % GaugeModulus \in 0 .. (GaugeModulus - 1)
  BY <1>3, Remainder
<1>6. x + d = GaugeModulus * (p + q) + (y % GaugeModulus)
  BY <1>1, <1>2, <1>4, <1>5, ExecutionApiAssumption
<1>. QED
  BY <1>5, <1>6, RemainderOf

\* Adding to the gauge adds to what it stands for.
LEMMA GaugeMoves ==
  ASSUME NEW x \in Int, NEW d \in Int, active_executions = x % GaugeModulus, Gauge(d)
  PROVE  active_executions' = (x + d) % GaugeModulus
BY RemainderOfSum DEF Gauge

\* What is counted is finite.
LEMMA Counts ==
  /\ IsFiniteSet(CountedIn) /\ IsFiniteSet(CountedOut) /\ IsFiniteSet(CancelledOut)
  /\ Cardinality(CountedIn) \in Nat /\ Cardinality(CountedOut) \in Nat
  /\ Cardinality(CancelledOut) \in Nat /\ Balance \in Int
<1>1. CountedIn \subseteq Request /\ CountedOut \subseteq Request /\ CancelledOut \subseteq Command
  BY DEF CountedIn, CountedOut, CancelledOut
<1>2. IsFiniteSet(CountedIn) /\ IsFiniteSet(CountedOut) /\ IsFiniteSet(CancelledOut)
  BY <1>1, FS_Subset, ExecutionApiAssumption
<1>. QED
  BY <1>2, FS_CardinalityType DEF Balance

\* Ids of different requests, and ids drawn by different parties, differ.
LEMMA IdsDiffer ==
  /\ \A r \in Request : CreatedId(r) \in Id
  /\ \A r, q \in Request : CreatedId(r) = CreatedId(q) => r = q
  /\ \A r, q \in Request : IdOf(r, "handler") # CreatedId(q)
BY DEF CreatedId, IdOf, Id

--------------------------------------------------------------------------------

\* The initial state satisfies the invariant.
LEMMA AInvInit == Init => AInv
<1>. SUFFICES ASSUME Init PROVE AInv
  OBVIOUS
<1>1. TypeOK
  BY ExecutionApiAssumption DEF Init, TypeOK, Stored, HandlerStates, TaskStates, CommandStates, Ended
<1>2. CountedIn = {} /\ CountedOut = {} /\ CancelledOut = {}
  BY DEF Init, CountedIn, CountedOut, CancelledOut, Ended
<1>3. Balance = 0
  BY <1>2, FS_EmptySet DEF Balance
<1>4. 0 % GaugeModulus = 0
  BY ExecutionApiAssumption
<1>5. GaugeExact
  BY <1>3, <1>4 DEF Init, GaugeExact
<1>6. CopiesAllowed /\ OutcomesOwn
  BY DEF Init, CopiesAllowed, OutcomesOwn, Ended
<1>. QED
  BY <1>1, <1>5, <1>6 DEF AInv

\* Updated keeps the ids, and changes one record if it is there.
LEMMA UpdatedRecord ==
  ASSUME NEW id, NEW s
  PROVE  /\ DOMAIN Updated(id, s) = DOMAIN executions
         /\ \A i \in DOMAIN executions :
              Updated(id, s)[i] = IF i = id THEN s ELSE executions[i]
BY DEF Updated

LEMMA CreatedRecord ==
  ASSUME NEW r
  PROVE  /\ DOMAIN Created(r) = DOMAIN executions \cup {CreatedId(r)}
         /\ \A i \in DOMAIN Created(r) :
              Created(r)[i] = IF i = CreatedId(r) THEN "Running" ELSE executions[i]
BY DEF Created

LEMMA FilledIn ==
  ASSUME TypeOK, NEW r \in Request
  PROVE  /\ DOMAIN Created(r) = DOMAIN executions \cup {CreatedId(r)}
         /\ \A i \in DOMAIN Created(r) : Created(r)[i] \in ExecutionState
<1>1. \A i \in DOMAIN executions : executions[i] \in ExecutionState
  BY DEF TypeOK
<1>. QED
  BY <1>1 DEF Created, ExecutionState

\* While a record has not been stored, nothing is in its place.
LEMMA NotYetThere ==
  ASSUME TypeOK, NEW r \in Request, hpc[r] \in {"new", "storing"}
  PROVE  CreatedId(r) \notin DOMAIN executions
BY IdsDiffer DEF TypeOK, Stored

--------------------------------------------------------------------------------

\* The type invariant is inductive: the steps of a handler, ...
LEMMA TypesOfHandlers ==
  ASSUME TypeOK, NEW r \in Request, BeginRest(r) \/ Begin(r) \/ HandlerStep(r)
  PROVE  TypeOK'
<1>. USE DEF TypeOK, Stored, HandlerStates, TaskStates, HandlerAt, TaskAt
<1>1. CASE BeginRest(r)
  BY <1>1 DEF BeginRest, CreatedId
<1>2. CASE Begin(r)
  BY <1>2 DEF Begin, CreatedId
<1>3. CASE Create(r)
  <2>1. /\ DOMAIN executions' = DOMAIN executions \cup {CreatedId(r)}
        /\ \A i \in DOMAIN executions' : executions'[i] \in ExecutionState
        /\ backend' = backend
    <3>1. executions' = Created(r) /\ backend' = backend
      BY <1>3 DEF Create
    <3>2. /\ DOMAIN Created(r) = DOMAIN executions \cup {CreatedId(r)}
          /\ \A i \in DOMAIN Created(r) : Created(r)[i] \in ExecutionState
      BY FilledIn
    <3>. QED
      BY <3>1, <3>2
  <2>2. /\ DOMAIN executions' \subseteq
             {CreatedId(q)' : q \in {p \in Request : hpc'[p] \in Stored \cup {"failed"}}}
        /\ \A q \in Request : hpc'[q] \in Stored => CreatedId(q)' \in DOMAIN executions'
    BY <1>3, <2>1 DEF Create, CreatedId
  <2>3. /\ UNCHANGED <<via, active_executions, tpc, outcome, command>>
        /\ snapshots' \subseteq (DOMAIN executions') \X ExecutionState
    BY <1>3, <2>1 DEF Create
  <2>4. /\ hpc' \in [Request -> HandlerStates]
        /\ hpc[r] = "storing" /\ hpc'[r] = "stored"
        /\ \A q \in Request \ {r} : hpc'[q] = hpc[q]
    BY <1>3 DEF Create
  <2>5. \A q \in Request :
           /\ (tpc'[q] # "none") = IF via'[q] = "rest" THEN hpc'[q] # "new" ELSE hpc'[q] = "replied"
           /\ hpc'[q] = "counted" => via'[q] # "rest"
    BY <2>3, <2>4
  <2>. QED
    BY <2>1, <2>2, <2>3, <2>4, <2>5
<1>4. CASE CreateFails(r)
  <2>1. /\ DOMAIN executions \subseteq DOMAIN executions'
        /\ DOMAIN executions' \subseteq DOMAIN executions \cup {CreatedId(r)}
        /\ \A i \in DOMAIN executions' : executions'[i] \in ExecutionState
        /\ backend' = backend
    <3>1. (executions' = executions \/ executions' = Created(r)) /\ backend' = backend
      BY <1>4 DEF CreateFails
    <3>2. /\ DOMAIN Created(r) = DOMAIN executions \cup {CreatedId(r)}
          /\ \A i \in DOMAIN Created(r) : Created(r)[i] \in ExecutionState
      BY FilledIn
    <3>. QED
      BY <3>1, <3>2
  <2>2. /\ DOMAIN executions' \subseteq
             {CreatedId(q)' : q \in {p \in Request : hpc'[p] \in Stored \cup {"failed"}}}
        /\ \A q \in Request : hpc'[q] \in Stored => CreatedId(q)' \in DOMAIN executions'
    BY <1>4, <2>1 DEF CreateFails, CreatedId
  <2>. QED
    BY <1>4, <2>1, <2>2 DEF CreateFails
<1>5. CASE CountRest(r) \/ Count(r)
  <2>1. active_executions' \in 0 .. (GaugeModulus - 1)
    BY <1>5, ExecutionApiAssumption DEF CountRest, Count, Gauge
  <2>. QED
    BY <1>5, <2>1 DEF CountRest, Count, CreatedId
<1>6. CASE SpawnAndReply(r)
  BY <1>6 DEF SpawnAndReply, CreatedId
<1>. QED
  BY <1>1, <1>2, <1>3, <1>4, <1>5, <1>6 DEF HandlerStep

\* ... of a task, ...
LEMMA TypesOfTasks ==
  ASSUME TypeOK, NEW r \in Request, TaskStep(r)
  PROVE  TypeOK'
<1>. USE DEF TypeOK, Stored, HandlerStates, TaskStates, TaskAt
<1>1. CASE Execute(r)
  BY <1>1 DEF Execute, CreatedId
<1>2. CASE Uncount(r)
  <2>1. active_executions' \in 0 .. (GaugeModulus - 1)
    BY <1>2, ExecutionApiAssumption DEF Uncount, Gauge
  <2>. QED
    BY <1>2, <2>1 DEF Uncount, CreatedId
<1>3. CASE WriteOutcome(r)
  <2>1. executions' = executions \/ executions' = Updated(ClientId(r), outcome[r])
    BY <1>3 DEF WriteOutcome
  <2>2. outcome[r] \in ExecutionState
    BY <1>3 DEF WriteOutcome, ExecutionState
  <2>. QED
    BY <1>3, <2>1, <2>2, UpdatedRecord DEF WriteOutcome, CreatedId
<1>. QED
  BY <1>1, <1>2, <1>3 DEF TaskStep

\* ... and of a command.
LEMMA TypesOfCommands ==
  ASSUME TypeOK, NEW c \in Command,
         \/ CommandStep(c)
         \/ \E id \in DOMAIN executions :
              TakeSnapshot(c, id) \/ RollBack(c, id) \/ \E k \in Commands : Look(c, k, id)
  PROVE  TypeOK'
<1>. USE DEF TypeOK, Stored, SetCommand, CommandStates, Ended
<1>1. DOMAIN executions \subseteq Id
  BY IdsDiffer
<1>2. \A k \in Commands : Target(k) \in ExecutionState
  BY DEF Target, ExecutionState
<1>3. CASE Write(c)
  BY <1>2, <1>3, UpdatedRecord DEF Write, CreatedId
<1>4. CASE WriteFails(c)
  <2>1. executions' = executions \/ executions' = Updated(command[c].id, Target(command[c].kind))
    BY <1>4 DEF WriteFails
  <2>. QED
    BY <1>2, <1>4, <2>1, UpdatedRecord DEF WriteFails, CreatedId
<1>5. CASE UncountCancelled(c)
  <2>1. active_executions' \in 0 .. (GaugeModulus - 1)
    BY <1>5, ExecutionApiAssumption DEF UncountCancelled, Gauge
  <2>. QED
    BY <1>5, <2>1 DEF UncountCancelled, CreatedId
<1>6. ASSUME NEW id \in DOMAIN executions, TakeSnapshot(c, id)
      PROVE  TypeOK'
  BY <1>6 DEF TakeSnapshot, CreatedId
<1>7. ASSUME NEW id \in DOMAIN executions, RollBack(c, id)
      PROVE  TypeOK'
  BY <1>7, UpdatedRecord DEF RollBack, CreatedId
<1>8. ASSUME NEW id \in DOMAIN executions, NEW k \in Commands, Look(c, k, id)
      PROVE  TypeOK'
  BY <1>1, <1>8 DEF Look, CreatedId
<1>. QED
  BY <1>3, <1>4, <1>5, <1>6, <1>7, <1>8 DEF CommandStep

--------------------------------------------------------------------------------

\* The gauge stays exact where neither it nor what it counts changes, ...
LEMMA GaugeKept ==
  ASSUME GaugeExact, active_executions' = active_executions,
         CountedIn' = CountedIn, CountedOut' = CountedOut, CancelledOut' = CancelledOut
  PROVE  GaugeExact'
BY DEF GaugeExact, Balance

\* ... and where both change by as much.
LEMMA GaugeMoved ==
  ASSUME GaugeExact, NEW d \in Int, Gauge(d), Balance' = Balance + d
  PROVE  GaugeExact'
BY Counts, GaugeMoves DEF GaugeExact

\* The gauge is exact after the steps of a handler, ...
LEMMA GaugeOfHandlers ==
  ASSUME TypeOK, GaugeExact, NEW r \in Request, BeginRest(r) \/ Begin(r) \/ HandlerStep(r)
  PROVE  GaugeExact'
<1>. USE DEF HandlerAt, TaskAt
<1>1. hpc \in [Request -> HandlerStates] /\ tpc \in [Request -> TaskStates]
  BY DEF TypeOK
<1>2. CancelledOut' = CancelledOut /\ CountedOut' = CountedOut
  BY <1>1 DEF HandlerStep, BeginRest, Begin, Create, CreateFails, CountRest, Count, SpawnAndReply,
              CancelledOut, CountedOut
<1>3. CASE CountRest(r) \/ Count(r)
  <2>1. CountedIn' = CountedIn \cup {r} /\ r \notin CountedIn
    BY <1>1, <1>3 DEF CountRest, Count, CountedIn
  <2>2. Cardinality(CountedIn') = Cardinality(CountedIn) + 1
    BY <2>1, Counts, FS_AddElement
  <2>3. Balance' = Balance + 1
    BY <1>2, <2>2, Counts DEF Balance
  <2>. QED
    BY <1>3, <2>3, GaugeMoved DEF CountRest, Count
<1>4. CASE BeginRest(r) \/ Begin(r) \/ Create(r) \/ CreateFails(r) \/ SpawnAndReply(r)
  <2>1. CountedIn' = CountedIn
    BY <1>1, <1>4 DEF TypeOK, BeginRest, Begin, Create, CreateFails, SpawnAndReply, CountedIn
  <2>2. active_executions' = active_executions
    BY <1>4 DEF BeginRest, Begin, Create, CreateFails, SpawnAndReply
  <2>. QED
    BY <1>2, <2>1, <2>2, GaugeKept
<1>. QED
  BY <1>3, <1>4 DEF HandlerStep

\* ... of a task, ...
LEMMA GaugeOfTasks ==
  ASSUME TypeOK, GaugeExact, NEW r \in Request, TaskStep(r)
  PROVE  GaugeExact'
<1>. USE DEF TaskAt
<1>1. hpc \in [Request -> HandlerStates] /\ tpc \in [Request -> TaskStates]
  BY DEF TypeOK
<1>2. CancelledOut' = CancelledOut /\ CountedIn' = CountedIn
  BY DEF TaskStep, Execute, Uncount, WriteOutcome, CancelledOut, CountedIn
<1>3. CASE Uncount(r)
  <2>1. CountedOut' = CountedOut \cup {r} /\ r \notin CountedOut
    BY <1>1, <1>3 DEF Uncount, CountedOut
  <2>2. Cardinality(CountedOut') = Cardinality(CountedOut) + 1
    BY <2>1, Counts, FS_AddElement
  <2>3. Balance' = Balance + (0 - 1)
    BY <1>2, <2>2, Counts DEF Balance
  <2>. QED
    BY <1>3, <2>3, GaugeMoved DEF Uncount
<1>4. CASE Execute(r) \/ WriteOutcome(r)
  <2>1. CountedOut' = CountedOut /\ active_executions' = active_executions
    BY <1>1, <1>4 DEF Execute, WriteOutcome, CountedOut
  <2>. QED
    BY <1>2, <2>1, GaugeKept
<1>. QED
  BY <1>3, <1>4 DEF TaskStep

\* ... and of a command.
LEMMA GaugeOfCommands ==
  ASSUME TypeOK, GaugeExact, NEW c \in Command,
         \/ CommandStep(c)
         \/ \E id \in DOMAIN executions :
              TakeSnapshot(c, id) \/ RollBack(c, id) \/ \E k \in Commands : Look(c, k, id)
  PROVE  GaugeExact'
<1>. USE DEF SetCommand, Ended
<1>1. /\ command \in [Command -> [kind : Commands \cup {"none"}, id : Id \cup {NoId},
                                  saw : ExecutionState \cup {"none"}, pc : CommandStates]]
      /\ CountedIn' = CountedIn /\ CountedOut' = CountedOut
  BY DEF TypeOK, CommandStep, Write, WriteFails, UncountCancelled, TakeSnapshot, RollBack, Look,
         CountedIn, CountedOut
<1>2. CASE UncountCancelled(c)
  <2>1. CancelledOut' = CancelledOut \cup {c} /\ c \notin CancelledOut
    BY <1>1, <1>2 DEF UncountCancelled, CancelledOut
  <2>2. Cardinality(CancelledOut') = Cardinality(CancelledOut) + 1
    BY <2>1, Counts, FS_AddElement
  <2>3. Balance' = Balance + (0 - 1)
    BY <1>1, <2>2, Counts DEF Balance
  <2>. QED
    BY <1>2, <2>3, GaugeMoved DEF UncountCancelled
<1>3. CASE \/ Write(c) \/ WriteFails(c)
           \/ \E id \in DOMAIN executions :
                TakeSnapshot(c, id) \/ RollBack(c, id) \/ \E k \in Commands : Look(c, k, id)
  <2>1. active_executions' = active_executions
    BY <1>3 DEF Write, WriteFails, TakeSnapshot, RollBack, Look
  <2>2. CancelledOut' = CancelledOut
    BY <1>1, <1>3 DEF Write, WriteFails, TakeSnapshot, RollBack, Look, CancelledOut
  <2>. QED
    BY <1>1, <2>1, <2>2, GaugeKept
<1>. QED
  BY <1>2, <1>3 DEF CommandStep

--------------------------------------------------------------------------------

\* A copy is read in a state its command is allowed in, and kept as it is.
LEMMA CopiesStayAllowed ==
  ASSUME TypeOK, CopiesAllowed, [Next]_vars
  PROVE  CopiesAllowed'
<1>. USE DEF SetCommand, Ended, CopiesAllowed
<1>1. ASSUME command' = command
      PROVE  CopiesAllowed'
  BY <1>1
<1>2. CASE \E r \in Request : BeginRest(r) \/ Begin(r) \/ HandlerStep(r) \/ TaskStep(r)
  <2>1. command' = command
    BY <1>2 DEF HandlerStep, BeginRest, Begin, Create, CreateFails, CountRest, Count, SpawnAndReply,
                TaskStep, Execute, Uncount, WriteOutcome
  <2>. QED
    BY <1>1, <2>1
<1>3. ASSUME NEW c \in Command,
             \/ CommandStep(c)
             \/ \E id \in DOMAIN executions :
                  TakeSnapshot(c, id) \/ RollBack(c, id) \/ \E k \in Commands : Look(c, k, id)
      PROVE  CopiesAllowed'
  <2>1. \A d \in Command \ {c} : command'[d] = command[d]
    BY <1>3 DEF TypeOK, CommandStep, Write, WriteFails, UncountCancelled, TakeSnapshot, RollBack, Look
  <2>2. command'[c].pc = "looked" => command'[c].saw \in Allowed(command'[c].kind)
    BY <1>3 DEF TypeOK, CommandStep, Write, WriteFails, UncountCancelled, TakeSnapshot, RollBack, Look
  <2>. QED
    BY <2>1, <2>2
<1>4. CASE UNCHANGED vars
  BY <1>1, <1>4 DEF vars
<1>. QED
  BY <1>2, <1>3, <1>4 DEF Next

\* What OutcomesOwn says of one request.
OwnOutcome(r) ==
  \/ via[r] = "graphql" /\ tpc[r] = "done"
  \/ /\ CreatedId(r) \in DOMAIN executions =>
          executions[CreatedId(r)] \notin {"Completed", "Failed"}
     /\ \A s \in {"Completed", "Failed"} : <<CreatedId(r), s>> \notin snapshots

\* Handlers file records that run, ...
LEMMA OutcomesOfHandlers ==
  ASSUME TypeOK, OutcomesOwn, NEW r \in Request, BeginRest(r) \/ Begin(r) \/ HandlerStep(r)
  PROVE  OutcomesOwn'
<1>1. /\ backend' = backend /\ via' = via /\ snapshots' = snapshots
      /\ \A q \in Request : tpc[q] = "done" => tpc'[q] = "done"
      /\ executions' = executions \/ executions' = Created(r)
  BY DEF TypeOK, HandlerStep, BeginRest, Begin, Create, CreateFails, CountRest, Count, SpawnAndReply,
         HandlerAt, TaskAt
<1>2. ASSUME NEW q \in Request
      PROVE  OwnOutcome(q)'
  <2>1. OwnOutcome(q) /\ CreatedId(q)' = CreatedId(q)
    BY <1>1 DEF OutcomesOwn, OwnOutcome, CreatedId
  <2>2. CASE executions' = executions
    BY <1>1, <2>1, <2>2 DEF OwnOutcome
  <2>3. CASE executions' = Created(r)
    <3>1. ASSUME CreatedId(q) \in DOMAIN executions',
                 executions'[CreatedId(q)] \in {"Completed", "Failed"}
          PROVE  /\ CreatedId(q) \in DOMAIN executions
                 /\ executions[CreatedId(q)] = executions'[CreatedId(q)]
      BY <2>3, <3>1, CreatedRecord
    <3>2. \/ via[q] = "graphql" /\ tpc[q] = "done"
          \/ /\ CreatedId(q) \in DOMAIN executions' =>
                  executions'[CreatedId(q)] \notin {"Completed", "Failed"}
             /\ \A s \in {"Completed", "Failed"} : <<CreatedId(q), s>> \notin snapshots
      BY <2>1, <3>1 DEF OwnOutcome
    <3>. QED
      BY <1>1, <2>1, <3>2 DEF OwnOutcome
  <2>. QED
    BY <1>1, <2>2, <2>3
<1>. QED
  BY <1>2 DEF OutcomesOwn, OwnOutcome

\* ... a task writes the outcome of its own run, ...
LEMMA OutcomesOfTasks ==
  ASSUME TypeOK, OutcomesOwn, NEW r \in Request, TaskStep(r)
  PROVE  OutcomesOwn'
<1>1. /\ backend' = backend /\ via' = via /\ snapshots' = snapshots
      /\ \A q \in Request : tpc[q] = "done" => tpc'[q] = "done"
      /\ \/ executions' = executions
         \/ executions' = Updated(ClientId(r), outcome[r]) /\ tpc'[r] = "done"
  BY DEF TypeOK, TaskStep, Execute, Uncount, WriteOutcome, TaskAt
<1>2. ASSUME NEW q \in Request
      PROVE  OwnOutcome(q)'
  <2>1. OwnOutcome(q) /\ CreatedId(q)' = CreatedId(q)
    BY <1>1 DEF OutcomesOwn, OwnOutcome, CreatedId
  <2>2. CASE executions' = executions
    BY <1>1, <2>1, <2>2 DEF OwnOutcome
  <2>3. CASE /\ executions' = Updated(ClientId(r), outcome[r]) /\ tpc'[r] = "done"
             /\ q = r /\ via[r] = "graphql"
    BY <1>1, <2>3 DEF OwnOutcome
  <2>4. CASE /\ executions' = Updated(ClientId(r), outcome[r])
             /\ q # r \/ via[r] # "graphql"
    <3>1. CreatedId(q) # ClientId(r)
      BY <2>4, IdsDiffer DEF ClientId
    <3>. QED
      BY <1>1, <2>1, <2>4, <3>1, UpdatedRecord DEF OwnOutcome
  <2>. QED
    BY <1>1, <2>2, <2>3, <2>4
<1>. QED
  BY <1>2 DEF OutcomesOwn, OwnOutcome

\* ... and a command writes no outcome but one that was there before.
LEMMA OutcomesOfCommands ==
  ASSUME TypeOK, OutcomesOwn, NEW c \in Command,
         \/ CommandStep(c)
         \/ \E id \in DOMAIN executions :
              TakeSnapshot(c, id) \/ RollBack(c, id) \/ \E k \in Commands : Look(c, k, id)
  PROVE  OutcomesOwn'
<1>1. backend' = backend /\ via' = via /\ tpc' = tpc
  BY DEF CommandStep, Write, WriteFails, UncountCancelled, TakeSnapshot, RollBack, Look
<1>2. ASSUME NEW q \in Request
      PROVE  OwnOutcome(q)'
  <2>1. OwnOutcome(q) /\ CreatedId(q)' = CreatedId(q)
    BY <1>1 DEF OutcomesOwn, OwnOutcome, CreatedId
  <2>2. CASE executions' = executions /\ snapshots' = snapshots
    BY <1>1, <2>1, <2>2 DEF OwnOutcome
  <2>3. CASE /\ executions' = Updated(command[c].id, Target(command[c].kind))
             /\ snapshots' = snapshots
    BY <1>1, <2>1, <2>3, UpdatedRecord DEF OwnOutcome, Target
  <2>4. ASSUME NEW id \in DOMAIN executions, TakeSnapshot(c, id)
        PROVE  OwnOutcome(q)'
    BY <1>1, <2>1, <2>4 DEF OwnOutcome, TakeSnapshot
  <2>5. ASSUME NEW id \in DOMAIN executions, RollBack(c, id)
        PROVE  OwnOutcome(q)'
    <3>1. PICK s \in ExecutionState : <<id, s>> \in snapshots /\ executions' = Updated(id, s)
      BY <2>5 DEF RollBack
    <3>2. snapshots' = snapshots
      BY <2>5 DEF RollBack
    <3>. QED
      BY <1>1, <2>1, <3>1, <3>2, UpdatedRecord DEF OwnOutcome
  <2>. QED
    BY <2>2, <2>3, <2>4, <2>5 DEF CommandStep, Write, WriteFails, UncountCancelled, Look
<1>. QED
  BY <1>2 DEF OutcomesOwn, OwnOutcome

--------------------------------------------------------------------------------

\* A step that changes nothing keeps the types.
LEMMA TypesKept ==
  ASSUME TypeOK, UNCHANGED vars
  PROVE  TypeOK'
<1>1. DOMAIN executions' \subseteq
        {CreatedId(q)' : q \in {p \in Request : hpc'[p] \in Stored \cup {"failed"}}}
  BY DEF vars, TypeOK, CreatedId
<1>2. \A q \in Request : hpc'[q] \in Stored => CreatedId(q)' \in DOMAIN executions'
  BY DEF vars, TypeOK, CreatedId
<1>. QED
  BY <1>1, <1>2 DEF vars, TypeOK, Stored, HandlerStates, TaskStates, CommandStates

\* Every step keeps the invariant.
LEMMA AInvStep == AInv /\ [Next]_vars => AInv'
<1>. SUFFICES ASSUME AInv, [Next]_vars PROVE AInv'
  OBVIOUS
<1>. USE DEF AInv
<1>1. ASSUME NEW r \in Request, BeginRest(r) \/ Begin(r) \/ HandlerStep(r)
      PROVE  TypeOK' /\ GaugeExact' /\ OutcomesOwn'
  BY <1>1, TypesOfHandlers, GaugeOfHandlers, OutcomesOfHandlers
<1>2. ASSUME NEW r \in Request, TaskStep(r)
      PROVE  TypeOK' /\ GaugeExact' /\ OutcomesOwn'
  BY <1>2, TypesOfTasks, GaugeOfTasks, OutcomesOfTasks
<1>3. ASSUME NEW c \in Command,
             \/ CommandStep(c)
             \/ \E id \in DOMAIN executions :
                  TakeSnapshot(c, id) \/ RollBack(c, id) \/ \E k \in Commands : Look(c, k, id)
      PROVE  TypeOK' /\ GaugeExact' /\ OutcomesOwn'
  BY <1>3, TypesOfCommands, GaugeOfCommands, OutcomesOfCommands
<1>4. ASSUME UNCHANGED vars
      PROVE  TypeOK' /\ GaugeExact' /\ OutcomesOwn'
  <2>1. TypeOK'
    BY <1>4, TypesKept
  <2>2. GaugeExact'
    BY <1>4, GaugeKept DEF vars, CountedIn, CountedOut, CancelledOut
  <2>3. OutcomesOwn'
    BY <1>4 DEF vars, OutcomesOwn, CreatedId
  <2>. QED
    BY <2>1, <2>2, <2>3
<1>5. CopiesAllowed'
  BY CopiesStayAllowed
<1>. QED
  BY <1>1, <1>2, <1>3, <1>4, <1>5 DEF Next

LEMMA AInvHolds == Spec => []AInv
BY AInvInit, AInvStep, PTL DEF Spec

--------------------------------------------------------------------------------

(* Every variable keeps its type: the store holds nothing but what create  *)
(* filed, a spawned task is always there, and what commands and snapshots  *)
(* refer to is never lost.                                                 *)
THEOREM ExecutionApiTypes == Spec => []TypeOK
<1>1. AInv => TypeOK
  BY DEF AInv
<1>. QED
  BY <1>1, AInvHolds, PTL

(* With nothing in flight the gauge of active executions is off by exactly *)
(* the executions cancelled and the REST runs whose record could not be    *)
(* created: the runs and the executions cancel out, however their handlers *)
(* and tasks interleaved and whether or not the gauge wrapped on the way.  *)
THEOREM GaugeIsOffByCancellations == Spec => []GaugeDrift
<1>1. ASSUME AInv, AtRest
      PROVE  active_executions =
               (0 - Cardinality(CancelledOut) - Cardinality(RanUncounted)) % GaugeModulus
  <2>1. CountedOut = CountedIn \cup RanUncounted /\ CountedIn \cap RanUncounted = {}
    BY <1>1 DEF AInv, TypeOK, AtRest, CountedOut, CountedIn, RanUncounted
  <2>2. IsFiniteSet(RanUncounted) /\ Cardinality(RanUncounted) \in Nat
    <3>1. RanUncounted \subseteq Request
      BY DEF RanUncounted
    <3>. QED
      BY <3>1, FS_Subset, FS_CardinalityType, ExecutionApiAssumption
  <2>3. Cardinality(CountedOut) = Cardinality(CountedIn) + Cardinality(RanUncounted) - 0
    BY <2>1, <2>2, Counts, FS_Union, FS_EmptySet
  <2>4. Balance = 0 - Cardinality(CancelledOut) - Cardinality(RanUncounted)
    BY <2>2, <2>3, Counts DEF Balance
  <2>. QED
    BY <1>1, <2>4 DEF AInv, GaugeExact
<1>2. AInv => GaugeDrift
  BY <1>1 DEF GaugeDrift
<1>. QED
  BY <1>2, AInvHolds, PTL

\* The only records there are those that create filed.
LEMMA HandlerIdNeverStored ==
  ASSUME TypeOK, NEW r \in Request
  PROVE  IdOf(r, "handler") \notin DOMAIN executions
BY IdsDiffer DEF TypeOK

(* A finished record changes only by a command that read it before it was  *)
(* finished, by the outcome of its own run over a cancellation, or by a    *)
(* rollback to one of its own snapshots, for any number of commands.       *)
THEOREM LateWritersOnly == Spec => FinishedChangesByLateWriters
<1>1. ASSUME AInv, [Next]_vars, NEW i \in DOMAIN executions,
             executions[i] \in Final, executions'[i] # executions[i]
      PROVE  \/ \E c \in Command : /\ command[c].pc = "looked" /\ command[c].id = i
                                   /\ command[c].saw \notin Final
             \/ \E r \in Request : /\ i = ClientId(r)
                                   /\ tpc[r] = "uncounted"
                                   /\ executions[i] = "Cancelled"
             \/ <<i, executions'[i]>> \in snapshots
  <2>. USE <1>1 DEF AInv
  <2>1. ASSUME NEW r \in Request, BeginRest(r) \/ Begin(r) \/ HandlerStep(r)
        PROVE  FALSE
    <3>1. executions' = Created(r) /\ hpc[r] = "storing"
      BY <2>1 DEF HandlerStep, BeginRest, Begin, Create, CreateFails, CountRest, Count,
                  SpawnAndReply, HandlerAt
    <3>2. i # CreatedId(r)
      BY <3>1, NotYetThere
    <3>. QED
      BY <3>1, <3>2, CreatedRecord
  <2>2. ASSUME NEW r \in Request, TaskStep(r)
        PROVE  i = ClientId(r) /\ tpc[r] = "uncounted" /\ executions[i] = "Cancelled"
    <3>1. executions' = Updated(ClientId(r), outcome[r]) /\ tpc[r] = "uncounted"
      BY <2>2 DEF TaskStep, Execute, Uncount, WriteOutcome, TaskAt
    <3>2. i = ClientId(r)
      BY <3>1, UpdatedRecord
    <3>3. i = CreatedId(r)
      BY <3>2, HandlerIdNeverStored DEF ClientId
    <3>. QED
      BY <3>1, <3>2, <3>3 DEF OutcomesOwn, Final
  <2>3. ASSUME NEW c \in Command, Write(c) \/ WriteFails(c)
        PROVE  command[c].pc = "looked" /\ command[c].id = i /\ command[c].saw \notin Final
    <3>1. /\ command[c].pc = "looked"
          /\ executions' = Updated(command[c].id, Target(command[c].kind))
      BY <2>3 DEF Write, WriteFails, SetCommand
    <3>2. command[c].id = i
      BY <3>1, UpdatedRecord
    <3>3. command[c].saw \notin Final
      BY <3>1 DEF CopiesAllowed, Allowed, Final
    <3>. QED
      BY <3>1, <3>2, <3>3
  <2>4. ASSUME NEW c \in Command, NEW id \in DOMAIN executions, RollBack(c, id)
        PROVE  <<i, executions'[i]>> \in snapshots
    <3>1. PICK s \in ExecutionState : <<id, s>> \in snapshots /\ executions' = Updated(id, s)
      BY <2>4 DEF RollBack
    <3>. QED
      BY <3>1, UpdatedRecord
  <2>5. ASSUME NEW c \in Command,
               \/ UncountCancelled(c)
               \/ \E id \in DOMAIN executions :
                    TakeSnapshot(c, id) \/ \E k \in Commands : Look(c, k, id)
        PROVE  FALSE
    BY <2>5 DEF UncountCancelled, TakeSnapshot, Look
  <2>6. CASE UNCHANGED vars
    BY <2>6 DEF vars
  <2>. QED
    BY <2>1, <2>2, <2>3, <2>4, <2>5, <2>6 DEF Next, CommandStep
<1>2. AInv /\ [Next]_vars =>
        [\A i \in DOMAIN executions :
           /\ executions[i] \in Final
           /\ executions'[i] # executions[i]
           => \/ \E c \in Command : /\ command[c].pc = "looked" /\ command[c].id = i
                                    /\ command[c].saw \notin Final
              \/ \E r \in Request : /\ i = ClientId(r)
                                    /\ tpc[r] = "uncounted"
                                    /\ executions[i] = "Cancelled"
              \/ <<i, executions'[i]>> \in snapshots]_vars
  BY <1>1
<1>. QED
  BY <1>2, AInvHolds, PTL DEF Spec, FinishedChangesByLateWriters

--------------------------------------------------------------------------------
(* What GraphqlRunRecorded rests on, without fairness.                     *)

OutcomeIsWritten ==
  [][\A r \in Request :
       /\ via[r] = "graphql" /\ backend = "memory"
       /\ tpc[r] = "uncounted" /\ tpc'[r] = "done"
       => \E s \in Final : <<ClientId(r), s>> \in Records']_vars

(* The task of a run started by GraphQL ends by writing the outcome under  *)
(* the id its client holds: with the in-memory store update always finds   *)
(* the record, whatever commands and rollbacks have done to it.            *)
THEOREM GraphqlOutcomeWritten == Spec => OutcomeIsWritten
<1>1. ASSUME AInv, [Next]_vars, NEW r \in Request, via[r] = "graphql", backend = "memory",
             tpc[r] = "uncounted", tpc'[r] = "done"
      PROVE  \E s \in Final : <<ClientId(r), s>> \in Records'
  <2>. USE <1>1 DEF AInv
  <2>1. WriteOutcome(r)
    <3>1. ASSUME NEW q \in Request, BeginRest(q) \/ Begin(q) \/ HandlerStep(q) PROVE FALSE
      BY <3>1 DEF BeginRest, Begin, HandlerStep, Create, CreateFails, CountRest, Count,
         SpawnAndReply, TaskAt, TypeOK
    <3>2. ASSUME NEW q \in Request, TaskStep(q) PROVE WriteOutcome(r)
      <4>1. q = r
        BY <3>2 DEF TaskStep, Execute, Uncount, WriteOutcome, TaskAt, TypeOK
      <4>2. tpc' = [tpc EXCEPT ![r] = "done"] /\ tpc \in [Request -> TaskStates]
        BY <3>2, <4>1 DEF TaskStep, Execute, Uncount, WriteOutcome, TaskAt, TypeOK
      <4>. QED
        BY <3>2, <4>1, <4>2 DEF TaskStep, Execute, Uncount, TaskAt
    <3>3. ASSUME tpc' = tpc PROVE FALSE
      BY <3>3
    <3>. QED
      BY <3>1, <3>2, <3>3 DEF Next, CommandStep, Write, WriteFails, UncountCancelled,
         TakeSnapshot, RollBack, Look, vars
  <2>2. executions' = Updated(ClientId(r), outcome[r])
    BY <2>1 DEF WriteOutcome, Writes, MayFail
  <2>3. hpc[r] = "replied" /\ outcome[r] \in {"Completed", "Failed"}
    BY DEF TypeOK
  <2>4. ClientId(r) \in DOMAIN executions
    BY <2>3 DEF TypeOK, Stored, ClientId
  <2>5. ClientId(r) \in DOMAIN executions' /\ executions'[ClientId(r)] = outcome[r]
    BY <2>2, <2>4, UpdatedRecord
  <2>. QED
    BY <2>3, <2>5 DEF Records, Final
<1>2. AInv /\ [Next]_vars =>
        [\A r \in Request :
           /\ via[r] = "graphql" /\ backend = "memory"
           /\ tpc[r] = "uncounted" /\ tpc'[r] = "done"
           => \E s \in Final : <<ClientId(r), s>> \in Records']_vars
  BY <1>1
<1>. QED
  BY <1>2, AInvHolds, PTL DEF Spec, OutcomeIsWritten

================================================================================

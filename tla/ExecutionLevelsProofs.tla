-------------------------- MODULE ExecutionLevelsProofs --------------------------
(***************************************************************************)
(* Proofs about ExecutionLevels for every structure a workflow can have:   *)
(* the assumption that WorkflowExecution makes about its levels is what    *)
(* compute_execution_levels guarantees, from the cache or from the search. *)
(***************************************************************************)
EXTENDS ExecutionLevels, FiniteSetTheorems, WellFoundedInduction, TLAPS

--------------------------------------------------------------------------------
(* Sequences without repetition. *)

Distinct(q) == \A i, j \in DOMAIN q : q[i] = q[j] => i = j

\* Appending a new element keeps a sequence without repetition.
LEMMA AppendDistinct ==
  ASSUME NEW S, NEW q \in Seq(S), Distinct(q), NEW x \in S, x \notin ToSet(q)
  PROVE  /\ Append(q, x) \in Seq(S) /\ Distinct(Append(q, x))
         /\ ToSet(Append(q, x)) = ToSet(q) \cup {x}
<1> DEFINE r == Append(q, x)
<1>1. /\ r \in Seq(S) /\ Len(q) \in Nat /\ DOMAIN q = 1 .. Len(q)
      /\ DOMAIN r = 1 .. Len(q) + 1 /\ r[Len(q) + 1] = x
      /\ \A i \in 1 .. Len(q) : r[i] = q[i]
  OBVIOUS
<1>2. Distinct(r)
  BY <1>1 DEF Distinct, ToSet
<1>3. ASSUME NEW y \in ToSet(q) \cup {x} PROVE y \in ToSet(r)
  <2>1. CASE y = x
    BY <1>1, <2>1 DEF ToSet
  <2>2. CASE y \in ToSet(q)
    <3>1. PICK i \in 1 .. Len(q) : y = q[i]
      BY <1>1, <2>2 DEF ToSet
    <3>2. i \in DOMAIN r /\ r[i] = y
      BY <1>1, <3>1
    <3>. QED
      BY <3>2 DEF ToSet
  <2>. QED
    BY <1>3, <2>1, <2>2
<1>4. ASSUME NEW y \in ToSet(r) PROVE y \in ToSet(q) \cup {x}
  <2>1. PICK i \in 1 .. Len(q) + 1 : y = r[i]
    BY <1>1, <1>4 DEF ToSet
  <2>. QED
    BY <1>1, <2>1 DEF ToSet
<1>. QED
  BY <1>1, <1>2, <1>3, <1>4

\* A function on 1 .. c is a sequence.
LEMMA FunctionIsSequence ==
  ASSUME NEW S, NEW F \in SUBSET S, NEW c \in Nat, NEW q \in [1 .. c -> F]
  PROVE  q \in Seq(S) /\ DOMAIN q = 1 .. c /\ Len(q) = c
OBVIOUS

\* A sequence without repetition has as many elements as places.
LEMMA DistinctLength ==
  ASSUME NEW S, NEW q \in Seq(S), Distinct(q)
  PROVE  /\ IsFiniteSet(ToSet(q)) /\ Cardinality(ToSet(q)) = Len(q)
         /\ ToSet(q) \subseteq S
<1>1. Len(q) \in Nat /\ DOMAIN q = 1 .. Len(q) /\ q \in [1 .. Len(q) -> ToSet(q)]
      /\ ToSet(q) \subseteq S
  BY DEF ToSet
<1>2. q \in Surjection(1 .. Len(q), ToSet(q)) /\ q \in Injection(1 .. Len(q), ToSet(q))
  BY <1>1 DEF Surjection, Injection, IsInjective, ToSet, Distinct
<1>3. IsFiniteSet(1 .. Len(q)) /\ Cardinality(1 .. Len(q)) = Len(q)
  BY <1>1, FS_Interval
<1>. QED
  BY <1>1, <1>2, <1>3, FS_Surjection

--------------------------------------------------------------------------------
(* Levels that are valid as far as they go. *)

Sound(ls, s) ==
  /\ ls \in Seq(Seq(s.nodes))
  /\ \A l, m \in DOMAIN ls : \A i \in DOMAIN ls[l], j \in DOMAIN ls[m] :
       ls[l][i] = ls[m][j] => l = m /\ i = j
  /\ \A l \in DOMAIN ls : \A n \in ToSet(ls[l]) : \A e \in InEdges(s, n) :
       s.from[e] \in Earlier(ls, l)

\* A level of new nodes whose predecessors are all in the levels before keeps
\* the levels sound.
LEMMA AppendLevel ==
  ASSUME NEW s, NEW ls, Sound(ls, s), NEW q \in Seq(s.nodes), Distinct(q),
         ToSet(q) \cap Pushed(ls) = {},
         \A n \in ToSet(q) : \A e \in InEdges(s, n) : s.from[e] \in Pushed(ls)
  PROVE  /\ Sound(Append(ls, q), s)
         /\ Pushed(Append(ls, q)) = Pushed(ls) \cup ToSet(q)
<1> DEFINE r == Append(ls, q)
<1>1. /\ ls \in Seq(Seq(s.nodes)) /\ r \in Seq(Seq(s.nodes)) /\ Len(ls) \in Nat
      /\ DOMAIN ls = 1 .. Len(ls) /\ DOMAIN r = 1 .. Len(ls) + 1
      /\ r[Len(ls) + 1] = q /\ \A l \in 1 .. Len(ls) : r[l] = ls[l]
  BY DEF Sound
<1>2. Pushed(r) = Pushed(ls) \cup ToSet(q)
  <2>1. DOMAIN r = DOMAIN ls \cup {Len(ls) + 1} /\ \A l \in DOMAIN ls : r[l] = ls[l]
    BY <1>1
  <2>. QED
    BY <1>1, <2>1 DEF Pushed
<1>3. ASSUME NEW l \in DOMAIN r, NEW m \in DOMAIN r, NEW i \in DOMAIN r[l], NEW j \in DOMAIN r[m],
             r[l][i] = r[m][j]
      PROVE  l = m /\ i = j
  <2>1. CASE l \in DOMAIN ls /\ m \in DOMAIN ls
    BY <1>1, <1>3, <2>1 DEF Sound
  <2>2. CASE l \notin DOMAIN ls /\ m \notin DOMAIN ls
    BY <1>1, <1>3, <2>2 DEF Distinct
  <2>3. CASE l \in DOMAIN ls /\ m \notin DOMAIN ls
    <3>1. r[l][i] \in Pushed(ls) /\ r[m][j] \in ToSet(q)
      BY <1>1, <2>3 DEF Pushed, ToSet
    <3>. QED
      BY <1>3, <3>1
  <2>4. CASE l \notin DOMAIN ls /\ m \in DOMAIN ls
    <3>1. r[m][j] \in Pushed(ls) /\ r[l][i] \in ToSet(q)
      BY <1>1, <2>4 DEF Pushed, ToSet
    <3>. QED
      BY <1>3, <3>1
  <2>. QED
    BY <2>1, <2>2, <2>3, <2>4
<1>4. ASSUME NEW l \in DOMAIN r, NEW n \in ToSet(r[l]), NEW e \in InEdges(s, n)
      PROVE  s.from[e] \in Earlier(r, l)
  <2>1. CASE l \in DOMAIN ls
    <3>1. s.from[e] \in Earlier(ls, l)
      BY <1>1, <2>1 DEF Sound
    <3>2. PICK m \in DOMAIN ls : m < l /\ s.from[e] \in ToSet(ls[m])
      BY <3>1 DEF Earlier
    <3>3. m \in DOMAIN r /\ r[m] = ls[m]
      BY <1>1
    <3>. QED
      BY <3>2, <3>3 DEF Earlier
  <2>2. CASE l = Len(ls) + 1
    <3>1. s.from[e] \in Pushed(ls)
      BY <1>1, <2>2
    <3>2. PICK m \in DOMAIN ls : s.from[e] \in ToSet(ls[m])
      BY <3>1 DEF Pushed
    <3>3. m \in DOMAIN r /\ r[m] = ls[m] /\ m < l
      BY <1>1, <2>2
    <3>. QED
      BY <3>2, <3>3 DEF Earlier
  <2>. QED
    BY <1>1, <2>1, <2>2
<1>. QED
  BY <1>1, <1>2, <1>3, <1>4 DEF Sound

\* What a structure's predecessors are.
LEMMA Predecessors ==
  ASSUME NEW s \in Structures
  PROVE  /\ PredsOf(s) \in [s.nodes -> SUBSET s.nodes]
         /\ \A n \in s.nodes : PredsOf(s)[n] = {s.from[e] : e \in InEdges(s, n)}
<1>1. \A n \in s.nodes : {s.from[e] : e \in InEdges(s, n)} \in SUBSET s.nodes
  BY StructuresAssumption DEF InEdges
<1>. QED
  BY <1>1 DEF PredsOf

\* Valid levels are sound ones that hold every node.
LEMMA ValidIsSound ==
  ASSUME NEW s \in Structures, NEW ls
  PROVE  Valid(ls, s) <=> Sound(ls, s) /\ s.nodes \subseteq Pushed(ls)
<1>1. ASSUME ls \in Seq(Seq(s.nodes)), NEW l \in DOMAIN ls, NEW n \in ToSet(ls[l])
      PROVE  n \in s.nodes
  BY <1>1 DEF ToSet
<1>2. ASSUME ls \in Seq(Seq(s.nodes))
      PROVE  (\A l \in DOMAIN ls : \A n \in ToSet(ls[l]) : PredsOf(s)[n] \subseteq Earlier(ls, l))
             <=> (\A l \in DOMAIN ls : \A n \in ToSet(ls[l]) : \A e \in InEdges(s, n) :
                    s.from[e] \in Earlier(ls, l))
  BY <1>1, <1>2, Predecessors
<1>3. s.nodes \subseteq Pushed(ls)
        <=> \A n \in s.nodes : \E l \in DOMAIN ls : n \in ToSet(ls[l])
  BY DEF Pushed
<1>. QED
  BY <1>2, <1>3, Predecessors DEF Valid, Layered, Sound

\* The edges of g that p stands for.
Joining(g, p) == {e \in g.edges : <<g.from[e], g.to[e]>> = p}

\* Two structures with the same hash have the same edges, but for their names: ...
LEMMA EdgesAgree ==
  ASSUME NEW s \in Structures, NEW t \in Structures, Hash(s) = Hash(t), NEW e \in s.edges
  PROVE  \E f \in t.edges : t.from[f] = s.from[e] /\ t.to[f] = s.to[e]
<1> DEFINE p == <<s.from[e], s.to[e]>>
<1>1. s.nodes = t.nodes
  BY DEF Hash
<1>2. p \in s.nodes \X s.nodes /\ e \in Joining(s, p)
  BY StructuresAssumption DEF Joining
<1>3. Cardinality(Joining(s, p)) = Cardinality(Joining(t, p))
  <2>1. Hash(s).edges[p] = Hash(t).edges[p]
    OBVIOUS
  <2>. QED
    BY <1>1, <1>2, <2>1 DEF Hash, Joining
<1>4. IsFiniteSet(Joining(s, p)) /\ IsFiniteSet(Joining(t, p))
  BY StructuresAssumption, FS_Subset DEF Joining
<1>5. Cardinality(Joining(s, p)) # 0
  BY <1>2, <1>4, FS_EmptySet
<1>6. Joining(t, p) # {}
  BY <1>3, <1>4, <1>5, FS_EmptySet
<1>. QED
  BY <1>6 DEF Joining

\* ... a predecessor in the one is a predecessor in the other.
LEMMA PredecessorsAgree ==
  ASSUME NEW s \in Structures, NEW t \in Structures, Hash(s) = Hash(t), NEW n \in s.nodes
  PROVE  n \in t.nodes /\ PredsOf(s)[n] \subseteq PredsOf(t)[n]
<1>1. n \in t.nodes
  BY DEF Hash
<1>2. ASSUME NEW p \in PredsOf(s)[n] PROVE p \in PredsOf(t)[n]
  <2>1. PICK e \in InEdges(s, n) : p = s.from[e]
    BY Predecessors
  <2>2. e \in s.edges /\ s.to[e] = n
    BY DEF InEdges
  <2>3. PICK f \in t.edges : t.from[f] = p /\ t.to[f] = n
    BY <2>1, <2>2, EdgesAgree
  <2>4. f \in InEdges(t, n)
    BY <2>3 DEF InEdges
  <2>. QED
    BY <1>1, <2>3, <2>4, Predecessors
<1>. QED
  BY <1>1, <1>2

\* So they have the same nodes and predecessors, all that levels are made of.
LEMMA HashDecides ==
  ASSUME NEW s \in Structures, NEW t \in Structures, Hash(s) = Hash(t)
  PROVE  s.nodes = t.nodes /\ PredsOf(s) = PredsOf(t)
<1>1. s.nodes = t.nodes
  BY DEF Hash
<1>2. ASSUME NEW n \in s.nodes PROVE PredsOf(s)[n] = PredsOf(t)[n]
  <2>1. PredsOf(s)[n] \subseteq PredsOf(t)[n]
    BY PredecessorsAgree
  <2>2. n \in t.nodes /\ Hash(t) = Hash(s)
    BY <1>1
  <2>3. PredsOf(t)[n] \subseteq PredsOf(s)[n]
    BY <2>2, PredecessorsAgree
  <2>. QED
    BY <2>1, <2>3
<1>3. /\ PredsOf(s) = [n \in s.nodes |-> PredsOf(s)[n]]
      /\ PredsOf(t) = [n \in s.nodes |-> PredsOf(t)[n]]
  BY <1>1, Predecessors
<1>. QED
  BY <1>1, <1>2, <1>3

--------------------------------------------------------------------------------
(* The inductive invariant of the search. *)

\* TypeOK with the in-degrees as integers: that they stay natural is proved last.
Types ==
  /\ Cached \subseteq Workflow
  /\ wf \in Workflow /\ str \in Structures
  /\ pc \in {"idle", "lookup", "build", "search", "relax"}
  /\ in_degree \in [str.nodes -> Int]
  /\ queue \in Seq(str.nodes) /\ next_queue \in Seq(str.nodes)
  /\ relaxing \subseteq str.edges
  /\ levels \in Seq(Seq(str.nodes))
  /\ processed \in Nat
  /\ answer.kind \in {"none", "CycleDetected", "levels"}

\* The edges to n that the search has not followed yet.
Left(n) ==
  {e \in InEdges(str, n) : str.from[e] \notin Pushed(levels) \/ e \in relaxing}

\* The level that is being collected.
Collected == IF pc = "relax" THEN next_queue ELSE queue

\* What the search knows between two of its steps: an in-degree counts the edges
\* not followed yet, and the nodes at 0 are those pushed or being collected.
Searching ==
  /\ relaxing \subseteq OutEdges(str, Pushed(levels))
  /\ pc = "search" => relaxing = {}
  /\ \A n \in str.nodes : in_degree[n] = Cardinality(Left(n))
  /\ \A n \in str.nodes : in_degree[n] = 0 <=> n \in Pushed(levels) \cup ToSet(Collected)
  /\ Pushed(levels) \cap ToSet(Collected) = {}
  /\ Distinct(Collected)
  /\ Sound(levels, str)
  /\ Pushed(levels) \subseteq str.nodes
  /\ processed = Cardinality(Pushed(levels))

\* The fields of a call that has not built its graph yet.
Starting ==
  /\ levels = <<>> /\ relaxing = {} /\ processed = 0
  /\ in_degree = [n \in str.nodes |-> 0]

\* The invariant: the cache and the answer are part of it, because a lookup takes
\* its answer from the cache.
LInv ==
  /\ Types
  /\ pc \in {"lookup", "build"} => Starting
  /\ pc \in {"search", "relax"} => Searching
  /\ CacheValid
  /\ AnswerValid

\* The structure of the call, as the leaves use it.
LEMMA Structure ==
  ASSUME Types
  PROVE  /\ str \in Structures /\ IsFiniteSet(str.nodes) /\ IsFiniteSet(str.edges)
         /\ str.from \in [str.edges -> str.nodes] /\ str.to \in [str.edges -> str.nodes]
         /\ \A n : IsFiniteSet(Left(n)) /\ Cardinality(Left(n)) \in Nat
<1>1. str \in Structures /\ IsFiniteSet(str.nodes) /\ IsFiniteSet(str.edges)
      /\ str.from \in [str.edges -> str.nodes] /\ str.to \in [str.edges -> str.nodes]
  BY StructuresAssumption DEF Types
<1>2. \A n : Left(n) \in SUBSET str.edges
  BY DEF Left, InEdges
<1>. QED
  BY <1>1, <1>2, FS_Subset, FS_CardinalityType

\* Nothing is pushed by no level.
LEMMA NoLevels ==
  ASSUME NEW s PROVE Pushed(<<>>) = {} /\ Sound(<<>>, s)
<1>1. DOMAIN <<>> = {} /\ <<>> \in Seq(Seq(s.nodes))
  OBVIOUS
<1>. QED
  BY <1>1 DEF Pushed, Sound

--------------------------------------------------------------------------------
(* The steps. *)

\* A plan that is valid for its structure can be put.
LEMMA PutKeepsValid ==
  ASSUME CacheValid, Cached \subseteq Workflow, NEW w \in Workflow,
         NEW s \in Structures, NEW ls, Valid(ls, s), cache' \in Put(w, Plan(s, ls))
  PROVE  CacheValid' /\ Cached' \subseteq Workflow
<1>1. PICK k : cache' = Replaced(k, w, Plan(s, ls))
  BY DEF Put
<1>2. /\ DOMAIN cache' = (DOMAIN cache \ {k}) \cup {w}
      /\ cache'[w] = Plan(s, ls)
      /\ \A x \in DOMAIN cache' \ {w} : x \in DOMAIN cache /\ cache'[x] = cache[x]
  BY <1>1 DEF Replaced, Cached
<1>3. ASSUME NEW x \in DOMAIN cache', NEW t \in Structures, cache'[x].hash = Hash(t)
      PROVE  Valid(cache'[x].levels, t)
  <2>1. CASE x = w
    BY <1>2, <1>3, <2>1, HashDecides DEF Plan, Valid
  <2>2. CASE x # w
    BY <1>2, <1>3, <2>2 DEF CacheValid, Cached
  <2>. QED
    BY <2>1, <2>2
<1>. QED
  BY <1>2, <1>3 DEF CacheValid, Cached

\* The search starts with the nodes that have no predecessors.
LEMMA BuildStep == ASSUME LInv, Build PROVE Types' /\ Searching'
<1>1. /\ Types /\ Starting /\ pc' = "search" /\ in_degree' = Degrees(str)
      /\ queue' \in Orders({n \in str.nodes : in_degree'[n] = 0})
      /\ UNCHANGED <<cache, answer, wf, str, relaxing, next_queue, levels, processed>>
  BY DEF LInv, Build
<1> DEFINE Free == {n \in str.nodes : in_degree'[n] = 0}
<1>2. /\ queue' \in [1 .. Cardinality(Free) -> Free] /\ ToSet(queue') = Free
      /\ IsFiniteSet(Free) /\ Cardinality(Free) \in Nat
  BY <1>1, Structure, FS_Subset, FS_CardinalityType DEF Orders
<1>3. queue' \in Seq(str.nodes) /\ DOMAIN queue' = 1 .. Cardinality(Free)
      /\ Len(queue') = Cardinality(Free)
  <2>1. Free \in SUBSET str.nodes
    OBVIOUS
  <2> HIDE DEF Free
  <2>. QED
    BY <1>2, <2>1, FunctionIsSequence
<1>4. Distinct(queue')
  <2>1. queue' \in Surjection(1 .. Cardinality(Free), Free)
    BY <1>2, <1>3 DEF Surjection, ToSet
  <2>2. IsFiniteSet(1 .. Cardinality(Free))
        /\ Cardinality(1 .. Cardinality(Free)) = Cardinality(Free)
    BY <1>2, FS_Interval
  <2>3. queue' \in Injection(1 .. Cardinality(Free), Free)
    BY <2>1, <2>2, FS_Surjection
  <2>. QED
    BY <1>3, <2>3 DEF Injection, IsInjective, Distinct
<1>5. levels' = <<>> /\ relaxing' = {} /\ Pushed(levels') = {} /\ processed' = 0
  BY <1>1, NoLevels DEF Starting
<1>6. \A n \in str.nodes : InEdges(str, n)
        = {e \in InEdges(str, n) : str.from[e] \notin Pushed(levels') \/ e \in relaxing'}
  BY <1>5
<1>7. \A n \in str.nodes : /\ in_degree'[n] = Cardinality(InEdges(str, n))
                            /\ in_degree'[n] \in Nat
  BY <1>1, Structure, FS_Subset, FS_CardinalityType DEF Degrees, InEdges
<1>8. Types'
  <2>1. in_degree' \in [str.nodes -> Int]
    BY <1>1, <1>7 DEF Degrees
  <2>. QED
    BY <1>1, <1>3, <2>1 DEF Types, Cached
<1>9. Searching'
  <2>1. Collected' = queue'
    BY <1>1 DEF Collected
  <2>2. \A n \in str.nodes : in_degree'[n] = 0 <=> n \in Pushed(levels') \cup ToSet(queue')
    BY <1>2, <1>5
  <2>3. \A n \in str.nodes : in_degree'[n] = Cardinality(Left(n)')
    BY <1>1, <1>6, <1>7 DEF Left
  <2>4. Sound(levels', str) /\ Cardinality(Pushed(levels')) = 0
    BY <1>5, NoLevels, FS_EmptySet
  <2>. QED
    BY <1>1, <1>4, <1>5, <2>1, <2>2, <2>3, <2>4 DEF Searching
<1>. QED
  BY <1>8, <1>9

\* The nodes of the queue can be pushed: no edge to them is left.
LEMMA PushLevelStep == ASSUME LInv, PushLevel PROVE Types' /\ Searching'
<1>1. /\ Types /\ Searching /\ pc = "search" /\ pc' = "relax"
      /\ levels' = Append(levels, queue) /\ relaxing = {} /\ next_queue' = <<>>
      /\ relaxing' = OutEdges(str, ToSet(queue)) /\ processed' = processed + Len(queue)
      /\ UNCHANGED <<cache, answer, wf, str, in_degree, queue>>
  BY DEF LInv, PushLevel, Searching
<1>2. /\ Distinct(queue) /\ Pushed(levels) \cap ToSet(queue) = {}
      /\ \A n \in str.nodes : in_degree[n] = 0 <=> n \in Pushed(levels) \cup ToSet(queue)
      /\ queue \in Seq(str.nodes) /\ ToSet(queue) \subseteq str.nodes
  BY <1>1, DistinctLength DEF Searching, Collected, Types
<1>3. ASSUME NEW n \in ToSet(queue), NEW e \in InEdges(str, n)
      PROVE  str.from[e] \in Pushed(levels)
  <2>1. n \in str.nodes /\ Cardinality(Left(n)) = 0
    BY <1>1, <1>2 DEF Searching
  <2>2. Left(n) = {}
    BY <1>1, <2>1, Structure, FS_EmptySet
  <2>. QED
    BY <2>2 DEF Left
<1>4. Sound(levels', str) /\ Pushed(levels') = Pushed(levels) \cup ToSet(queue)
  <2>1. Sound(levels, str)
    BY <1>1 DEF Searching
  <2>. QED
    BY <1>1, <1>2, <1>3, <2>1, AppendLevel
<1>5. \A n : Left(n)' = Left(n)
  <2>1. relaxing' = {e \in str.edges : str.from[e] \in ToSet(queue)}
    BY <1>1 DEF OutEdges
  <2>. QED
    BY <1>1, <1>2, <1>4, <2>1 DEF Left, InEdges
<1>6. processed' = Cardinality(Pushed(levels')) /\ processed' \in Nat
  <2>1. IsFiniteSet(Pushed(levels)) /\ processed = Cardinality(Pushed(levels))
        /\ processed \in Nat
    BY <1>1, Structure, FS_Subset DEF Searching, Types
  <2>2. IsFiniteSet(ToSet(queue)) /\ Cardinality(ToSet(queue)) = Len(queue)
        /\ Len(queue) \in Nat
    BY <1>2, DistinctLength
  <2>3. Cardinality(Pushed(levels) \cap ToSet(queue)) = 0
    BY <1>2, FS_EmptySet
  <2>4. Cardinality(Pushed(levels) \cup ToSet(queue))
          = processed + Len(queue) - Cardinality(Pushed(levels) \cap ToSet(queue))
    BY <2>1, <2>2, FS_Union
  <2>. QED
    BY <1>1, <1>4, <2>1, <2>2, <2>3, <2>4
<1>7. Types'
  BY <1>1, <1>4, <1>6 DEF Types, Sound, OutEdges, Cached
<1>8. Searching'
  <2>1. Collected' = <<>> /\ ToSet(<<>>) = {} /\ Distinct(<<>>)
    BY <1>1 DEF Collected, ToSet, Distinct
  <2>2. relaxing' \subseteq OutEdges(str, Pushed(levels'))
    BY <1>1, <1>4 DEF OutEdges
  <2>3. \A n \in str.nodes : in_degree'[n] = Cardinality(Left(n)')
    BY <1>1, <1>5 DEF Searching
  <2>4. Pushed(levels') \subseteq str.nodes
    BY <1>1, <1>2, <1>4 DEF Searching
  <2>. QED
    BY <1>1, <1>2, <1>4, <1>6, <2>1, <2>2, <2>3, <2>4 DEF Searching
<1>. QED
  BY <1>7, <1>8

\* One edge less is left to its target, and to no other node.
LEMMA RelaxStep ==
  ASSUME LInv, NEW e \in relaxing, Relax(e) PROVE Types' /\ Searching'
<1> DEFINE t == str.to[e]
<1>1. /\ Types /\ Searching /\ pc = "relax" /\ pc' = pc /\ relaxing' = relaxing \ {e}
      /\ in_degree' = [in_degree EXCEPT ![t] = @ - 1]
      /\ next_queue' = IF in_degree'[t] = 0 THEN Append(next_queue, t) ELSE next_queue
      /\ UNCHANGED <<cache, answer, wf, str, queue, levels, processed>>
  BY DEF LInv, Relax
<1>2. e \in str.edges /\ t \in str.nodes /\ str.from[e] \in Pushed(levels)
  BY <1>1, Structure DEF Searching, OutEdges
<1>3. e \in Left(t) /\ Left(t)' = Left(t) \ {e}
      /\ \A n \in str.nodes \ {t} : Left(n)' = Left(n)
  BY <1>1, <1>2 DEF Left, InEdges
<1>4. Cardinality(Left(t)') = Cardinality(Left(t)) - 1 /\ Cardinality(Left(t)) \in Nat
  <2>1. IsFiniteSet(Left(t)) /\ Cardinality(Left(t)) \in Nat
    BY <1>1, Structure
  <2>2. Cardinality(Left(t) \ {e}) = Cardinality(Left(t)) - 1
    BY <1>3, <2>1, FS_RemoveElement
  <2>. QED
    BY <1>3, <2>1, <2>2
<1>5. /\ in_degree'[t] = in_degree[t] - 1 /\ in_degree[t] \in Int
      /\ \A n \in str.nodes \ {t} : in_degree'[n] = in_degree[n]
      /\ in_degree' \in [str.nodes -> Int]
  BY <1>1, <1>2 DEF Types
<1>6. \A n \in str.nodes : in_degree'[n] = Cardinality(Left(n)')
  BY <1>1, <1>2, <1>3, <1>4, <1>5 DEF Searching
<1>7. /\ Distinct(next_queue) /\ next_queue \in Seq(str.nodes)
      /\ Pushed(levels) \cap ToSet(next_queue) = {}
      /\ \A n \in str.nodes :
           in_degree[n] = 0 <=> n \in Pushed(levels) \cup ToSet(next_queue)
  BY <1>1 DEF Searching, Collected, Types
<1>8. t \notin Pushed(levels) /\ t \notin ToSet(next_queue)
  <2>1. Left(t) # {} /\ IsFiniteSet(Left(t))
    BY <1>1, <1>3, Structure
  <2>2. in_degree[t] # 0
    BY <1>1, <1>2, <2>1, FS_EmptySet DEF Searching
  <2>. QED
    BY <1>2, <1>7, <2>2
<1>9. /\ next_queue' \in Seq(str.nodes) /\ Distinct(next_queue')
      /\ ToSet(next_queue') =
           IF in_degree'[t] = 0 THEN ToSet(next_queue) \cup {t} ELSE ToSet(next_queue)
  <2>1. CASE in_degree'[t] = 0
    <3>1. next_queue' = Append(next_queue, t)
      BY <1>1, <2>1
    <3> HIDE DEF t
    <3>2. /\ Append(next_queue, t) \in Seq(str.nodes) /\ Distinct(Append(next_queue, t))
          /\ ToSet(Append(next_queue, t)) = ToSet(next_queue) \cup {t}
      BY <1>2, <1>7, <1>8, AppendDistinct
    <3>. QED
      BY <2>1, <3>1, <3>2
  <2>2. CASE in_degree'[t] # 0
    BY <1>1, <1>7, <2>2
  <2>. QED
    BY <2>1, <2>2
<1>10. Types'
  BY <1>1, <1>5, <1>9 DEF Types, Cached
<1>11. Searching'
  <2>1. Collected' = next_queue' /\ levels' = levels
    BY <1>1 DEF Collected
  <2>2. \A n \in str.nodes :
          in_degree'[n] = 0 <=> n \in Pushed(levels) \cup ToSet(next_queue')
    BY <1>2, <1>5, <1>7, <1>8, <1>9
  <2>3. Pushed(levels) \cap ToSet(next_queue') = {}
    BY <1>7, <1>8, <1>9
  <2>. QED
    BY <1>1, <1>6, <1>9, <2>1, <2>2, <2>3 DEF Searching
<1>. QED
  BY <1>10, <1>11

\* What was collected becomes the queue: nothing the search knows changes.
LEMMA NextLevelStep == ASSUME LInv, NextLevel PROVE Types' /\ Searching'
<1>1. /\ Types /\ Searching /\ pc = "relax" /\ pc' = "search" /\ queue' = next_queue
      /\ relaxing = {}
      /\ UNCHANGED <<cache, answer, wf, str, in_degree, relaxing, next_queue, levels, processed>>
  BY DEF LInv, NextLevel
<1>2. Collected' = Collected /\ \A n : Left(n)' = Left(n)
  BY <1>1 DEF Collected, Left
<1>3. Types'
  BY <1>1 DEF Types, Cached
<1>4. Searching'
  BY <1>1, <1>2 DEF Searching
<1>. QED
  BY <1>3, <1>4

\* A search that has processed as many nodes as there are has valid levels.
LEMMA FinishStep == ASSUME LInv, Finish PROVE LInv'
<1>1. /\ Types /\ Searching /\ CacheValid /\ pc' = "idle"
      /\ UNCHANGED <<wf, str, in_degree, queue, relaxing, next_queue, levels, processed>>
      /\ \/ answer' = CycleDetected /\ cache' = cache
         \/ /\ processed = Cardinality(str.nodes)
            /\ cache' \in Put(wf, Plan(str, levels)) /\ answer' = Levels(levels)
  BY DEF LInv, Finish, callVars
<1>2. CASE answer' = CycleDetected /\ cache' = cache
  BY <1>1, <1>2 DEF LInv, Types, Cached, CacheValid, AnswerValid, CycleDetected
<1>3. CASE /\ processed = Cardinality(str.nodes)
           /\ cache' \in Put(wf, Plan(str, levels)) /\ answer' = Levels(levels)
  <2>1. Pushed(levels) = str.nodes
    BY <1>1, <1>3, Structure, FS_Subset DEF Searching
  <2>2. Valid(levels, str)
    BY <1>1, <2>1, ValidIsSound DEF Searching, Types
  <2>3. CacheValid' /\ Cached' \subseteq Workflow
    BY <1>1, <1>3, <2>2, PutKeepsValid DEF Types
  <2>. QED
    BY <1>1, <1>3, <2>2, <2>3 DEF LInv, Types, AnswerValid, Levels
<1>. QED
  BY <1>1, <1>2, <1>3

\* Every step keeps the invariant, also the puts of the other executions.
LEMMA LInvStep == ASSUME LInv, [Next]_vars PROVE LInv'
<1>1. ASSUME NEW w \in Workflow, NEW s \in Structures, Call(w, s) PROVE LInv'
  BY <1>1 DEF LInv, Call, Types, Starting, CacheValid, Cached, AnswerValid, Nothing
<1>2. CASE Lookup
  <2>1. /\ pc = "lookup" /\ Types /\ Starting /\ CacheValid
        /\ UNCHANGED <<cache, wf, str, in_degree, queue, relaxing, next_queue, levels, processed>>
        /\ \/ /\ wf \in Cached /\ cache[wf].hash = Hash(str) /\ pc' = "idle"
              /\ answer' = Levels(cache[wf].levels)
           \/ pc' = "build" /\ answer' = answer
    BY <1>2 DEF LInv, Lookup, callVars
  <2>2. Types' /\ Starting' /\ CacheValid'
    BY <2>1 DEF Types, Starting, CacheValid, Cached, Levels
  <2>3. AnswerValid'
    <3>1. CASE answer' = answer
      BY <2>1, <3>1 DEF LInv, AnswerValid
    <3>2. CASE /\ wf \in Cached /\ cache[wf].hash = Hash(str)
               /\ answer' = Levels(cache[wf].levels)
      <4>1. Valid(cache[wf].levels, str)
        BY <2>1, <3>2 DEF CacheValid, Types
      <4>. QED
        BY <2>1, <3>2, <4>1 DEF AnswerValid, Levels
    <3>. QED
      BY <2>1, <3>1, <3>2
  <2>. QED
    BY <2>1, <2>2, <2>3 DEF LInv
<1>3. CASE Build \/ PushLevel \/ (\E e \in relaxing : Relax(e)) \/ NextLevel
  <2>1. Types' /\ Searching'
    BY <1>3, BuildStep, PushLevelStep, RelaxStep, NextLevelStep
  <2>2. UNCHANGED <<cache, answer, str>> /\ pc' \in {"search", "relax"}
    BY <1>3 DEF Build, PushLevel, Relax, NextLevel
  <2>. QED
    BY <2>1, <2>2 DEF LInv, CacheValid, Cached, AnswerValid
<1>4. CASE Finish
  BY <1>4, FinishStep
<1>5. ASSUME NEW w \in Workflow, NEW k \in Known, Other(w, k) PROVE LInv'
  <2>1. k.str \in Structures /\ Valid(k.levels, k.str) /\ cache' \in Put(w, Plan(k.str, k.levels))
        /\ UNCHANGED <<pc, answer, wf, str, in_degree, queue, relaxing, next_queue, levels, processed>>
    BY <1>5, KnownAssumption DEF Other, callVars, Exact
  <2>2. CacheValid' /\ Cached' \subseteq Workflow
    BY <2>1, PutKeepsValid DEF LInv, Types
  <2>. QED
    BY <2>1, <2>2 DEF LInv, Types, Starting, Searching, Left, Collected, AnswerValid
<1>6. CASE UNCHANGED vars
  BY <1>6 DEF vars, callVars, LInv, Types, Starting, Searching, Left, Collected, AnswerValid,
              CacheValid, Cached
<1>. QED
  BY <1>1, <1>2, <1>3, <1>4, <1>5, <1>6 DEF Next, Search

\* The initial states satisfy the invariant.
LEMMA LInvInit == ASSUME Init PROVE LInv
<1>1. Cached = {}
  BY DEF Init, Cached
<1>2. Types
  BY <1>1 DEF Init, Types, Nothing
<1>. QED
  BY <1>1, <1>2 DEF Init, LInv, CacheValid, AnswerValid, Nothing

\* What WorkflowExecution assumes of its Levels holds of every plan a call
\* returns, computed or cached, whatever the structure.
THEOREM LevelsAreValid == Spec => []AnswerValid
<1>1. Init => LInv
  BY LInvInit
<1>2. LInv /\ [Next]_vars => LInv'
  BY LInvStep
<1>3. LInv => AnswerValid
  BY DEF LInv
<1>. QED
  BY <1>1, <1>2, <1>3, PTL DEF Spec

\* The cache holds valid plans only, also when structures with the same edges
\* in another order share them.
THEOREM CachedPlansAreValid == Spec => []CacheValid
<1>1. Init => LInv
  BY LInvInit
<1>2. LInv /\ [Next]_vars => LInv'
  BY LInvStep
<1>3. LInv => CacheValid
  BY DEF LInv
<1>. QED
  BY <1>1, <1>2, <1>3, PTL DEF Spec

--------------------------------------------------------------------------------
(* The unsigned in-degrees, and the size of the cache. *)

\* A call that is over has left natural in-degrees behind.
IdleDegrees == pc = "idle" => in_degree \in [str.nodes -> Nat]

\* While a call is under way an in-degree is a number of edges.
LEMMA DegreesAreNat == ASSUME LInv, IdleDegrees PROVE in_degree \in [str.nodes -> Nat]
<1>1. Types
  BY DEF LInv
<1>2. CASE pc \in {"search", "relax"}
  <2>1. \A n \in str.nodes : in_degree[n] = Cardinality(Left(n))
    BY <1>2 DEF LInv, Searching
  <2>2. \A n \in str.nodes : in_degree[n] \in Nat
    BY <1>1, <2>1, Structure
  <2>. QED
    BY <1>1, <2>2 DEF Types
<1>3. CASE pc \in {"lookup", "build"}
  BY <1>3 DEF LInv, Starting
<1>. QED
  BY <1>1, <1>2, <1>3 DEF Types, IdleDegrees

\* A step that ends in the idle state leaves the in-degrees as they were.
LEMMA IdleDegreesStep ==
  ASSUME LInv, IdleDegrees, [Next]_vars PROVE IdleDegrees'
<1>1. in_degree \in [str.nodes -> Nat]
  BY DegreesAreNat
<1>2. pc' = "idle" => UNCHANGED <<in_degree, str>>
  BY DEF LInv, Next, Search, Call, Lookup, Build, PushLevel, Relax, NextLevel, Finish, Other,
         vars, callVars
<1>. QED
  BY <1>1, <1>2 DEF IdleDegrees

\* in_degree, a usize, never underflows, parallel edges and self loops
\* included.
THEOREM DegreesNeverUnderflow == Spec => []TypeOK
<1>1. Init => LInv /\ IdleDegrees
  BY LInvInit DEF Init, IdleDegrees
<1>2. LInv /\ IdleDegrees /\ [Next]_vars => LInv' /\ IdleDegrees'
  BY LInvStep, IdleDegreesStep
<1>3. LInv /\ IdleDegrees => TypeOK
  BY DegreesAreNat DEF LInv, Types, TypeOK
<1>. QED
  BY <1>1, <1>2, <1>3, PTL DEF Spec

\* A put removes a plan before it adds one to a full cache.
LEMMA PutKeepsSize ==
  ASSUME IsFiniteSet(Cached), CacheBounded, NEW w, NEW plan, cache' \in Put(w, plan)
  PROVE  IsFiniteSet(Cached') /\ CacheBounded'
<1>1. PICK k \in IF Cardinality(Cached) >= Capacity /\ w \notin Cached THEN Cached ELSE {w} :
        cache' = Replaced(k, w, plan)
  BY DEF Put
<1>2. Cached' = (Cached \ {k}) \cup {w}
  BY <1>1 DEF Cached, Replaced
<1>3. Cardinality(Cached) \in Nat /\ Cardinality(Cached) <= Capacity /\ Capacity \in Nat \ {0}
  BY FS_CardinalityType, CapacityAssumption DEF CacheBounded
<1>4. IsFiniteSet(Cached \ {k})
      /\ Cardinality(Cached \ {k})
           = IF k \in Cached THEN Cardinality(Cached) - 1 ELSE Cardinality(Cached)
  BY FS_RemoveElement
<1>5. IsFiniteSet(Cached')
      /\ Cardinality(Cached') = IF w \in Cached \ {k} THEN Cardinality(Cached \ {k})
                                ELSE Cardinality(Cached \ {k}) + 1
  BY <1>2, <1>4, FS_AddElement
<1>6. Cardinality(Cached') <= Capacity
  BY <1>1, <1>3, <1>4, <1>5
<1>. QED
  BY <1>5, <1>6 DEF CacheBounded

\* The cache never holds more plans than max_size, whoever puts them.
THEOREM CacheStaysBounded == Spec => []CacheBounded
<1>1. Init => IsFiniteSet(Cached) /\ CacheBounded
  <2> SUFFICES ASSUME Init PROVE IsFiniteSet(Cached) /\ CacheBounded
    OBVIOUS
  <2>1. Cached = {}
    BY DEF Init, Cached
  <2>. QED
    BY <2>1, FS_EmptySet, CapacityAssumption DEF CacheBounded
<1>2. IsFiniteSet(Cached) /\ CacheBounded /\ [Next]_vars
        => IsFiniteSet(Cached)' /\ CacheBounded'
  <2> SUFFICES ASSUME IsFiniteSet(Cached), CacheBounded, [Next]_vars
               PROVE  IsFiniteSet(Cached)' /\ CacheBounded'
    OBVIOUS
  <2>1. \/ cache' = cache
        \/ \E w, plan : cache' \in Put(w, plan)
    BY DEF Next, Search, Call, Lookup, Build, PushLevel, Relax, NextLevel, Finish, Other, vars
  <2>2. CASE cache' = cache
    BY <2>2 DEF Cached, CacheBounded
  <2>3. CASE \E w, plan : cache' \in Put(w, plan)
    BY <2>3, PutKeepsSize
  <2>. QED
    BY <2>1, <2>2, <2>3
<1>. QED
  BY <1>1, <1>2, PTL DEF Spec

(* The process-wide cache never returns a wrong plan and stays within its  *)
(* bound, for every structure and every number of executions.              *)
THEOREM CacheIsSound == Spec => []CacheSound
<1>1. CacheValid /\ CacheBounded => CacheSound
  BY DEF CacheSound
<1>. QED
  BY <1>1, CachedPlansAreValid, CacheStaysBounded, PTL

--------------------------------------------------------------------------------
(* Induction up to a bound, from the least element of a set of numbers. *)

Less == {p \in Nat \X Nat : p[1] < p[2]}

\* There is no endless descent in the natural numbers.
LEMMA LessIsWellFounded == IsWellFoundedOn(Less, Nat)
<1>1. OpToRel(<, Nat) = Less
  BY Zenon DEF OpToRel, Less
<1>. QED
  BY <1>1, NatLessThanWellFounded, Zenon

\* A set of numbers that is not empty has a least element.
LEMMA LeastElement ==
  ASSUME NEW T \in SUBSET Nat, T # {} PROVE \E n \in T : \A m \in T : n <= m
<1>1. PICK n \in T : \A m \in T : <<m, n>> \notin Less
  BY LessIsWellFounded, WFMin, T \subseteq Nat, Zenon
<1>2. ASSUME NEW m \in T PROVE n <= m
  <2>1. n \in Nat /\ m \in Nat /\ <<m, n>> \notin Less
    BY <1>1
  <2>. QED
    BY <2>1 DEF Less
<1>. QED
  BY <1>1, <1>2, Zenon

\* What holds of 0 and passes from k to k + 1 holds up to the bound.
LEMMA UpTo ==
  ASSUME NEW N \in Nat, NEW T, 0 \in T,
         \A k \in Nat : k < N /\ k \in T => k + 1 \in T
  PROVE  0 .. N \subseteq T
<1> DEFINE Bad == (0 .. N) \ T
<1>1. SUFFICES ASSUME Bad # {} PROVE FALSE
  OBVIOUS
<1>2. PICK n \in Bad : \A m \in Bad : n <= m
  <2>1. Bad \in SUBSET Nat
    OBVIOUS
  <2> HIDE DEF Bad
  <2>. QED
    BY <1>1, <2>1, LeastElement
<1>3. n \in Nat /\ n # 0 /\ n - 1 \in Nat /\ n - 1 < N
  BY <1>2
<1>4. n - 1 \in T
  BY <1>2, <1>3
<1>5. (n - 1) + 1 \in T
  BY <1>3, <1>4
<1>. QED
  BY <1>2, <1>3, <1>5

--------------------------------------------------------------------------------
(* The walks of a structure. *)

Follow(s, S) == {s.to[e] : e \in OutEdges(s, S)}

\* The recursive function is the one its equation describes.
LEMMA WalkEndsDef ==
  ASSUME NEW s, Cardinality(s.nodes) \in Nat
  PROVE  WalkEnds(s) = [k \in 0 .. Cardinality(s.nodes) |->
                          IF k = 0 THEN s.nodes ELSE Follow(s, WalkEnds(s)[k - 1])]
<1> DEFINE N == Cardinality(s.nodes)
           Walk(g, n) == g = [k \in 0 .. n |-> IF k = 0 THEN s.nodes ELSE Follow(s, g[k - 1])]
           T == {n \in Nat : \E g : Walk(g, n)}
<1>1. 0 \in T
  <2>1. Walk([k \in 0 .. 0 |-> s.nodes], 0)
    OBVIOUS
  <2>. QED
    BY <2>1
<1>2. ASSUME NEW n \in Nat, n \in T PROVE n + 1 \in T
  <2>1. PICK g : Walk(g, n)
    BY <1>2
  <2> DEFINE h == [k \in 0 .. n + 1 |-> IF k = n + 1 THEN Follow(s, g[n]) ELSE g[k]]
  <2>2. h = [k \in 0 .. n + 1 |-> IF k = 0 THEN s.nodes ELSE Follow(s, h[k - 1])]
    <3>1. ASSUME NEW k \in 0 .. n + 1
          PROVE  h[k] = IF k = 0 THEN s.nodes ELSE Follow(s, h[k - 1])
      <4>1. CASE k = 0
        BY <2>1, <4>1
      <4>2. CASE k # 0 /\ k # n + 1
        <5>1. k \in 0 .. n /\ k - 1 \in 0 .. n /\ k - 1 # n + 1
          BY <4>2
        <5>2. h[k] = g[k] /\ h[k - 1] = g[k - 1]
          BY <4>2, <5>1
        <5>3. g[k] = Follow(s, g[k - 1])
          BY <2>1, <4>2, <5>1
        <5>. QED
          BY <4>2, <5>2, <5>3
      <4>3. CASE k = n + 1
        <5>1. k - 1 = n /\ n \in 0 .. n + 1 /\ n # n + 1
          BY <4>3
        <5>. QED
          BY <4>3, <5>1
      <4>. QED
        BY <4>1, <4>2, <4>3
    <3>. QED
      BY <3>1
  <2>3. Walk(h, n + 1)
    BY <2>2
  <2>4. \E f : Walk(f, n + 1)
    <3> HIDE DEF h, Walk
    <3>. QED
      BY <2>3
  <2> HIDE DEF Walk
  <2>. QED
    BY <2>4
<1>3. N \in T
  <2> HIDE DEF T
  <2>1. 0 .. N \subseteq T
    BY <1>1, <1>2, UpTo
  <2>. QED
    BY <2>1
<1>4. \E g : Walk(g, N)
  BY <1>3
<1>5. WalkEnds(s) = CHOOSE g : Walk(g, N)
  BY Zenon DEF WalkEnds, Follow
<1> HIDE DEF Walk
<1>6. Walk(WalkEnds(s), N)
  BY <1>4, <1>5, Zenon
<1>. QED
  BY <1>6 DEF Walk

\* A walk of no edge ends anywhere, a longer one at a node with a predecessor at
\* which a walk ends that is shorter by one edge.
LEMMA WalkSteps ==
  ASSUME NEW s \in Structures
  PROVE  /\ Cardinality(s.nodes) \in Nat
         /\ WalkEnds(s)[0] = s.nodes
         /\ \A k \in 0 .. Cardinality(s.nodes) : WalkEnds(s)[k] \subseteq s.nodes
         /\ \A k \in Nat : k < Cardinality(s.nodes) =>
              \A n \in s.nodes :
                n \in WalkEnds(s)[k + 1] <=> PredsOf(s)[n] \cap WalkEnds(s)[k] # {}
<1> DEFINE N == Cardinality(s.nodes)
<1>1. N \in Nat
  BY StructuresAssumption, FS_CardinalityType
<1>2. /\ WalkEnds(s)[0] = s.nodes
      /\ \A k \in 1 .. N : WalkEnds(s)[k] = Follow(s, WalkEnds(s)[k - 1])
  BY <1>1, WalkEndsDef
<1>3. \A S : Follow(s, S) \subseteq s.nodes
  BY StructuresAssumption DEF Follow, OutEdges
<1>4. ASSUME NEW S, NEW n \in s.nodes
      PROVE  n \in Follow(s, S) <=> PredsOf(s)[n] \cap S # {}
  <2>1. n \in Follow(s, S) <=> \E e \in s.edges : s.from[e] \in S /\ s.to[e] = n
    BY DEF Follow, OutEdges
  <2>2. PredsOf(s)[n] \cap S # {} <=> \E e \in s.edges : s.from[e] \in S /\ s.to[e] = n
    BY Predecessors DEF InEdges
  <2>. QED
    BY <2>1, <2>2
<1>5. ASSUME NEW k \in Nat, k < N PROVE WalkEnds(s)[k + 1] = Follow(s, WalkEnds(s)[k])
  <2>1. k + 1 \in 1 .. N /\ (k + 1) - 1 = k
    BY <1>1, <1>5
  <2>. QED
    BY <1>2, <2>1
<1>6. ASSUME NEW k \in 0 .. N PROVE WalkEnds(s)[k] \subseteq s.nodes
  BY <1>1, <1>2, <1>3, <1>6
<1>. QED
  BY <1>1, <1>2, <1>4, <1>5, <1>6

\* A walk of k edges ends behind the first k levels.
LEMMA WalksGoBehind ==
  ASSUME NEW s \in Structures, NEW ls, Valid(ls, s), NEW k \in 0 .. Cardinality(s.nodes),
         NEW l \in DOMAIN ls, NEW n \in ToSet(ls[l]), n \in WalkEnds(s)[k]
  PROVE  k < l
<1> DEFINE N == Cardinality(s.nodes)
           Behind(j) == \A m \in DOMAIN ls : \A p \in ToSet(ls[m]) : p \in WalkEnds(s)[j] => j < m
           T == {j \in Nat : Behind(j)}
<1>1. /\ ls \in Seq(Seq(s.nodes)) /\ DOMAIN ls \subseteq Nat \ {0} /\ N \in Nat
      /\ \A m \in DOMAIN ls : ToSet(ls[m]) \subseteq s.nodes
  BY WalkSteps DEF Valid, Layered, ToSet
<1>2. 0 \in T
  BY <1>1
<1>3. ASSUME NEW j \in Nat, j < N, Behind(j) PROVE Behind(j + 1)
  <2>1. ASSUME NEW m \in DOMAIN ls, NEW p \in ToSet(ls[m]), p \in WalkEnds(s)[j + 1]
        PROVE  j + 1 < m
    <3>0. p \in s.nodes
      BY <1>1, <2>1
    <3>1. PICK q : q \in PredsOf(s)[p] /\ q \in WalkEnds(s)[j]
      <4>1. PredsOf(s)[p] \cap WalkEnds(s)[j] # {}
        BY <1>3, <2>1, <3>0, WalkSteps
      <4>. QED
        BY <4>1
    <3>2. q \in Earlier(ls, m)
      BY <3>1 DEF Valid, Layered
    <3>3. PICK i \in DOMAIN ls : i < m /\ q \in ToSet(ls[i])
      BY <3>2 DEF Earlier
    <3>4. j < i
      BY <1>3, <3>1, <3>3
    <3>5. i \in Nat /\ m \in Nat
      BY <1>1, <3>3
    <3>. QED
      BY <3>3, <3>4, <3>5
  <2>. QED
    BY <2>1
<1>4. k \in T
  <2>1. \A j \in Nat : j < N /\ j \in T => j + 1 \in T
    BY <1>3
  <2> HIDE DEF T
  <2>. QED
    BY <1>1, <1>2, <2>1, UpTo
<1>. QED
  BY <1>4

\* In tight levels a walk of l - 1 edges ends at every node of level l.
LEMMA TightWalks ==
  ASSUME NEW s \in Structures, NEW ls, Exact(ls, s), NEW l \in DOMAIN ls,
         l - 1 <= Cardinality(s.nodes)
  PROVE  ToSet(ls[l]) \subseteq WalkEnds(s)[l - 1]
<1> DEFINE N == Cardinality(s.nodes)
           Reached(j) == j + 1 \in DOMAIN ls => ToSet(ls[j + 1]) \subseteq WalkEnds(s)[j]
           T == {j \in Nat : Reached(j)}
<1>1. /\ ls \in Seq(Seq(s.nodes)) /\ DOMAIN ls = 1 .. Len(ls) /\ Len(ls) \in Nat /\ N \in Nat
      /\ \A m \in DOMAIN ls : ToSet(ls[m]) \subseteq s.nodes
  BY WalkSteps DEF Exact, Valid, Layered, ToSet
<1>2. 0 \in T
  BY <1>1, WalkSteps
<1>3. ASSUME NEW j \in Nat, j < N, Reached(j) PROVE Reached(j + 1)
  <2>1. ASSUME (j + 1) + 1 \in DOMAIN ls, NEW n \in ToSet(ls[(j + 1) + 1])
        PROVE  n \in WalkEnds(s)[j + 1]
    <3>1. j + 1 \in DOMAIN ls /\ (j + 1) + 1 > 1 /\ ((j + 1) + 1) - 1 = j + 1
      BY <1>1, <2>1
    <3>2. PredsOf(s)[n] \cap ToSet(ls[j + 1]) # {}
      BY <2>1, <3>1 DEF Exact, Tight
    <3>3. PredsOf(s)[n] \cap WalkEnds(s)[j] # {}
      BY <1>3, <3>1, <3>2
    <3>. QED
      BY <1>1, <1>3, <2>1, <3>3, WalkSteps
  <2>. QED
    BY <2>1
<1>4. l - 1 \in T
  <2>1. \A j \in Nat : j < N /\ j \in T => j + 1 \in T
    BY <1>3
  <2>2. l - 1 \in 0 .. N
    BY <1>1
  <2> HIDE DEF T
  <2>. QED
    BY <1>1, <1>2, <2>1, <2>2, UpTo
<1>. QED
  BY <1>1, <1>4

\* There are no more levels than nodes.
LEMMA LevelsPerNode ==
  ASSUME NEW s \in Structures, NEW ls, Exact(ls, s)
  PROVE  Len(ls) \in Nat /\ DOMAIN ls = 1 .. Len(ls) /\ Len(ls) <= Cardinality(s.nodes)
<1> DEFINE first == [l \in 1 .. Len(ls) |-> ls[l][1]]
<1>1. ls \in Seq(Seq(s.nodes)) /\ DOMAIN ls = 1 .. Len(ls) /\ Len(ls) \in Nat
  BY DEF Exact, Valid, Layered
<1>2. \A l \in 1 .. Len(ls) : 1 \in DOMAIN ls[l] /\ ls[l][1] \in s.nodes
  BY <1>1 DEF Exact, Tight
<1>3. first \in Injection(1 .. Len(ls), s.nodes)
  <2>1. first \in [1 .. Len(ls) -> s.nodes]
    BY <1>2
  <2>2. ASSUME NEW l \in 1 .. Len(ls), NEW m \in 1 .. Len(ls), first[l] = first[m]
        PROVE  l = m
    <3>1. ls[l][1] = ls[m][1]
      BY <2>2
    <3>. QED
      BY <1>1, <1>2, <3>1 DEF Exact, Valid, Layered
  <2>. QED
    BY <2>1, <2>2 DEF Injection, IsInjective
<1>4. IsFiniteSet(s.nodes) /\ Cardinality(1 .. Len(ls)) = Len(ls)
  <2>1. IsFiniteSet(s.nodes)
    BY StructuresAssumption
  <2>2. Len(ls) \in Nat
    BY <1>1
  <2>3. Cardinality(1 .. Len(ls)) = IF 1 > Len(ls) THEN 0 ELSE Len(ls) - 1 + 1
    BY <2>2, FS_Interval
  <2>. QED
    BY <2>1, <2>2, <2>3
<1>5. Cardinality(1 .. Len(ls)) <= Cardinality(s.nodes)
  <2> DEFINE L == 1 .. Len(ls)
  <2>1. first \in Injection(L, s.nodes) /\ IsFiniteSet(s.nodes)
    BY <1>3, <1>4
  <2> HIDE DEF first, L
  <2>2. Cardinality(L) <= Cardinality(s.nodes)
    BY <2>1, FS_Injection, Zenon
  <2>. QED
    BY <2>2 DEF L
<1>. QED
  BY <1>1, <1>4, <1>5

\* Nodes that have a predecessor among themselves.
Trapped(s, C) ==
  C # {} /\ C \subseteq s.nodes /\ \A n \in C : PredsOf(s)[n] \cap C # {}

\* Among them there are walks of any length.
LEMMA WalksInACycle ==
  ASSUME NEW s \in Structures, NEW C, Trapped(s, C)
  PROVE  WalkEnds(s)[Cardinality(s.nodes)] # {}
<1> DEFINE N == Cardinality(s.nodes)
           T == {j \in Nat : C \subseteq WalkEnds(s)[j]}
<1>1. N \in Nat /\ 0 \in T
  BY WalkSteps DEF Trapped
<1>2. \A j \in Nat : j < N /\ j \in T => j + 1 \in T
  <2> SUFFICES ASSUME NEW j \in Nat, j < N, j \in T, NEW n \in C PROVE n \in WalkEnds(s)[j + 1]
    OBVIOUS
  <2>1. n \in s.nodes /\ PredsOf(s)[n] \cap WalkEnds(s)[j] # {}
    BY DEF Trapped
  <2>. QED
    BY <2>1, WalkSteps
<1>3. N \in T
  <2> HIDE DEF T
  <2>. QED
    BY <1>1, <1>2, UpTo
<1>. QED
  BY <1>3 DEF Trapped

--------------------------------------------------------------------------------
(* The answers are exact. *)

\* Tight levels answer AnswerEarliest, and leave no node to a walk of N edges.
LEMMA ExactLevels ==
  ASSUME NEW s \in Structures, NEW ls, Exact(ls, s)
  PROVE  /\ \A l \in DOMAIN ls : \A n \in ToSet(ls[l]) :
              n \in WalkEnds(s)[l - 1] /\ n \notin WalkEnds(s)[l]
         /\ WalkEnds(s)[Cardinality(s.nodes)] = {}
<1> DEFINE N == Cardinality(s.nodes)
<1>1. Valid(ls, s) /\ N \in Nat /\ Len(ls) \in Nat /\ DOMAIN ls = 1 .. Len(ls) /\ Len(ls) <= N
  BY WalkSteps, LevelsPerNode DEF Exact
<1>2. ASSUME NEW l \in DOMAIN ls, NEW n \in ToSet(ls[l])
      PROVE  n \in WalkEnds(s)[l - 1] /\ n \notin WalkEnds(s)[l]
  <2>1. l \in Nat /\ l - 1 <= N /\ l \in 0 .. N
    BY <1>1
  <2>2. n \in WalkEnds(s)[l - 1]
    BY <2>1, TightWalks
  <2>3. n \in WalkEnds(s)[l] => l < l
    BY <1>1, <2>1, WalksGoBehind
  <2>. QED
    BY <2>1, <2>2, <2>3
<1>3. ASSUME NEW n \in WalkEnds(s)[N] PROVE FALSE
  <2>1. N \in 0 .. N /\ n \in s.nodes
    BY <1>1, WalkSteps
  <2>2. PICK l \in DOMAIN ls : n \in ToSet(ls[l])
    BY <1>1, <2>1 DEF Valid, Layered
  <2>3. N < l
    BY <1>1, <2>1, <2>2, WalksGoBehind
  <2>. QED
    BY <1>1, <2>3
<1>. QED
  BY <1>2, <1>3

\* The level the search has pushed last.
LastLevel == levels[Len(levels)]

\* Every node the search collects has a predecessor in the level pushed last.
Chained ==
  /\ pc = "relax" => levels # <<>>
  /\ Tight(levels, PredsOf(str))
  /\ levels # <<>> =>
       /\ relaxing \subseteq OutEdges(str, ToSet(LastLevel))
       /\ \A n \in ToSet(Collected) : PredsOf(str)[n] \cap ToSet(LastLevel) # {}

CacheTight ==
  \A w \in Cached, s \in Structures :
    cache[w].hash = Hash(s) => Tight(cache[w].levels, PredsOf(s))

\* The invariant: LInv, and that plans and answers are as early as they can be,
\* or the structure holds a cycle.
XInv ==
  /\ LInv
  /\ pc \in {"search", "relax"} => Chained
  /\ CacheTight
  /\ answer.kind = "levels" => Tight(answer.levels, PredsOf(str))
  /\ answer.kind = "CycleDetected" => \E C : Trapped(str, C)

\* A level of nodes with a predecessor in the last one keeps the levels tight.
LEMMA AppendTight ==
  ASSUME NEW S, NEW ls \in Seq(Seq(S)), NEW preds, Tight(ls, preds),
         NEW q \in Seq(S), q # <<>>,
         ls # <<>> => \A n \in ToSet(q) : preds[n] \cap ToSet(ls[Len(ls)]) # {}
  PROVE  Tight(Append(ls, q), preds)
<1> DEFINE r == Append(ls, q)
<1>1. /\ Len(ls) \in Nat /\ DOMAIN ls = 1 .. Len(ls) /\ DOMAIN r = 1 .. Len(ls) + 1
      /\ r[Len(ls) + 1] = q /\ \A l \in 1 .. Len(ls) : r[l] = ls[l]
      /\ ls = <<>> <=> Len(ls) = 0
  OBVIOUS
<1>2. ASSUME NEW l \in DOMAIN r PROVE r[l] # <<>>
  BY <1>1 DEF Tight
<1>3. ASSUME NEW l \in DOMAIN r, l > 1, NEW n \in ToSet(r[l])
      PROVE  preds[n] \cap ToSet(r[l - 1]) # {}
  <2>1. CASE l \in DOMAIN ls
    <3>1. l - 1 \in 1 .. Len(ls) /\ r[l] = ls[l] /\ r[l - 1] = ls[l - 1]
      BY <1>1, <1>3, <2>1
    <3>. QED
      BY <1>3, <2>1, <3>1 DEF Tight
  <2>2. CASE l = Len(ls) + 1
    <3>1. l - 1 = Len(ls) /\ Len(ls) \in 1 .. Len(ls) /\ r[l] = q
      BY <1>1, <1>3, <2>2
    <3>2. ls # <<>> /\ r[l - 1] = ls[Len(ls)]
      BY <1>1, <3>1
    <3>3. n \in ToSet(q)
      BY <1>3, <3>1
    <3>. QED
      BY <3>2, <3>3
  <2>3. l \in DOMAIN ls \/ l = Len(ls) + 1
    BY <1>1, <1>3
  <2>. QED
    BY <2>1, <2>2, <2>3
<1>. QED
  BY <1>2, <1>3 DEF Tight

\* A tight plan can be put.
LEMMA PutKeepsTight ==
  ASSUME CacheTight, NEW w, NEW s \in Structures, NEW ls, Tight(ls, PredsOf(s)),
         cache' \in Put(w, Plan(s, ls))
  PROVE  CacheTight'
<1>1. PICK k : cache' = Replaced(k, w, Plan(s, ls))
  BY DEF Put
<1>2. /\ DOMAIN cache' = (DOMAIN cache \ {k}) \cup {w}
      /\ cache'[w] = Plan(s, ls)
      /\ \A x \in DOMAIN cache' \ {w} : x \in DOMAIN cache /\ cache'[x] = cache[x]
  BY <1>1 DEF Replaced, Cached
<1>3. ASSUME NEW x \in DOMAIN cache', NEW t \in Structures, cache'[x].hash = Hash(t)
      PROVE  Tight(cache'[x].levels, PredsOf(t))
  <2>1. CASE x = w
    BY <1>2, <1>3, <2>1, HashDecides DEF Plan
  <2>2. CASE x # w
    BY <1>2, <1>3, <2>2 DEF CacheTight, Cached
  <2>. QED
    BY <2>1, <2>2
<1>. QED
  BY <1>3 DEF CacheTight, Cached

\* The steps of the search keep the levels tight.
LEMMA ChainedBuild == ASSUME XInv, Build PROVE Chained'
<1>1. levels = <<>> /\ levels' = levels /\ pc' = "search" /\ DOMAIN <<>> = {} /\ str' = str
  BY DEF XInv, LInv, Build, Starting
<1>. QED
  BY <1>1 DEF Chained, Tight

\* The nodes of the queue were collected from the level before them.
LEMMA ChainedPush == ASSUME XInv, PushLevel PROVE Chained'
<1>1. /\ Types /\ Chained /\ pc = "search" /\ pc' = "relax" /\ queue # <<>>
      /\ levels' = Append(levels, queue) /\ next_queue' = <<>>
      /\ relaxing' = OutEdges(str, ToSet(queue)) /\ UNCHANGED str
      /\ levels \in Seq(Seq(str.nodes)) /\ queue \in Seq(str.nodes)
  BY DEF XInv, LInv, PushLevel, Types
<1>2. Tight(levels', PredsOf(str))
  <2>1. Tight(levels, PredsOf(str))
        /\ (levels # <<>> => \A n \in ToSet(queue) :
              PredsOf(str)[n] \cap ToSet(levels[Len(levels)]) # {})
    BY <1>1 DEF Chained, Collected, LastLevel
  <2>. QED
    BY <1>1, <2>1, AppendTight
<1>3. levels' # <<>> /\ LastLevel' = queue
  BY <1>1 DEF LastLevel
<1>4. ToSet(Collected') = {}
  BY <1>1 DEF Collected, ToSet
<1>. QED
  BY <1>1, <1>2, <1>3, <1>4 DEF Chained

\* A node is collected over an edge out of the last level.
LEMMA ChainedRelax == ASSUME XInv, NEW e \in relaxing, Relax(e) PROVE Chained'
<1> DEFINE t == str.to[e]
<1>1. /\ Types /\ Chained /\ pc = "relax" /\ UNCHANGED <<pc, str, levels>> /\ levels # <<>>
      /\ relaxing' = relaxing \ {e} /\ next_queue \in Seq(str.nodes)
      /\ next_queue' = IF in_degree'[t] = 0 THEN Append(next_queue, t) ELSE next_queue
  BY DEF XInv, LInv, Relax, Chained, Types
<1>2. e \in str.edges /\ str.from[e] \in ToSet(LastLevel) /\ t \in str.nodes
  BY <1>1, Structure DEF Chained, OutEdges
<1>3. PredsOf(str)[t] \cap ToSet(LastLevel) # {}
  <2>1. e \in InEdges(str, t) /\ str \in Structures
    BY <1>1, <1>2 DEF InEdges, Types
  <2>. QED
    BY <1>2, <2>1, Predecessors
<1>4. ASSUME NEW n \in ToSet(next_queue') PROVE n \in ToSet(next_queue) \/ n = t
  BY <1>1, <1>2, <1>4 DEF ToSet
<1>5. \A n \in ToSet(next_queue') : PredsOf(str)[n] \cap ToSet(LastLevel) # {}
  BY <1>1, <1>3, <1>4 DEF Chained, Collected
<1>6. LastLevel' = LastLevel /\ Collected' = next_queue'
  BY <1>1 DEF LastLevel, Collected
<1>. QED
  BY <1>1, <1>5, <1>6 DEF Chained

\* What was collected becomes the queue.
LEMMA ChainedNext == ASSUME XInv, NextLevel PROVE Chained'
BY DEF XInv, NextLevel, Chained, Collected, LastLevel

\* What is left when a search ends early is a set of nodes that wait for each other.
LEMMA LeftIsTrapped ==
  ASSUME LInv, Finish, processed # Cardinality(str.nodes)
  PROVE  Trapped(str, str.nodes \ Pushed(levels))
<1>1. /\ Types /\ Searching /\ queue = <<>> /\ relaxing = {} /\ str \in Structures
      /\ pc = "search"
  BY DEF LInv, Finish, Searching, Types
<1>2. ToSet(Collected) = {}
  BY <1>1 DEF Collected, ToSet
<1>3. str.nodes # Pushed(levels) /\ Pushed(levels) \subseteq str.nodes
  BY <1>1 DEF Searching
<1>4. ASSUME NEW n \in str.nodes \ Pushed(levels)
      PROVE  PredsOf(str)[n] \cap (str.nodes \ Pushed(levels)) # {}
  <2>1. in_degree[n] # 0 /\ in_degree[n] = Cardinality(Left(n))
    BY <1>1, <1>2, <1>4 DEF Searching
  <2>2. Left(n) # {}
    BY <2>1, FS_EmptySet
  <2>3. PICK e \in InEdges(str, n) : str.from[e] \notin Pushed(levels)
    BY <1>1, <2>2 DEF Left
  <2>4. str.from[e] \in str.nodes
    BY <1>1, Structure DEF InEdges
  <2>. QED
    BY <1>1, <1>4, <2>3, <2>4, Predecessors
<1>. QED
  BY <1>3, <1>4 DEF Trapped

\* A search ends with tight levels or in front of a cycle.
LEMMA ExactFinish == ASSUME XInv, Finish PROVE XInv'
<1>1. /\ LInv /\ LInv' /\ Types /\ Chained /\ CacheTight /\ pc' = "idle" /\ UNCHANGED str
      /\ str \in Structures
      /\ \/ processed # Cardinality(str.nodes) /\ answer' = CycleDetected /\ cache' = cache
         \/ cache' \in Put(wf, Plan(str, levels)) /\ answer' = Levels(levels)
  BY FinishStep DEF XInv, LInv, Finish, callVars, Types
<1>2. CASE processed # Cardinality(str.nodes) /\ answer' = CycleDetected /\ cache' = cache
  <2>1. \E C : Trapped(str, C)
    BY <1>1, <1>2, LeftIsTrapped
  <2>. QED
    BY <1>1, <1>2, <2>1 DEF XInv, CycleDetected, CacheTight, Cached
<1>3. CASE cache' \in Put(wf, Plan(str, levels)) /\ answer' = Levels(levels)
  <2>1. Tight(levels, PredsOf(str))
    BY <1>1 DEF Chained
  <2>2. CacheTight'
    BY <1>1, <1>3, <2>1, PutKeepsTight
  <2>. QED
    BY <1>1, <1>3, <2>1, <2>2 DEF XInv, Levels
<1>. QED
  BY <1>1, <1>2, <1>3

\* Every step keeps the invariant, also the puts of the other executions.
LEMMA XInvStep == ASSUME XInv, [Next]_vars PROVE XInv'
<1>0. LInv /\ LInv'
  BY LInvStep DEF XInv
<1>1. ASSUME NEW w \in Workflow, NEW s \in Structures, Call(w, s) PROVE XInv'
  BY <1>0, <1>1 DEF XInv, Call, CacheTight, Cached, Nothing
<1>2. CASE Lookup
  <2>1. /\ str \in Structures /\ CacheTight /\ UNCHANGED <<cache, str>> /\ pc' \in {"idle", "build"}
        /\ \/ /\ wf \in Cached /\ cache[wf].hash = Hash(str)
              /\ answer' = Levels(cache[wf].levels)
           \/ answer' = answer
    BY <1>0, <1>2 DEF XInv, LInv, Types, Lookup, callVars
  <2>2. wf \in Cached /\ cache[wf].hash = Hash(str) => Tight(cache[wf].levels, PredsOf(str))
    BY <2>1 DEF CacheTight
  <2>3. CacheTight'
    BY <2>1 DEF CacheTight, Cached
  <2>. QED
    BY <1>0, <2>1, <2>2, <2>3 DEF XInv, Levels
<1>3. CASE Build \/ PushLevel \/ (\E e \in relaxing : Relax(e)) \/ NextLevel
  <2>1. Chained'
    BY <1>3, ChainedBuild, ChainedPush, ChainedRelax, ChainedNext
  <2>2. UNCHANGED <<cache, answer, str>>
    BY <1>3 DEF Build, PushLevel, Relax, NextLevel
  <2>. QED
    BY <1>0, <2>1, <2>2 DEF XInv, CacheTight, Cached
<1>4. CASE Finish
  BY <1>4, ExactFinish
<1>5. ASSUME NEW w \in Workflow, NEW k \in Known, Other(w, k) PROVE XInv'
  <2>1. /\ k.str \in Structures /\ Tight(k.levels, PredsOf(k.str))
        /\ cache' \in Put(w, Plan(k.str, k.levels))
        /\ UNCHANGED <<pc, answer, wf, str, in_degree, queue, relaxing, next_queue, levels, processed>>
    BY <1>5, KnownAssumption DEF Other, callVars, Exact
  <2>2. CacheTight'
    BY <2>1, PutKeepsTight DEF XInv
  <2>. QED
    BY <1>0, <2>1, <2>2 DEF XInv, Chained, LastLevel, Collected
<1>6. CASE UNCHANGED vars
  BY <1>0, <1>6 DEF vars, callVars, XInv, Chained, LastLevel, Collected, CacheTight, Cached
<1>. QED
  BY <1>1, <1>2, <1>3, <1>4, <1>5, <1>6 DEF Next, Search

\* The invariant holds.
LEMMA XInvHolds == Spec => []XInv
<1>1. Init => XInv
  <2> SUFFICES ASSUME Init PROVE XInv
    OBVIOUS
  <2>1. LInv
    BY LInvInit
  <2>2. Cached = {}
    BY DEF Init, Cached
  <2>. QED
    BY <2>1, <2>2 DEF Init, XInv, CacheTight, Nothing
<1>2. XInv /\ [Next]_vars => XInv'
  BY XInvStep
<1>. QED
  BY <1>1, <1>2, PTL DEF Spec

\* What a call answers is as KnownAssumption has it of the other executions: no
\* level is empty, and none could hold a node that a later one holds.
THEOREM PlansAreExact == Spec => [](answer.kind = "levels" => Exact(answer.levels, str))
<1>1. XInv => (answer.kind = "levels" => Exact(answer.levels, str))
  BY DEF XInv, LInv, AnswerValid, Exact
<1>. QED
  BY <1>1, XInvHolds, PTL

\* A call returns every node in the earliest level there is for it, or reports a
\* cycle, and it reports one exactly when the structure has one, whatever the cache
\* held: compute_execution_levels and PLAN_CACHE together, for all structures.
THEOREM AnswersAreExact == Spec => []AnswerExact
<1>1. XInv => AnswerExact
  <2> SUFFICES ASSUME XInv PROVE AnswerEarliest /\ CycleFound
    BY DEF AnswerExact
  <2>1. str \in Structures /\ answer.kind \in {"none", "CycleDetected", "levels"}
    BY DEF XInv, LInv, Types
  <2>2. CASE answer.kind = "levels"
    <3>1. Exact(answer.levels, str)
      BY <2>2 DEF XInv, LInv, AnswerValid, Exact
    <3>. QED
      BY <2>1, <2>2, <3>1, ExactLevels DEF AnswerEarliest, CycleFound
  <2>3. CASE answer.kind = "CycleDetected"
    <3>1. WalkEnds(str)[Cardinality(str.nodes)] # {}
      BY <2>1, <2>3, WalksInACycle DEF XInv
    <3>. QED
      BY <2>3, <3>1 DEF AnswerEarliest, CycleFound
  <2>4. CASE answer.kind = "none"
    BY <2>4 DEF AnswerEarliest, CycleFound
  <2>. QED
    BY <2>1, <2>2, <2>3, <2>4
<1>. QED
  BY <1>1, XInvHolds, PTL

================================================================================

----------------------------- MODULE ExecutionLevels -----------------------------
(***************************************************************************)
(* Engine::compute_execution_levels (oxify-engine/src/lib.rs) with the     *)
(* process-wide PLAN_CACHE (plan_cache.rs) it asks first and fills last.   *)
(* One thread's calls are modelled step by step; the calls of the other    *)
(* executions are seen through what they put into the cache, which they    *)
(* may do at any time: the lock is held by get and by put, not between.    *)
(* A workflow keeps its id when its structure is edited.                   *)
(***************************************************************************)
EXTENDS Integers, FiniteSets, SequencesExt, Layers

CONSTANTS
  Workflow,    \* workflow ids
  Node,        \* node ids
  Structures,  \* the nodes and edges a workflow can have
  Capacity,    \* PlanCache.max_size
  Known        \* plans other executions may put: a structure and its levels

ASSUME CapacityAssumption == Capacity \in Nat \ {0}

\* A structure: its nodes, its edges as identities (two of them may join the
\* same nodes), and the nodes they join.  Edges that name no node are refused
\* by the validator; node kinds do not matter to the levels.
ASSUME StructuresAssumption ==
  \A s \in Structures :
    /\ s.nodes \subseteq Node /\ IsFiniteSet(s.nodes)
    /\ IsFiniteSet(s.edges)
    /\ s.from \in [s.edges -> s.nodes] /\ s.to \in [s.edges -> s.nodes]

VARIABLES
  cache,      \* PlanCache.cache: a plan for some of the workflows
  wf, str,    \* the call's workflow and its structure
  pc,
  in_degree,
  queue,      \* the next level, as the queue of the search
  relaxing,   \* edges out of the level just pushed whose neighbor is not visited yet
  next_queue,
  levels,
  processed,
  answer      \* what the call returned

callVars == <<wf, str, in_degree, queue, relaxing, next_queue, levels, processed>>
vars == <<cache, pc, answer, callVars>>

Pushed(ls) == UNION {ToSet(ls[l]) : l \in DOMAIN ls}
InEdges(s, n) == {e \in s.edges : s.to[e] = n}
OutEdges(s, N) == {e \in s.edges : s.from[e] \in N}

\* hash_workflow_structure: the nodes and the pairs (from, to), sorted, so
\* that neither the order nor the identity of the edges matters.  Collisions
\* of the 64-bit hash are left out.
Hash(s) ==
  [nodes |-> s.nodes,
   edges |-> [p \in s.nodes \X s.nodes |->
                Cardinality({e \in s.edges : <<s.from[e], s.to[e]>> = p})]]

Cached == DOMAIN cache
Plan(s, ls) == [hash |-> Hash(s), levels |-> ls]

PredsOf(s) == [n \in s.nodes |-> {s.from[e] : e \in InEdges(s, n)}]

\* What compute_execution_levels owes a run, which WorkflowExecution assumes of it.
Valid(ls, s) == Layered(ls, s.nodes, PredsOf(s))

\* Valid levels that hold a node as early as it can be held.
Exact(ls, s) == Valid(ls, s) /\ Tight(ls, PredsOf(s))

\* The other executions run the same code: what they put is what theorem
\* PlansAreExact says this call puts.
ASSUME KnownAssumption ==
  \A k \in Known : k.str \in Structures /\ Exact(k.levels, k.str)

\* Any order of the elements of S: what iterating a HashMap gives.
Orders(S) ==
  {q \in [1 .. Cardinality(S) -> S] : ToSet(q) = S}

\* Result<Vec<Vec<NodeId>>>, "none" while the call is under way.
Nothing == [kind |-> "none", levels |-> <<>>]
CycleDetected == [kind |-> "CycleDetected", levels |-> <<>>]
Levels(ls) == [kind |-> "levels", levels |-> ls]

--------------------------------------------------------------------------------

Init ==
  /\ cache = [w \in {} |-> Plan(str, <<>>)]
  /\ pc = "idle"
  /\ answer = Nothing
  /\ wf \in Workflow /\ str \in Structures
  /\ in_degree = [n \in str.nodes |-> 0]
  /\ queue = <<>> /\ next_queue = <<>> /\ levels = <<>>
  /\ relaxing = {} /\ processed = 0

\* A new call, for a workflow as it is now.
Call(w, s) ==
  /\ pc = "idle"
  /\ pc' = "lookup"
  /\ wf' = w /\ str' = s
  /\ in_degree' = [n \in s.nodes |-> 0]
  /\ queue' = <<>> /\ next_queue' = <<>> /\ levels' = <<>>
  /\ relaxing' = {} /\ processed' = 0
  /\ answer' = Nothing
  /\ UNCHANGED cache

\* A slip: the hash is not compared, an edited workflow keeps its old plan.
LookupStale ==
  /\ pc = "lookup"
  /\ IF wf \in Cached
     THEN answer' = Levels(cache[wf].levels) /\ pc' = "idle"
     ELSE pc' = "build" /\ UNCHANGED answer
  /\ UNCHANGED <<cache, callVars>>

\* PLAN_CACHE.get: a hit is a plan with the hash of this structure.
Lookup ==
  /\ pc = "lookup"
  /\ IF wf \in Cached /\ cache[wf].hash = Hash(str)
     THEN answer' = Levels(cache[wf].levels) /\ pc' = "idle"
     ELSE pc' = "build" /\ UNCHANGED answer
  /\ UNCHANGED <<cache, callVars>>

\* A slip: a predecessor is counted once, whatever the edges from it.
DegreesByNode(s) ==
  [n \in s.nodes |-> Cardinality({s.from[e] : e \in InEdges(s, n)})]

Degrees(s) == [n \in s.nodes |-> Cardinality(InEdges(s, n))]

\* The in-degrees, and the nodes without predecessors in any order.
Build ==
  /\ pc = "build"
  /\ in_degree' = Degrees(str)
  /\ queue' \in Orders({n \in str.nodes : in_degree'[n] = 0})
  /\ pc' = "search"
  /\ UNCHANGED <<cache, answer, wf, str, relaxing, next_queue, levels, processed>>

\* A slip: a level holds one node of the queue, the others wait for the next.
PushLevelOfOne ==
  /\ pc = "search" /\ queue # <<>>
  /\ levels' = Append(levels, <<Head(queue)>>)
  /\ processed' = processed + 1
  /\ relaxing' = OutEdges(str, {Head(queue)})
  /\ next_queue' = Tail(queue)
  /\ pc' = "relax"
  /\ UNCHANGED <<cache, answer, wf, str, in_degree, queue>>

\* The nodes of the queue are the next level; their edges are to be followed.
PushLevel ==
  /\ pc = "search" /\ queue # <<>>
  /\ levels' = Append(levels, queue)
  /\ processed' = processed + Len(queue)
  /\ relaxing' = OutEdges(str, ToSet(queue))
  /\ next_queue' = <<>>
  /\ pc' = "relax"
  /\ UNCHANGED <<cache, answer, wf, str, in_degree, queue>>

\* One edge: its target joins the next level when it was the last.  The edges
\* are followed in any order: the order decides only that of a level's nodes.
Relax(e) ==
  /\ pc = "relax" /\ e \in relaxing
  /\ relaxing' = relaxing \ {e}
  /\ in_degree' = [in_degree EXCEPT ![str.to[e]] = @ - 1]
  /\ next_queue' = IF in_degree'[str.to[e]] = 0
                   THEN Append(next_queue, str.to[e]) ELSE next_queue
  /\ UNCHANGED <<cache, pc, answer, wf, str, queue, levels, processed>>

NextLevel ==
  /\ pc = "relax" /\ relaxing = {}
  /\ queue' = next_queue
  /\ pc' = "search"
  /\ UNCHANGED <<cache, answer, wf, str, in_degree, relaxing, next_queue, levels, processed>>

\* The cache with the plan for w in place of the one for k, if k is not w.
Replaced(k, w, plan) ==
  [x \in (Cached \ {k}) \cup {w} |-> IF x = w THEN plan ELSE cache[x]]

\* PlanCache::put: at capacity, a plan for a new workflow takes the place of
\* the first one the HashMap happens to iterate to.
Put(w, plan) ==
  {Replaced(k, w, plan) :
     k \in IF Cardinality(Cached) >= Capacity /\ w \notin Cached THEN Cached ELSE {w}}

\* A slip: what the search has reached is taken for the plan.
FinishUnchecked ==
  /\ pc = "search" /\ queue = <<>>
  /\ cache' \in Put(wf, Plan(str, levels))
  /\ answer' = Levels(levels)
  /\ pc' = "idle"
  /\ UNCHANGED callVars

\* Nodes the search did not reach are on or behind a cycle.
Finish ==
  /\ pc = "search" /\ queue = <<>>
  /\ IF processed # Cardinality(str.nodes)
     THEN answer' = CycleDetected /\ UNCHANGED cache
     ELSE /\ cache' \in Put(wf, Plan(str, levels))
          /\ answer' = Levels(levels)
  /\ pc' = "idle"
  /\ UNCHANGED callVars

\* Another execution has come to the end of its own call.
Other(w, k) ==
  /\ cache' \in Put(w, Plan(k.str, k.levels))
  /\ UNCHANGED <<pc, answer, callVars>>

Search == Build \/ PushLevel \/ (\E e \in relaxing : Relax(e)) \/ NextLevel \/ Finish

Next ==
  \/ \E w \in Workflow, s \in Structures : Call(w, s)
  \/ Lookup
  \/ Search
  \/ \E w \in Workflow, k \in Known : Other(w, k)

Spec == Init /\ [][Next]_vars

--------------------------------------------------------------------------------
(* Properties. *)

\* Types; in_degree is a usize: following an edge never takes it below 0.
TypeOK ==
  /\ Cached \subseteq Workflow
  /\ wf \in Workflow /\ str \in Structures
  /\ pc \in {"idle", "lookup", "build", "search", "relax"}
  /\ in_degree \in [str.nodes -> Nat]
  /\ queue \in Seq(str.nodes) /\ next_queue \in Seq(str.nodes)
  /\ relaxing \subseteq str.edges
  /\ levels \in Seq(Seq(str.nodes))
  /\ processed \in Nat
  /\ answer.kind \in {"none", "CycleDetected", "levels"}

\* The levels a call returns are those of the structure it was given, also
\* when they come from the cache and the workflow has been edited, or another
\* execution has replaced its plan, in the meantime.
AnswerValid == answer.kind = "levels" => Valid(answer.levels, str)

CacheValid ==
  \A w \in Cached, s \in Structures :
    cache[w].hash = Hash(s) => Valid(cache[w].levels, s)

CacheBounded == Cardinality(Cached) <= Capacity

\* The cache, which every execution of the process shares, holds nothing but
\* plans that are valid for every structure they can be returned for, whoever
\* put them, and put never lets it grow past max_size.
CacheSound == CacheValid /\ CacheBounded

\* The nodes at which a walk of k edges ends.
WalkEnds(s) ==
  LET ends[k \in 0 .. Cardinality(s.nodes)] ==
        IF k = 0 THEN s.nodes ELSE {s.to[e] : e \in OutEdges(s, ends[k - 1])}
  IN ends

\* A node is in the level its longest chain of predecessors allows, so every
\* node that can run in parallel does.
AnswerEarliest ==
  answer.kind = "levels" =>
    \A l \in DOMAIN answer.levels : \A n \in ToSet(answer.levels[l]) :
      n \in WalkEnds(str)[l - 1] /\ n \notin WalkEnds(str)[l]

\* A call fails for the structures with a cycle, self loops included, and for
\* no other: a walk as long as there are nodes has been through one twice.
CycleFound ==
  answer.kind # "none" =>
    (answer.kind = "CycleDetected" <=> WalkEnds(str)[Cardinality(str.nodes)] # {})

\* A call fails exactly for the structures with a cycle, and otherwise returns
\* levels with all the parallelism there is.
AnswerExact == AnswerEarliest /\ CycleFound

================================================================================

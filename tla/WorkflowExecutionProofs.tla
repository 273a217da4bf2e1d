------------------------ MODULE WorkflowExecutionProofs ------------------------
(***************************************************************************)
(* Proofs about WorkflowExecution for every workflow, every configuration  *)
(* and every number of worker threads.                                     *)
(***************************************************************************)
EXTENDS WorkflowExecution, FiniteSetTheorems, TLAPS

--------------------------------------------------------------------------------
(* The levels. *)

\* The assumption, in the words of this module.
LEMMA LevelsFacts ==
  /\ Levels \in Seq(Seq(Node))
  /\ \A n \in Node : \E l \in DOMAIN Levels : n \in LevelNodes(l)
  /\ \A l, m \in DOMAIN Levels : \A i \in DOMAIN Levels[l], j \in DOMAIN Levels[m] :
       Levels[l][i] = Levels[m][j] => l = m /\ i = j
  /\ Preds \in [Node -> SUBSET Node]
  /\ \A l \in DOMAIN Levels : \A n \in LevelNodes(l) : Preds[n] \subseteq NodesBefore(l)
  /\ \A l : NodesBefore(l) = UNION {LevelNodes(m) : m \in {k \in DOMAIN Levels : k < l}}
BY LevelsAssumption DEF Layered, LevelNodes, NodesBefore, Earlier

\* The shape of Levels: sequences of nodes, numbered from 1.
LEMMA LevelsShape ==
  /\ Len(Levels) \in Nat /\ DOMAIN Levels = 1 .. Len(Levels)
  /\ \A l \in DOMAIN Levels :
       /\ Levels[l] \in Seq(Node)
       /\ Len(Levels[l]) \in Nat /\ DOMAIN Levels[l] = 1 .. Len(Levels[l])
       /\ \A i \in DOMAIN Levels[l] : Levels[l][i] \in Node
       /\ LevelNodes(l) = {Levels[l][i] : i \in 1 .. Len(Levels[l])}
       /\ LevelNodes(l) \subseteq Node
<1>1. Levels \in Seq(Seq(Node))
  BY LevelsFacts
<1>2. Len(Levels) \in Nat /\ DOMAIN Levels = 1 .. Len(Levels)
  BY <1>1
<1>3. ASSUME NEW l \in DOMAIN Levels
      PROVE  /\ Levels[l] \in Seq(Node)
             /\ Len(Levels[l]) \in Nat /\ DOMAIN Levels[l] = 1 .. Len(Levels[l])
             /\ \A i \in DOMAIN Levels[l] : Levels[l][i] \in Node
  <2>1. Levels[l] \in Seq(Node)
    BY <1>1
  <2>. QED
    BY <2>1
<1>4. ASSUME NEW l \in DOMAIN Levels
      PROVE  /\ LevelNodes(l) = {Levels[l][i] : i \in 1 .. Len(Levels[l])}
             /\ LevelNodes(l) \subseteq Node
  BY <1>3 DEF LevelNodes, ToSet
<1>. QED
  BY <1>2, <1>3, <1>4

\* A node belongs to one level only.
LEMMA OneLevel ==
  ASSUME NEW l \in DOMAIN Levels, NEW m \in DOMAIN Levels, NEW n,
         n \in LevelNodes(l), n \in LevelNodes(m)
  PROVE  l = m
<1>1. PICK i \in DOMAIN Levels[l] : n = Levels[l][i]
  BY DEF LevelNodes, ToSet
<1>2. PICK j \in DOMAIN Levels[m] : n = Levels[m][j]
  BY DEF LevelNodes, ToSet
<1>3. Levels[l][i] = Levels[m][j]
  BY <1>1, <1>2
<1>. QED
  BY <1>3, LevelsFacts

\* The nodes before a level: none before the first, all before the one that
\* follows the last, and a level's own nodes are never among them.
LEMMA BeforeFirst == NodesBefore(1) = {}
BY LevelsShape, LevelsFacts

\* Past the last level every node has been before.
LEMMA BeforeLast ==
  ASSUME NEW l \in Nat, l > Len(Levels) PROVE NodesBefore(l) = Node
<1>1. {k \in DOMAIN Levels : k < l} = DOMAIN Levels
  BY LevelsShape
<1>2. NodesBefore(l) = UNION {LevelNodes(m) : m \in DOMAIN Levels}
  BY <1>1, LevelsFacts
<1>. QED
  BY <1>2, LevelsShape, LevelsFacts

\* The nodes before the next level are those before this one and its own.
LEMMA BeforeNext ==
  ASSUME NEW l \in DOMAIN Levels
  PROVE  NodesBefore(l + 1) = NodesBefore(l) \cup LevelNodes(l)
<1>1. {k \in DOMAIN Levels : k < l + 1} = {k \in DOMAIN Levels : k < l} \cup {l}
  BY LevelsShape
<1>. QED
  BY <1>1, LevelsFacts

\* A node is not in a level and before it.
LEMMA BeforeDisjoint ==
  ASSUME NEW l \in DOMAIN Levels PROVE NodesBefore(l) \cap LevelNodes(l) = {}
BY OneLevel, LevelsShape, LevelsFacts

\* The nodes before a level are nodes.
LEMMA BeforeNodes == ASSUME NEW l PROVE NodesBefore(l) \subseteq Node
BY LevelsShape, LevelsFacts

\* What a handle list contains after the two operations of the code on it.
LEMMA HandlesAppend ==
  ASSUME NEW s \in Seq(Node), NEW n \in Node
  PROVE  /\ ToSet(Append(s, n)) = ToSet(s) \cup {n}
         /\ Len(Append(s, n)) = Len(s) + 1
         /\ Append(s, n) \in Seq(Node)
<1>1. /\ Len(s) \in Nat /\ DOMAIN s = 1 .. Len(s)
      /\ Append(s, n) \in Seq(Node) /\ Len(Append(s, n)) = Len(s) + 1
      /\ DOMAIN Append(s, n) = 1 .. Len(s) + 1
      /\ Append(s, n)[Len(s) + 1] = n
      /\ \A i \in 1 .. Len(s) : Append(s, n)[i] = s[i]
  OBVIOUS
<1>2. ASSUME NEW m \in ToSet(s) \cup {n} PROVE m \in ToSet(Append(s, n))
  <2>1. CASE m = n
    BY <1>1, <2>1 DEF ToSet
  <2>2. CASE m \in ToSet(s)
    <3>1. PICK i \in 1 .. Len(s) : m = s[i]
      BY <1>1, <2>2 DEF ToSet
    <3>2. i \in DOMAIN Append(s, n) /\ Append(s, n)[i] = m
      BY <1>1, <3>1
    <3>. QED
      BY <3>2 DEF ToSet
  <2>. QED
    BY <1>2, <2>1, <2>2
<1>3. ASSUME NEW m \in ToSet(Append(s, n)) PROVE m \in ToSet(s) \cup {n}
  <2>1. PICK i \in 1 .. Len(s) + 1 : m = Append(s, n)[i]
    BY <1>1, <1>3 DEF ToSet
  <2>. QED
    BY <1>1, <2>1 DEF ToSet
<1>. QED
  BY <1>1, <1>2, <1>3

\* Taking the first handle off a list without repetitions removes just that node.
LEMMA HandlesTail ==
  ASSUME NEW s \in Seq(Node), s # <<>>,
         \A i, j \in DOMAIN s : s[i] = s[j] => i = j
  PROVE  /\ Head(s) \in ToSet(s)
         /\ Head(s) \in Node
         /\ ToSet(Tail(s)) = ToSet(s) \ {Head(s)}
         /\ \A i, j \in DOMAIN Tail(s) : Tail(s)[i] = Tail(s)[j] => i = j
         /\ Len(Tail(s)) = Len(s) - 1
<1>1. /\ Len(s) \in Nat \ {0} /\ DOMAIN s = 1 .. Len(s) /\ Head(s) = s[1]
      /\ Tail(s) \in Seq(Node) /\ Len(Tail(s)) = Len(s) - 1
      /\ DOMAIN Tail(s) = 1 .. (Len(s) - 1)
      /\ \A i \in DOMAIN Tail(s) : Tail(s)[i] = s[i + 1]
  OBVIOUS
<1>2. Head(s) \in ToSet(s) /\ Head(s) \in Node
  BY <1>1 DEF ToSet
<1>3. ASSUME NEW n \in ToSet(Tail(s)) PROVE n \in ToSet(s) \ {Head(s)}
  BY <1>1, <1>3 DEF ToSet
<1>4. ASSUME NEW n \in ToSet(s) \ {Head(s)} PROVE n \in ToSet(Tail(s))
  <2>1. PICK i \in 1 .. Len(s) : n = s[i] /\ i # 1
    BY <1>1, <1>4 DEF ToSet
  <2>2. i - 1 \in DOMAIN Tail(s) /\ Tail(s)[i - 1] = n
    BY <1>1, <2>1
  <2>. QED
    BY <2>2 DEF ToSet
<1>5. \A i, j \in DOMAIN Tail(s) : Tail(s)[i] = Tail(s)[j] => i = j
  BY <1>1
<1>. QED
  BY <1>1, <1>2, <1>3, <1>4, <1>5

--------------------------------------------------------------------------------
(* The inductive invariant. *)

\* TypeOK with the unsigned counters as integers: that they never go below zero
\* needs the counting below.
Types ==
  /\ cfg \in Configs
  /\ pc \in {"cancelCheck", "pauseCheck", "admit", "decide", "limits", "await",
             "levelEnd", "returned"}
  /\ lvl \in Nat \ {0} /\ pos \in Nat \ {0} /\ chunkStart \in Nat \ {0}
  /\ seenQueued \in Int
  /\ handles \in Seq(Node)
  /\ task \in [Node -> TaskStates]
  /\ returned \in [Node -> Returned]
  /\ results \in NodeResults
  /\ dropped \subseteq Node
  /\ nodesExecuted \in Nat
  /\ paused \in BOOLEAN /\ cancelled \in BOOLEAN
  /\ ckpts \subseteq [level : Nat, completed : SUBSET Node, results : NodeResults]
  /\ outcome \in Outcomes
  /\ terminal \in {"none", "completed", "paused", "failed"}
  /\ queued \in Int /\ active \in Int

\* Where the coordinator's cursor can be.
InLevel == pc \in {"admit", "decide", "limits", "await"}
Place ==
  /\ outcome = "open" <=> pc # "returned"
  /\ pc = "pauseCheck" \/ pc = "levelEnd" \/ InLevel => lvl \in DOMAIN Levels
  /\ pc \in {"cancelCheck", "pauseCheck"} => pos = 1 /\ chunkStart = 1
  /\ InLevel => /\ chunkStart <= pos
                /\ pos <= Len(Levels[lvl]) + 1
                /\ pos <= chunkStart + cfg.max_concurrent_nodes
  /\ pc \in {"decide", "limits"} => ChunkOpen
  /\ pc = "levelEnd" => pos = Len(Levels[lvl]) + 1

\* Every step keeps the cursor in its place.
LEMMA PlaceStep == ASSUME Types, Place, [Next]_vars PROVE Place'
<1> USE ConfigsAssumption, LevelsShape DEF Types, Place, InLevel, ChunkOpen, coordVars, Return
<1>1. CASE CancelCheck
  BY <1>1 DEF CancelCheck
<1>2. CASE PauseCheck
  BY <1>2 DEF PauseCheck
<1>3. CASE AdmitUnchecked
  BY <1>3 DEF AdmitUnchecked
<1>4. CASE LoadQueued
  BY <1>4 DEF LoadQueued
<1>5. CASE Decide
  <2>1. /\ pc = "decide" /\ UNCHANGED <<cfg, lvl, chunkStart, outcome>>
        /\ \/ pc' = "admit" /\ pos' \in {pos, pos + 1}
           \/ pc' = "limits" /\ pos' = pos
    BY <1>5 DEF Decide
  <2>2. CASE pc' = "admit" /\ pos' = pos
    BY <2>1, <2>2
  <2>3. CASE pc' = "admit" /\ pos' = pos + 1
    BY <2>1, <2>3
  <2>4. CASE pc' = "limits" /\ pos' = pos
    BY <2>1, <2>4
  <2>. QED
    BY <2>1, <2>2, <2>3, <2>4
<1>6. CASE LimitExceeded
  BY <1>6 DEF LimitExceeded
<1>7. CASE Spawn
  BY <1>7 DEF Spawn
<1>8. CASE ChunkFull
  BY <1>8 DEF ChunkFull
<1>9. CASE AwaitHandle
  BY <1>9 DEF AwaitHandle
<1>10. CASE EndChunk
  BY <1>10 DEF EndChunk
<1>11. CASE EndLevel
  BY <1>11 DEF EndLevel
<1>12. CASE Complete
  BY <1>12 DEF Complete
<1>13. CASE \E n \in Node : Task(n)
  BY <1>13 DEF Task, Dequeue, StartNode, ExecuteNode, PanicNode, FinishNode, taskFrame
<1>14. CASE Client
  BY <1>14 DEF Client, PauseExecution, ResumeExecution, CancelExecution,
                ClearCancellation, clientFrame
<1>15. CASE UNCHANGED vars
  BY <1>15 DEF vars
<1>. QED
  BY <1>1, <1>2, <1>3, <1>4, <1>5, <1>6, <1>7, <1>8, <1>9, <1>10, <1>11, <1>12, <1>13, <1>14, <1>15
     DEF Next, Coordinator

\* The node the coordinator is about to hand out.
LEMMA CurrentNode ==
  ASSUME Types, Place, pc \in {"decide", "limits"}
  PROVE  /\ lvl \in DOMAIN Levels /\ pos \in 1 .. Len(Levels[lvl])
         /\ Levels[lvl][pos] \in Node
         /\ Levels[lvl][pos] \in LevelNodes(lvl)
BY LevelsShape DEF Types, Place, InLevel, ChunkOpen

\* Every step keeps the types.
LEMMA TypesStep == ASSUME Types, Place, [Next]_vars PROVE Types'
<1>0. pc \in {"decide", "limits"} => Levels[lvl][pos] \in Node
  BY CurrentNode
<1> USE DEF Types, coordVars, taskVars, flagVars, bpVars, Return, Outcomes, TaskStates,
            Returned, NodeResults
<1>1. CASE CancelCheck
  BY <1>1 DEF CancelCheck
<1>2. CASE PauseCheck
  BY <1>2 DEF PauseCheck, Saved, Checkpoint, Recorded
<1>3. CASE AdmitUnchecked
  BY <1>3 DEF AdmitUnchecked, RecordQueued
<1>4. CASE LoadQueued
  BY <1>4 DEF LoadQueued
<1>5. CASE Decide
  <2>1. Levels[lvl][pos] \in Node
    BY <1>0, <1>5 DEF Decide
  <2>2. pos' \in Nat \ {0} /\ dropped' \subseteq Node /\ queued' \in Int /\ active' \in Int
        /\ pc' \in {"admit", "limits"} /\ seenQueued' \in Int
    BY <1>5, <2>1 DEF Decide, RecordQueued
  <2>. QED
    BY <1>5, <2>2 DEF Decide
<1>6. CASE LimitExceeded
  BY <1>6 DEF LimitExceeded
<1>7. CASE Spawn
  BY <1>0, HandlesAppend, <1>7 DEF Spawn
<1>8. CASE ChunkFull
  BY <1>8 DEF ChunkFull
<1>9. CASE AwaitHandle
  BY <1>9 DEF AwaitHandle
<1>10. CASE EndChunk
  BY <1>10 DEF EndChunk
<1>11. CASE EndLevel
  BY <1>11 DEF EndLevel, Saved, Checkpoint, Recorded
<1>12. CASE Complete
  BY <1>12 DEF Complete
<1>13. CASE \E n \in Node : Task(n)
  <2> SUFFICES ASSUME NEW n \in Node, Task(n) PROVE Types'
    BY <1>13
  <2> USE DEF taskFrame
  <2>1. CASE Dequeue(n)
    BY <2>1 DEF Dequeue, RecordDequeuedSub
  <2>2. CASE StartNode(n)
    BY <2>2 DEF StartNode, RecordDequeuedAdd
  <2>3. CASE ExecuteNode(n)
    BY <2>3 DEF ExecuteNode
  <2>4. CASE PanicNode(n)
    BY <2>4 DEF PanicNode
  <2>5. CASE FinishNode(n)
    BY <2>5 DEF FinishNode, RecordCompleted
  <2>. QED
    BY <2>1, <2>2, <2>3, <2>4, <2>5 DEF Task
<1>14. CASE Client
  <2> USE DEF Client, PauseExecution, ResumeExecution, CancelExecution, ClearCancellation
  <2>1. paused' \in BOOLEAN /\ cancelled' \in BOOLEAN
    BY <1>14, Zenon
  <2>2. UNCHANGED clientFrame
    BY <1>14
  <2>. QED
    BY <2>1, <2>2 DEF clientFrame
<1>15. CASE UNCHANGED vars
  BY <1>15 DEF vars
<1>. QED
  BY <1>1, <1>2, <1>3, <1>4, <1>5, <1>6, <1>7, <1>8, <1>9, <1>10, <1>11, <1>12, <1>13, <1>14, <1>15
     DEF Next, Coordinator

--------------------------------------------------------------------------------
(* Every node is where the cursor says: the nodes the coordinator has       *)
(* reached are spawned or dropped, and those spawned are recorded or still   *)
(* in the handles of the current chunk.                                      *)

\* The nodes the cursor has passed.
Reached == NodesBefore(lvl) \cup {Levels[lvl][i] : i \in 1 .. pos - 1}

Tracking ==
  /\ Spawned \cap dropped = {}
  /\ Recorded \subseteq Spawned
  /\ pc # "returned" => /\ Spawned \cup dropped = Reached
                        /\ Spawned = Recorded \cup ToSet(handles)
                        /\ Recorded \cap ToSet(handles) = {}
  /\ outcome \in {"Completed", "Paused", "Cancelled"} => Spawned = Recorded
  /\ \A i, j \in DOMAIN handles : handles[i] = handles[j] => i = j
  /\ InLevel => /\ Len(handles) <= pos - chunkStart
                /\ ToSet(handles) \subseteq LevelNodes(lvl)
  /\ pc \in {"cancelCheck", "pauseCheck", "levelEnd"} => handles = <<>>

\* The cursor's next node has not been reached yet, and passing it reaches it.
LEMMA CurrentNotReached ==
  ASSUME Types, Place, pc \in {"decide", "limits"}, NEW q, q = pos + 1
  PROVE  /\ Levels[lvl][pos] \notin Reached
         /\ NodesBefore(lvl) \cup {Levels[lvl][i] : i \in 1 .. q - 1}
              = Reached \cup {Levels[lvl][pos]}
<1>1. lvl \in DOMAIN Levels /\ pos \in 1 .. Len(Levels[lvl]) /\ pos \in Nat
      /\ Levels[lvl][pos] \in LevelNodes(lvl) /\ Len(Levels[lvl]) \in Nat
      /\ DOMAIN Levels[lvl] = 1 .. Len(Levels[lvl])
  BY CurrentNode, LevelsShape DEF Types
<1>2. Levels[lvl][pos] \notin NodesBefore(lvl)
  BY <1>1, BeforeDisjoint
<1>3. ASSUME NEW i \in 1 .. pos - 1 PROVE Levels[lvl][i] # Levels[lvl][pos]
  <2>1. i \in DOMAIN Levels[lvl] /\ pos \in DOMAIN Levels[lvl] /\ i # pos
    BY <1>1
  <2>. QED
    BY <1>1, <2>1, LevelsFacts
<1>4. q - 1 = pos /\ 1 .. pos = (1 .. pos - 1) \cup {pos}
  BY <1>1
<1>5. {Levels[lvl][i] : i \in 1 .. q - 1}
        = {Levels[lvl][i] : i \in 1 .. pos - 1} \cup {Levels[lvl][pos]}
  BY <1>4
<1>. QED
  BY <1>2, <1>3, <1>5 DEF Reached

\* A chunk without handles has no node to join.
LEMMA EmptyHandles == ToSet(<<>>) = {}
BY DEF ToSet

\* The dependencies of the node the coordinator is about to hand out are
\* recorded or dropped: none is among the handles.
LEMMA DependenciesResolved ==
  ASSUME Types, Place, Tracking, pc \in {"decide", "limits"}
  PROVE  Preds[Levels[lvl][pos]] \subseteq Recorded \cup dropped
<1>1. lvl \in DOMAIN Levels /\ Levels[lvl][pos] \in LevelNodes(lvl)
  BY CurrentNode
<1>2. Preds[Levels[lvl][pos]] \subseteq NodesBefore(lvl)
  BY <1>1, LevelsFacts
<1>3. NodesBefore(lvl) \subseteq Recorded \cup ToSet(handles) \cup dropped
  BY DEF Tracking, Reached
<1>4. NodesBefore(lvl) \cap ToSet(handles) = {}
  BY <1>1, BeforeDisjoint DEF Tracking, InLevel
<1>. QED
  BY <1>2, <1>3, <1>4

\* Tasks and clients spawn no node.
LEMMA TasksKeepSpawned ==
  ASSUME Types, (\E n \in Node : Task(n)) \/ Client \/ UNCHANGED vars
  PROVE  Spawned' = Spawned
<1>1. CASE Client \/ UNCHANGED vars
  BY <1>1 DEF Client, PauseExecution, ResumeExecution, CancelExecution,
              ClearCancellation, clientFrame, vars, taskVars, Spawned
<1>2. CASE \E n \in Node : Task(n)
  <2>1. PICK n \in Node : Task(n)
    BY <1>2
  <2>2. /\ task[n] # "none"
        /\ \E s \in TaskStates \ {"none"} : task' = [task EXCEPT ![n] = s]
    BY <2>1 DEF Task, Dequeue, StartNode, ExecuteNode, PanicNode, FinishNode, TaskStates
  <2>. QED
    BY <2>1, <2>2 DEF Spawned, Types
<1>. QED
  BY <1>1, <1>2

\* One step keeps the tracking.
LEMMA TrackingStep ==
  ASSUME Types, Place, Tracking, [Next]_vars PROVE Tracking'
<1> DEFINE Kept == /\ UNCHANGED <<lvl, pos, handles, results, dropped>>
                   /\ Spawned' = Spawned
<1>1. ASSUME Kept PROVE /\ Recorded' = Recorded /\ Reached' = Reached
                        /\ ToSet(handles)' = ToSet(handles) /\ dropped' = dropped
                        /\ Spawned' = Spawned /\ handles' = handles
                        /\ lvl' = lvl /\ pos' = pos
  BY <1>1 DEF Recorded, Reached
<1>2. CASE CancelCheck \/ PauseCheck \/ AdmitUnchecked \/ LoadQueued \/ LimitExceeded \/ ChunkFull
  <2>1. Kept
    BY <1>2 DEF CancelCheck, PauseCheck, AdmitUnchecked, LoadQueued, LimitExceeded,
                ChunkFull, coordVars, taskVars, Spawned
  <2>2. chunkStart' = chunkStart
    BY <1>2 DEF CancelCheck, PauseCheck, AdmitUnchecked, LoadQueued, LimitExceeded,
                ChunkFull, coordVars
  <2>3. /\ pc # "returned" /\ (outcome' = outcome \/ pc \in {"cancelCheck", "pauseCheck"} \/ outcome' = "LimitExceeded")
        /\ pc' \in {"cancelCheck", "pauseCheck", "levelEnd"} => pc = "cancelCheck"
        /\ InLevel' => InLevel \/ pc = "pauseCheck"
    BY <1>2 DEF CancelCheck, PauseCheck, AdmitUnchecked, LoadQueued, LimitExceeded,
                ChunkFull, Return, InLevel
  <2>4. /\ Spawned' \cap dropped' = {} /\ Recorded' \subseteq Spawned'
        /\ \A i, j \in DOMAIN handles' : handles'[i] = handles'[j] => i = j
        /\ pc' # "returned" => /\ Spawned' \cup dropped' = Reached'
                               /\ Spawned' = Recorded' \cup ToSet(handles)'
                               /\ Recorded' \cap ToSet(handles)' = {}
    BY <1>1, <2>1, <2>3 DEF Tracking
  <2>5. outcome' \in {"Completed", "Paused", "Cancelled"} => Spawned' = Recorded'
    BY <1>1, <2>1, <2>3, EmptyHandles DEF Tracking
  <2>6. pc' \in {"cancelCheck", "pauseCheck", "levelEnd"} => handles' = <<>>
    BY <1>1, <2>1, <2>3 DEF Tracking
  <2>7. InLevel' => /\ Len(handles') <= pos' - chunkStart'
                    /\ ToSet(handles)' \subseteq LevelNodes(lvl')
    <3>1. CASE InLevel
      BY <1>1, <2>1, <2>2, <3>1 DEF Tracking
    <3>2. CASE pc = "pauseCheck"
      BY <1>1, <2>1, <2>2, <3>2, EmptyHandles DEF Tracking, Place
    <3>. QED
      BY <2>3, <3>1, <3>2
  <2>. QED
    BY <2>4, <2>5, <2>6, <2>7 DEF Tracking
<1>3. CASE Decide
  <2>1. CASE dropped' = dropped /\ pos' = pos
    <3>1. Kept /\ chunkStart' = chunkStart /\ pc = "decide" /\ pc' \in {"admit", "limits"}
          /\ outcome' = outcome
      BY <1>3, <2>1 DEF Decide, taskVars, Spawned
    <3>. QED
      BY <1>1, <3>1 DEF Tracking, InLevel
  <2>2. CASE dropped' = dropped \cup {Levels[lvl][pos]} /\ pos' = pos + 1
    <3> DEFINE n == Levels[lvl][pos]
    <3>1. /\ pc = "decide" /\ pc' = "admit" /\ UNCHANGED <<lvl, handles, results, task, outcome, chunkStart>>
      BY <1>3, <2>2, CurrentNode DEF Decide, taskVars
    <3>2. n \notin Reached /\ Reached' = Reached \cup {n}
      BY <2>2, <3>1, CurrentNotReached DEF Reached
    <3>3. Spawned' = Spawned /\ Recorded' = Recorded /\ ToSet(handles)' = ToSet(handles)
      BY <3>1 DEF Spawned, Recorded
    <3>4. pos \in Nat /\ chunkStart \in Nat /\ Len(handles) \in Nat
      BY DEF Types
    <3>. QED
      BY <2>2, <3>1, <3>2, <3>3, <3>4 DEF Tracking, InLevel
  <2>. QED
    BY <1>3, <2>1, <2>2 DEF Decide
<1>4. CASE Spawn
  <2> DEFINE n == Levels[lvl][pos]
  <2>1. /\ pc = "limits" /\ pc' = "admit" /\ n \in Node /\ n \in LevelNodes(lvl)
        /\ UNCHANGED <<lvl, results, outcome, chunkStart, dropped>>
        /\ pos' = pos + 1 /\ handles' = Append(handles, n)
        /\ task' = [task EXCEPT ![n] = "spawned"]
    BY <1>4, CurrentNode DEF Spawn
  <2>2. n \notin Reached /\ Reached' = Reached \cup {n}
    BY <2>1, CurrentNotReached DEF Reached
  <2>3. Spawned' = Spawned \cup {n} /\ Recorded' = Recorded
    BY <2>1 DEF Spawned, Recorded, Types, TaskStates
  <2>4. n \notin ToSet(handles) /\ n \notin Spawned /\ n \notin dropped
    BY <2>1, <2>2 DEF Tracking
  <2>5. handles \in Seq(Node)
    BY DEF Types
  <2>6. /\ ToSet(handles)' = ToSet(handles) \cup {n} /\ Len(handles') = Len(handles) + 1
        /\ \A i, j \in DOMAIN handles' : handles'[i] = handles'[j] => i = j
    <3>1. Len(handles') = Len(handles) + 1 /\ ToSet(handles)' = ToSet(handles) \cup {n}
      BY <2>1, <2>5, HandlesAppend
    <3>2. \A i \in DOMAIN handles : handles[i] # n
      BY <2>4 DEF ToSet
    <3>3. /\ DOMAIN handles' = DOMAIN handles \cup {Len(handles) + 1}
          /\ handles'[Len(handles) + 1] = n
          /\ \A i \in DOMAIN handles : handles'[i] = handles[i]
      BY <2>1, <2>5
    <3>4. \A i, j \in DOMAIN handles : handles[i] = handles[j] => i = j
      BY DEF Tracking
    <3>. QED
      BY <3>1, <3>2, <3>3, <3>4
  <2>7. pos \in Nat /\ chunkStart \in Nat /\ Len(handles) \in Nat
    BY <2>5 DEF Types
  <2>8. Len(handles) <= pos - chunkStart /\ ToSet(handles) \subseteq LevelNodes(lvl)
    BY <2>1 DEF Tracking, InLevel
  <2>9. outcome = "open"
    BY <2>1 DEF Place
  <2>. QED
    BY <2>1, <2>2, <2>3, <2>4, <2>6, <2>7, <2>8, <2>9 DEF Tracking, InLevel
<1>5. CASE AwaitHandle
  <2> DEFINE n == Head(handles)
  <2>1. /\ pc = "await" /\ handles # <<>> /\ handles' = Tail(handles)
        /\ UNCHANGED <<lvl, pos, task, chunkStart, dropped>>
    BY <1>5 DEF AwaitHandle, taskVars
  <2>2. handles \in Seq(Node) /\ Len(handles) \in Nat /\ pos \in Nat /\ chunkStart \in Nat
    BY DEF Types
  <2>3. /\ n \in ToSet(handles) /\ n \in Node /\ ToSet(handles)' = ToSet(handles) \ {n}
        /\ \A i, j \in DOMAIN handles' : handles'[i] = handles'[j] => i = j
        /\ Len(handles') = Len(handles) - 1
    BY <2>1, <2>2, HandlesTail DEF Tracking
  <2>4. Spawned' = Spawned /\ Reached' = Reached
    BY <2>1 DEF Spawned, Reached
  <2>5. n \in Spawned /\ Spawned = Recorded \cup ToSet(handles)
        /\ Recorded \cap ToSet(handles) = {}
    BY <2>1, <2>3 DEF Tracking
  <2>6. \/ /\ Recorded' = Recorded \cup {n} /\ pc' = pc /\ outcome' = outcome
        \/ /\ Recorded' = Recorded /\ pc' = "returned" /\ outcome' = "Failed"
    <3>1. \/ /\ \E r \in {"success", "failure"} : results' = [results EXCEPT ![n] = r]
             /\ pc' = pc /\ outcome' = outcome
          \/ /\ results' = results /\ pc' = "returned" /\ outcome' = "Failed"
      BY <1>5 DEF AwaitHandle, Return
    <3>2. results \in [Node -> {Absent, "success", "failure"}]
      BY DEF Types, NodeResults
    <3>. QED
      BY <2>3, <3>1, <3>2 DEF Recorded, Absent
  <2>7. outcome = "open" /\ Len(handles) <= pos - chunkStart
        /\ ToSet(handles) \subseteq LevelNodes(lvl)
    BY <2>1 DEF Place, Tracking, InLevel
  <2>. QED
    BY <2>1, <2>2, <2>3, <2>4, <2>5, <2>6, <2>7 DEF Tracking, InLevel
<1>6. CASE EndChunk
  <2>1. Kept /\ outcome' = outcome /\ pc = "await" /\ handles = <<>> /\ chunkStart' = pos
        /\ pc' \in {"admit", "levelEnd"}
    BY <1>6 DEF EndChunk, taskVars, Spawned
  <2>2. pos \in Nat
    BY DEF Types
  <2>. QED
    BY <1>1, <2>1, <2>2, EmptyHandles DEF Tracking, InLevel
<1>7. CASE EndLevel
  <2>1. CASE pc' = "returned"
    <3>1. Kept /\ outcome' = "Failed" /\ pc = "levelEnd"
      BY <1>7, <2>1 DEF EndLevel, taskVars, Spawned, Return
    <3>. QED
      BY <1>1, <2>1, <3>1 DEF Tracking, InLevel
  <2>2. CASE pc' = "cancelCheck"
    <3>1. /\ pc = "levelEnd" /\ lvl' = lvl + 1 /\ pos' = 1
          /\ UNCHANGED <<handles, results, task, dropped, outcome>>
      BY <1>7, <2>2 DEF EndLevel, Return, taskVars
    <3>2. lvl \in DOMAIN Levels /\ pos = Len(Levels[lvl]) + 1 /\ outcome = "open"
      BY <3>1 DEF Place
    <3>3. Reached = NodesBefore(lvl) \cup LevelNodes(lvl)
      <4>1. Len(Levels[lvl]) \in Nat
            /\ LevelNodes(lvl) = {Levels[lvl][i] : i \in 1 .. Len(Levels[lvl])}
        BY <3>2, LevelsShape
      <4>2. pos - 1 = Len(Levels[lvl])
        BY <3>2, <4>1
      <4>. QED
        BY <4>1, <4>2 DEF Reached
    <3>4. Reached' = NodesBefore(lvl + 1)
      BY <3>1 DEF Reached
    <3>5. Reached' = Reached
      BY <3>2, <3>3, <3>4, BeforeNext
    <3>6. Spawned' = Spawned /\ Recorded' = Recorded /\ ToSet(handles)' = ToSet(handles)
      BY <3>1 DEF Spawned, Recorded
    <3>. QED
      BY <2>2, <3>1, <3>2, <3>5, <3>6 DEF Tracking, InLevel
  <2>. QED
    BY <1>7, <2>1, <2>2 DEF EndLevel, Return
<1>8. CASE Complete
  <2>1. Kept /\ outcome' = "Completed" /\ pc = "cancelCheck" /\ pc' = "returned"
    BY <1>8 DEF Complete, coordVars, taskVars, Spawned, Return
  <2>. QED
    BY <1>1, <2>1, EmptyHandles DEF Tracking, InLevel
<1>9. CASE (\E n \in Node : Task(n)) \/ Client \/ UNCHANGED vars
  <2>1. UNCHANGED <<pc, lvl, pos, chunkStart, handles, results, dropped, outcome>>
    BY <1>9 DEF Task, Dequeue, StartNode, ExecuteNode, PanicNode, FinishNode, taskFrame,
                Client, PauseExecution, ResumeExecution, CancelExecution,
                ClearCancellation, clientFrame, vars, coordVars
  <2>2. Spawned' = Spawned
    BY <1>9, TasksKeepSpawned
  <2>. QED
    BY <1>1, <2>1, <2>2 DEF Tracking, InLevel
<1>. QED
  BY <1>2, <1>3, <1>4, <1>5, <1>6, <1>7, <1>8, <1>9 DEF Next, Coordinator

\* The invariant holds before the first step.
LEMMA InvInit == Init => Types /\ Place /\ Tracking
<1>1. ASSUME Init PROVE Types /\ Place
  <2>1. task \in [Node -> TaskStates] /\ returned \in [Node -> Returned]
        /\ results \in NodeResults
    BY <1>1 DEF Init, TaskStates, Returned, NodeResults
  <2>2. outcome \in Outcomes /\ handles \in Seq(Node)
    BY <1>1 DEF Init, Outcomes
  <2>3. queued \in Int /\ active \in Int
    BY <1>1 DEF Init, BPInit
  <2>4. paused \in BOOLEAN /\ cancelled \in BOOLEAN
    BY <1>1, Zenon DEF Init
  <2>5. /\ cfg \in Configs /\ pc = "cancelCheck" /\ lvl = 1 /\ pos = 1 /\ chunkStart = 1
        /\ seenQueued = 0 /\ dropped = {} /\ nodesExecuted = 0 /\ ckpts = {}
        /\ outcome = "open" /\ terminal = "none"
    BY <1>1, Zenon DEF Init
  <2>6. Types
    BY <2>1, <2>2, <2>3, <2>4, <2>5 DEF Types
  <2>7. Place
    BY <2>5 DEF Place, InLevel
  <2>. QED
    BY <2>6, <2>7
<1>2. ASSUME Init PROVE Tracking
  <2>1. Spawned = {} /\ Recorded = {} /\ dropped = {} /\ handles = <<>> /\ lvl = 1 /\ pos = 1
        /\ pc = "cancelCheck" /\ outcome = "open"
    BY <1>2 DEF Init, Spawned, Recorded
  <2>2. Reached = {}
    BY <2>1, BeforeFirst DEF Reached
  <2>. QED
    BY <2>1, <2>2, EmptyHandles DEF Tracking, InLevel
<1>. QED
  BY <1>1, <1>2

\* The inductive invariant the theorems of this module rest on.
THEOREM Inductive == Spec => [](Types /\ Place /\ Tracking)
<1>1. Types /\ Place /\ Tracking /\ [Next]_vars => (Types /\ Place /\ Tracking)'
  BY TypesStep, PlaceStep, TrackingStep
<1>. QED
  BY <1>1, InvInit, PTL DEF Spec

--------------------------------------------------------------------------------
(* Checkpoints. *)

\* At a level boundary the run has settled exactly the levels before.
LEMMA Boundary ==
  ASSUME Types, Place, Tracking, pc \in {"cancelCheck", "pauseCheck", "levelEnd"}
  PROVE  /\ Spawned = Recorded
         /\ Recorded \cup dropped = IF pc = "levelEnd" THEN NodesBefore(lvl + 1)
                                    ELSE NodesBefore(lvl)
<1>1. Spawned = Recorded /\ Recorded \cup dropped = Reached
  BY EmptyHandles DEF Tracking
<1>2. CASE pc = "levelEnd"
  <2>1. lvl \in DOMAIN Levels /\ pos = Len(Levels[lvl]) + 1
    BY <1>2 DEF Place
  <2>2. Len(Levels[lvl]) \in Nat
        /\ LevelNodes(lvl) = {Levels[lvl][i] : i \in 1 .. Len(Levels[lvl])}
    BY <2>1, LevelsShape
  <2>3. pos - 1 = Len(Levels[lvl])
    BY <2>1, <2>2
  <2>4. Reached = NodesBefore(lvl) \cup LevelNodes(lvl)
    BY <2>2, <2>3 DEF Reached
  <2>. QED
    BY <1>1, <1>2, <2>1, <2>4, BeforeNext
<1>3. CASE pc # "levelEnd"
  <2>1. pos = 1
    BY <1>3 DEF Place
  <2>2. Reached = NodesBefore(lvl)
    BY <2>1 DEF Reached
  <2>. QED
    BY <1>1, <1>3, <2>2
<1>. QED
  BY <1>2, <1>3

\* A result, once recorded, is never changed, and no recorded node is dropped.
LEMMA ResultsKept ==
  ASSUME Types, Place, Tracking, [Next]_vars
  PROVE  /\ \A n \in Recorded : results'[n] = results[n]
         /\ dropped \subseteq dropped'
<1>1. CASE AwaitHandle
  <2>1. /\ handles # <<>> /\ dropped' = dropped /\ pc = "await"
        /\ \/ results' = results
           \/ \E r : results' = [results EXCEPT ![Head(handles)] = r]
    BY <1>1 DEF AwaitHandle
  <2>2. Head(handles) \in ToSet(handles)
    BY <2>1, HandlesTail DEF Types, Tracking
  <2>3. Head(handles) \notin Recorded
    BY <2>1, <2>2 DEF Tracking
  <2>. QED
    BY <2>1, <2>3 DEF Types, NodeResults, Recorded
<1>2. CASE ~AwaitHandle
  <2>1. results' = results /\ dropped \subseteq dropped'
    BY <1>2 DEF Next, Coordinator, CancelCheck, PauseCheck, AdmitUnchecked, LoadQueued,
                Decide, LimitExceeded, Spawn, ChunkFull, EndChunk, EndLevel, Complete,
                Task, Dequeue, StartNode, ExecuteNode, PanicNode, FinishNode, taskFrame,
                Client, PauseExecution, ResumeExecution, CancelExecution,
                ClearCancellation, clientFrame, vars
  <2>. QED
    BY <2>1
<1>. QED
  BY <1>1, <1>2

\* One step keeps every checkpoint consistent.
LEMMA CheckpointStep ==
  ASSUME Types, Place, Tracking, CheckpointConsistent, [Next]_vars
  PROVE  CheckpointConsistent'
<1> DEFINE New(l) == [level |-> l, completed |-> Recorded, results |-> results]
<1>1. \/ ckpts' = ckpts
      \/ pc = "pauseCheck" /\ ckpts' = ckpts \cup {New(lvl)} /\ results' = results
         /\ dropped' = dropped
      \/ pc = "levelEnd" /\ ckpts' = ckpts \cup {New(lvl + 1)} /\ results' = results
         /\ dropped' = dropped
  BY DEF Next, Coordinator, CancelCheck, PauseCheck, AdmitUnchecked, LoadQueued,
         Decide, LimitExceeded, Spawn, ChunkFull, AwaitHandle, EndChunk, EndLevel, Complete,
         Task, Dequeue, StartNode, ExecuteNode, PanicNode, FinishNode, taskFrame,
         Client, PauseExecution, ResumeExecution, CancelExecution,
         ClearCancellation, clientFrame, vars, Saved, Checkpoint
<1>2. SUFFICES ASSUME NEW c \in ckpts'
               PROVE  /\ c.completed = {n \in Node : c.results[n] # Absent}
                      /\ c.completed \subseteq NodesBefore(c.level)
                      /\ NodesBefore(c.level) \subseteq c.completed \cup dropped'
                      /\ \A n \in c.completed : c.results[n] = results'[n]
  BY DEF CheckpointConsistent
<1>3. CASE c \in ckpts
  <2>1. /\ c.completed = {n \in Node : c.results[n] # Absent}
        /\ c.completed \subseteq NodesBefore(c.level)
        /\ NodesBefore(c.level) \subseteq c.completed \cup dropped
        /\ \A n \in c.completed : c.results[n] = results[n]
    BY <1>3 DEF CheckpointConsistent
  <2>2. c.completed \subseteq Recorded
    BY <2>1 DEF Recorded
  <2>. QED
    BY <2>1, <2>2, ResultsKept
<1>4. CASE pc = "pauseCheck" /\ c = New(lvl) /\ results' = results /\ dropped' = dropped
  <2>1. Recorded \cup dropped = NodesBefore(lvl)
    BY <1>4, Boundary
  <2>. QED
    BY <1>4, <2>1 DEF Recorded
<1>5. CASE pc = "levelEnd" /\ c = New(lvl + 1) /\ results' = results /\ dropped' = dropped
  <2>1. Recorded \cup dropped = NodesBefore(lvl + 1)
    BY <1>5, Boundary
  <2>. QED
    BY <1>5, <2>1 DEF Recorded
<1>. QED
  BY <1>1, <1>3, <1>4, <1>5

\* Every checkpoint of a run is a consistent cut, whatever the workflow.
THEOREM CheckpointsAreConsistent == Spec => []CheckpointConsistent
<1>1. Init => CheckpointConsistent
  BY DEF Init, CheckpointConsistent
<1>2. Types /\ Place /\ Tracking /\ CheckpointConsistent /\ [Next]_vars
        => CheckpointConsistent'
  BY CheckpointStep
<1>. QED
  BY <1>1, <1>2, Inductive, PTL DEF Spec

\* One step keeps what a paused run has saved.
LEMMA PauseStep ==
  ASSUME Types, Place, Tracking, PauseLosesNothing, [Next]_vars
  PROVE  PauseLosesNothing'
<1>1. CASE PauseCheck /\ paused
  <2>1. /\ pc = "pauseCheck" /\ UNCHANGED <<cfg, task, results>>
        /\ \/ outcome' = "Paused" /\ ckpts' = Saved(lvl)
           \/ outcome' = "Failed"
    BY <1>1 DEF PauseCheck, Return, taskVars
  <2>2. CASE outcome' = "Paused" /\ cfg.store
    <3>1. Checkpoint(lvl) \in ckpts'
      BY <2>1, <2>2 DEF Saved
    <3>2. Checkpoint(lvl).results = results /\ Checkpoint(lvl).completed = Spawned
      BY <2>1, Boundary DEF Checkpoint
    <3>3. Spawned' = Spawned
      BY <2>1 DEF Spawned
    <3>. QED
      BY <2>1, <3>1, <3>2, <3>3 DEF PauseLosesNothing
  <2>. QED
    BY <2>1, <2>2 DEF PauseLosesNothing
<1>2. CASE ~(PauseCheck /\ paused)
  <2>1. outcome' = "Paused" => pc = "returned" /\ outcome = "Paused"
    BY <1>2 DEF Place, Next, Coordinator, CancelCheck, PauseCheck, AdmitUnchecked, LoadQueued,
         Decide, LimitExceeded, Spawn, ChunkFull, AwaitHandle, EndChunk, EndLevel, Complete,
         Task, Dequeue, StartNode, ExecuteNode, PanicNode, FinishNode, taskFrame,
         Client, PauseExecution, ResumeExecution, CancelExecution,
         ClearCancellation, clientFrame, vars, Return
  <2>2. ASSUME pc = "returned"
        PROVE  /\ UNCHANGED <<cfg, results, ckpts>>
               /\ \/ task' = task
                  \/ \E n \in Node, s \in TaskStates \ {"none"} :
                       task[n] # "none" /\ task' = [task EXCEPT ![n] = s]
    BY <2>2 DEF Next, Coordinator, CancelCheck, PauseCheck, AdmitUnchecked, LoadQueued,
         Decide, LimitExceeded, Spawn, ChunkFull, AwaitHandle, EndChunk, EndLevel, Complete,
         Task, Dequeue, StartNode, ExecuteNode, PanicNode, FinishNode, taskFrame,
         Client, PauseExecution, ResumeExecution, CancelExecution,
         ClearCancellation, clientFrame, vars, taskVars, TaskStates
  <2>3. ASSUME pc = "returned" PROVE Spawned' = Spawned
    BY <2>2, <2>3 DEF Spawned, Types
  <2>. QED
    BY <2>1, <2>2, <2>3 DEF PauseLosesNothing
<1>. QED
  BY <1>1, <1>2

\* A run that reports a pause has everything it did in a checkpoint.
THEOREM PauseIsLossless == Spec => []PauseLosesNothing
<1>1. Init => PauseLosesNothing
  BY DEF Init, PauseLosesNothing
<1>2. Types /\ Place /\ Tracking /\ PauseLosesNothing /\ [Next]_vars
        => PauseLosesNothing'
  BY PauseStep
<1>. QED
  BY <1>1, <1>2, Inductive, PTL DEF Spec

--------------------------------------------------------------------------------
(* The run implements DagRun. *)

\* The status of a node, told by the three sets it can be in.
LEMMA StatusBySets ==
  DagStatus = [n \in Node |-> IF n \in dropped THEN "skipped"
                              ELSE IF n \in Recorded THEN "settled"
                              ELSE IF n \in Spawned THEN "running" ELSE "pending"]
BY DEF DagStatus, Recorded, Spawned

\* The steps that move no node and leave the run open or returned as it was.
LEMMA QuietStep ==
  ASSUME Types, outcome' = outcome, results' = results, dropped' = dropped,
         Spawned' = Spawned
  PROVE  UNCHANGED Dag!dagVars
<1>1. Recorded' = Recorded
  BY DEF Recorded
<1>2. DagStatus' = [n \in Node |-> IF n \in dropped' THEN "skipped"
                                   ELSE IF n \in Recorded' THEN "settled"
                                   ELSE IF n \in Spawned' THEN "running" ELSE "pending"]
  BY DEF DagStatus, Recorded, Spawned
<1>. QED
  BY <1>1, <1>2, StatusBySets DEF Dag!dagVars

\* The steps that end the run and move no node.
LEMMA EndingStep ==
  ASSUME Types, Place, Tracking, results' = results, dropped' = dropped, task' = task,
         outcome = "open",
         \/ outcome' \in {"Failed", "LimitExceeded"}
         \/ outcome' \in {"Paused", "Cancelled"} /\ Spawned = Recorded
         \/ outcome' = "Completed" /\ \A n \in Node : n \in Recorded \cup dropped
  PROVE  Dag!Next
<1>1. DagStatus' = DagStatus
  BY DEF DagStatus
<1>2. CASE outcome' \in {"Failed", "LimitExceeded"}
  BY <1>1, <1>2 DEF Dag!Next, Dag!Abort, Dag!ErrorEnds
<1>3. CASE outcome' \in {"Paused", "Cancelled"} /\ Spawned = Recorded
  <2>1. \A n \in Node : DagStatus[n] # "running"
    BY <1>3, StatusBySets
  <2>. QED
    BY <1>1, <1>3, <2>1 DEF Dag!Next, Dag!Stop, Dag!QuietEnds
<1>4. CASE outcome' = "Completed" /\ \A n \in Node : n \in Recorded \cup dropped
  <2>1. \A n \in Node : DagStatus[n] \in {"settled", "skipped"}
    BY <1>4, StatusBySets
  <2>. QED
    BY <1>1, <1>4, <2>1 DEF Dag!Next, Dag!Complete, Dag!Resolved
<1>. QED
  BY <1>2, <1>3, <1>4

\* One step of the engine is one step of DagRun or none.
LEMMA DagStep ==
  ASSUME Types, Place, Tracking, [Next]_vars
  PROVE  [Dag!Next]_(Dag!dagVars)
<1>1. CASE CancelCheck \/ PauseCheck
  <2>1. /\ UNCHANGED <<results, dropped, task>>
        /\ pc \in {"cancelCheck", "pauseCheck"}
        /\ outcome' = outcome \/ outcome' \in {"Failed", "Paused", "Cancelled"}
    BY <1>1 DEF CancelCheck, PauseCheck, Return, taskVars
  <2>2. Spawned' = Spawned
    BY <2>1 DEF Spawned
  <2>3. Spawned = Recorded /\ outcome = "open"
    BY <2>1, Boundary DEF Place
  <2>. QED
    BY <2>1, <2>2, <2>3, QuietStep, EndingStep
<1>2. CASE AdmitUnchecked \/ LoadQueued \/ ChunkFull \/ EndChunk
  <2>1. UNCHANGED <<results, dropped, task, outcome>>
    BY <1>2 DEF AdmitUnchecked, LoadQueued, ChunkFull, EndChunk, taskVars
  <2>2. Spawned' = Spawned
    BY <2>1 DEF Spawned
  <2>. QED
    BY <2>1, <2>2, QuietStep
<1>3. CASE LimitExceeded
  <2>1. /\ UNCHANGED <<results, dropped, task>> /\ pc = "limits"
        /\ outcome' = "LimitExceeded"
    BY <1>3 DEF LimitExceeded, Return, taskVars
  <2>2. outcome = "open"
    BY <2>1 DEF Place
  <2>. QED
    BY <2>1, <2>2, EndingStep
<1>4. CASE Decide
  <2>1. /\ UNCHANGED <<results, task, outcome>> /\ pc = "decide"
        /\ dropped' = dropped \/ dropped' = dropped \cup {Levels[lvl][pos]}
    BY <1>4 DEF Decide, taskVars
  <2>2. CASE dropped' = dropped
    <3>1. Spawned' = Spawned
      BY <2>1 DEF Spawned
    <3>. QED
      BY <2>1, <2>2, <3>1, QuietStep
  <2>3. CASE dropped' = dropped \cup {Levels[lvl][pos]}
    <3> DEFINE n == Levels[lvl][pos]
    <3>1. n \in Node /\ n \notin Reached /\ Preds[n] \subseteq Recorded \cup dropped
      BY <2>1, CurrentNode, CurrentNotReached, DependenciesResolved
    <3>2. n \notin Spawned /\ n \notin Recorded /\ n \notin dropped /\ outcome = "open"
      BY <2>1, <3>1 DEF Tracking, Place
    <3>3. DagStatus[n] = "pending"
      BY <3>1, <3>2, StatusBySets
    <3>4. \A p \in Preds[n] : DagStatus[p] \in {"settled", "skipped"}
      BY <3>1, StatusBySets, LevelsFacts
    <3>5. DagStatus' = [DagStatus EXCEPT ![n] = "skipped"]
      BY <2>1, <2>3, <3>1 DEF DagStatus
    <3>6. Dag!Skip(n)
      BY <2>1, <3>2, <3>3, <3>4, <3>5 DEF Dag!Skip, Dag!Resolved
    <3>. QED
      BY <3>1, <3>6 DEF Dag!Next
  <2>. QED
    BY <2>1, <2>2, <2>3
<1>5. CASE Spawn
  <2> DEFINE n == Levels[lvl][pos]
  <2>1. UNCHANGED <<results, dropped, outcome>> /\ pc = "limits"
        /\ task' = [task EXCEPT ![n] = "spawned"]
    BY <1>5 DEF Spawn
  <2>2. n \in Node /\ n \notin Reached /\ Preds[n] \subseteq Recorded \cup dropped
    BY <2>1, CurrentNode, CurrentNotReached, DependenciesResolved
  <2>3. n \notin Spawned /\ n \notin Recorded /\ n \notin dropped /\ outcome = "open"
    BY <2>1, <2>2 DEF Tracking, Place
  <2>4. DagStatus[n] = "pending"
    BY <2>2, <2>3, StatusBySets
  <2>5. \A p \in Preds[n] : DagStatus[p] \in {"settled", "skipped"}
    BY <2>2, StatusBySets, LevelsFacts
  <2>6. DagStatus' = [DagStatus EXCEPT ![n] = "running"]
    BY <2>1, <2>2, <2>3 DEF DagStatus, Recorded, Types
  <2>7. Dag!Start(n)
    BY <2>1, <2>3, <2>4, <2>5, <2>6 DEF Dag!Start, Dag!Resolved
  <2>. QED
    BY <2>2, <2>7 DEF Dag!Next
<1>6. CASE AwaitHandle
  <2> DEFINE n == Head(handles)
  <2>1. /\ pc = "await" /\ handles # <<>> /\ UNCHANGED <<task, dropped>>
        /\ \/ /\ \E r \in {"success", "failure"} : results' = [results EXCEPT ![n] = r]
              /\ outcome' = outcome
           \/ results' = results /\ outcome' = "Failed"
    BY <1>6 DEF AwaitHandle, Return, taskVars
  <2>2. n \in Node /\ n \in ToSet(handles)
    BY <2>1, HandlesTail DEF Types, Tracking
  <2>3. outcome = "open" /\ n \in Spawned /\ n \notin Recorded /\ n \notin dropped
    BY <2>1, <2>2 DEF Place, Tracking
  <2>4. CASE outcome' = "Failed" /\ results' = results
    BY <2>1, <2>3, <2>4, EndingStep
  <2>5. CASE outcome' = outcome
             /\ \E r \in {"success", "failure"} : results' = [results EXCEPT ![n] = r]
    <3>1. DagStatus[n] = "running"
      BY <2>2, <2>3, StatusBySets
    <3>2. DagStatus' = [DagStatus EXCEPT ![n] = "settled"]
      BY <2>1, <2>2, <2>3, <2>5 DEF DagStatus, Types, NodeResults, Absent
    <3>3. Dag!Settle(n)
      BY <2>3, <2>5, <3>1, <3>2 DEF Dag!Settle
    <3>. QED
      BY <2>2, <3>3 DEF Dag!Next
  <2>. QED
    BY <2>1, <2>4, <2>5
<1>7. CASE EndLevel
  <2>1. /\ UNCHANGED <<results, dropped, task>> /\ pc = "levelEnd"
        /\ outcome' = outcome \/ outcome' = "Failed"
    BY <1>7 DEF EndLevel, Return, taskVars
  <2>2. Spawned' = Spawned /\ outcome = "open"
    BY <2>1 DEF Spawned, Place
  <2>. QED
    BY <2>1, <2>2, QuietStep, EndingStep
<1>8. CASE Complete
  <2>1. UNCHANGED <<results, dropped, task>> /\ pc = "cancelCheck" /\ lvl > Len(Levels)
        /\ outcome' = "Completed"
    BY <1>8 DEF Complete, Return, taskVars
  <2>2. outcome = "open" /\ lvl \in Nat
    BY <2>1 DEF Place, Types
  <2>3. Recorded \cup dropped = Node
    BY <2>1, <2>2, Boundary, BeforeLast
  <2>. QED
    BY <2>1, <2>2, <2>3, EndingStep
<1>9. CASE (\E n \in Node : Task(n)) \/ Client \/ UNCHANGED vars
  <2>1. UNCHANGED <<results, dropped, outcome>>
    BY <1>9 DEF Task, Dequeue, StartNode, ExecuteNode, PanicNode, FinishNode, taskFrame,
                Client, PauseExecution, ResumeExecution, CancelExecution,
                ClearCancellation, clientFrame, vars
  <2>2. Spawned' = Spawned
    BY <1>9, TasksKeepSpawned
  <2>. QED
    BY <2>1, <2>2, QuietStep
<1>. QED
  BY <1>1, <1>2, <1>3, <1>4, <1>5, <1>6, <1>7, <1>8, <1>9 DEF Next, Coordinator

\* Every run keeps what DagRun promises: dependencies settled before a node
\* starts, one start and one result per node, nothing left running behind a
\* run that completes, pauses or is cancelled.
THEOREM RunImplementsDagRun == Spec => ImplementsDagRun
<1>1. Init => Dag!Init
  <2>1. ASSUME Init PROVE Dag!Init
    <3>1. dropped = {} /\ outcome = "open"
          /\ (\A n \in Node : results[n] = Absent) /\ \A n \in Node : task[n] = "none"
      BY <2>1 DEF Init
    <3>. QED
      BY <3>1 DEF Dag!Init, DagStatus
  <2>. QED
    BY <2>1
<1>2. Types /\ Place /\ Tracking /\ [Next]_vars => [Dag!Next]_(Dag!dagVars)
  BY DagStep
<1>. QED
  BY <1>1, <1>2, Inductive, PTL DEF Spec, ImplementsDagRun, Dag!Spec

--------------------------------------------------------------------------------
(***************************************************************************)
(* The counters: the backpressure monitor and the resource enforcer count  *)
(* exactly the tasks they are meant to count, although no two of their     *)
(* updates are atomic, and so the limits they enforce hold with the slack  *)
(* stated in the properties.                                               *)
(***************************************************************************)
(* Counting tasks. *)

\* The number of tasks in one of the states S.
Count(S) == Cardinality({n \in Node : task[n] \in S})

\* A count of tasks is a number: there are finitely many nodes.
LEMMA CountIsNat == ASSUME NEW S PROVE Count(S) \in Nat
<1>1. IsFiniteSet({n \in Node : task[n] \in S})
  BY NodeAssumption, FS_Subset
<1>. QED
  BY <1>1, FS_CardinalityType DEF Count

\* The step changes the task of n only.
OnlyTask(n) == \A m \in Node \ {n} : task'[m] = task[m]

\* A task that changes its state leaves the count of the old state and joins
\* that of the new one.
LEMMA CountStep ==
  ASSUME Types, NEW n \in Node, OnlyTask(n), NEW CONSTANT S
  PROVE  Count(S)' = Count(S) + (IF task'[n] \in S THEN 1 ELSE 0)
                              - (IF task[n] \in S THEN 1 ELSE 0)
<1> DEFINE In == {m \in Node : task[m] \in S}
           Now == {m \in Node : task'[m] \in S}
<1>1. IsFiniteSet(In) /\ IsFiniteSet(Now)
  BY NodeAssumption, FS_Subset
<1>2. Cardinality(In) \in Nat /\ Cardinality(Now) \in Nat
  BY <1>1, FS_CardinalityType
<1>3. \A m \in Node \ {n} : task'[m] = task[m]
  BY DEF OnlyTask
<1>4. Count(S) = Cardinality(In) /\ Count(S)' = Cardinality(Now)
  BY DEF Count
<1>5. CASE task'[n] \in S /\ task[n] \in S
  <2>1. Now = In
    BY <1>3, <1>5
  <2>2. Count(S)' = Count(S) /\ Count(S) \in Nat
    BY <1>2, <1>4, <2>1
  <2>. QED
    BY <1>5, <2>2
<1>6. CASE task'[n] \in S /\ task[n] \notin S
  <2>1. Now = In \cup {n} /\ n \notin In
    BY <1>3, <1>6
  <2>2. Cardinality(Now) = Cardinality(In) + 1
    BY <1>1, <2>1, FS_AddElement
  <2>. QED
    BY <1>2, <1>4, <1>6, <2>2
<1>7. CASE task'[n] \notin S /\ task[n] \in S
  <2>1. Now = In \ {n} /\ n \in In
    BY <1>3, <1>7
  <2>2. Cardinality(Now) = Cardinality(In) - 1
    BY <1>1, <2>1, FS_RemoveElement
  <2>. QED
    BY <1>2, <1>4, <1>7, <2>2
<1>8. CASE task'[n] \notin S /\ task[n] \notin S
  <2>1. Now = In
    BY <1>3, <1>8
  <2>2. Count(S)' = Count(S) /\ Count(S) \in Nat
    BY <1>2, <1>4, <2>1
  <2>. QED
    BY <1>8, <2>2
<1>. QED
  BY <1>5, <1>6, <1>7, <1>8

--------------------------------------------------------------------------------
(* What the counters count. *)

Waiting == Count({"spawned"})
Between == Count({"dequeuing"})
Working == Count({"running", "executed", "panicked"})
Done == Count({"finished"})

\* The four counts are numbers.
LEMMA CountsAreNat == Waiting \in Nat /\ Between \in Nat /\ Working \in Nat /\ Done \in Nat
BY CountIsNat DEF Waiting, Between, Working, Done

\* One task changing its state, seen by the four counts.
LEMMA CountsStep ==
  ASSUME Types, NEW n \in Node, OnlyTask(n)
  PROVE  /\ Waiting' = Waiting + (IF task'[n] = "spawned" THEN 1 ELSE 0)
                               - (IF task[n] = "spawned" THEN 1 ELSE 0)
         /\ Between' = Between + (IF task'[n] = "dequeuing" THEN 1 ELSE 0)
                               - (IF task[n] = "dequeuing" THEN 1 ELSE 0)
         /\ Working' = Working
              + (IF task'[n] \in {"running", "executed", "panicked"} THEN 1 ELSE 0)
              - (IF task[n] \in {"running", "executed", "panicked"} THEN 1 ELSE 0)
         /\ Done' = Done + (IF task'[n] = "finished" THEN 1 ELSE 0)
                         - (IF task[n] = "finished" THEN 1 ELSE 0)
<1>1. \A x, y : x \in {y} <=> x = y
  OBVIOUS
<1>2. Waiting' = Waiting + (IF task'[n] \in {"spawned"} THEN 1 ELSE 0)
                         - (IF task[n] \in {"spawned"} THEN 1 ELSE 0)
  BY CountStep DEF Waiting
<1>3. Between' = Between + (IF task'[n] \in {"dequeuing"} THEN 1 ELSE 0)
                         - (IF task[n] \in {"dequeuing"} THEN 1 ELSE 0)
  BY CountStep DEF Between
<1>4. Working' = Working
        + (IF task'[n] \in {"running", "executed", "panicked"} THEN 1 ELSE 0)
        - (IF task[n] \in {"running", "executed", "panicked"} THEN 1 ELSE 0)
  BY CountStep DEF Working
<1>5. Done' = Done + (IF task'[n] \in {"finished"} THEN 1 ELSE 0)
                   - (IF task[n] \in {"finished"} THEN 1 ELSE 0)
  BY CountStep DEF Done
<1>. QED
  BY <1>1, <1>2, <1>3, <1>4, <1>5

\* A node that record_queued has counted and that is not spawned yet.
Entering == IF pc = "limits" \/ outcome = "LimitExceeded" THEN 1 ELSE 0

\* A step of the coordinator or of a client that spawns nothing changes no count.
LEMMA CountsKept ==
  ASSUME task' = task
  PROVE  Waiting' = Waiting /\ Between' = Between /\ Working' = Working /\ Done' = Done
BY DEF Waiting, Between, Working, Done, Count

\* The counters of the code against the counts: a node is in queued_count from its
\* admission until a worker takes it, in active_count from then until it finishes,
\* and in neither between the two atomics of record_dequeued.
Counters ==
  /\ queued = IF Monitored THEN Waiting + Entering ELSE 0
  /\ active = IF Monitored THEN Working ELSE 0
  /\ nodesExecuted = Done
  /\ Between <= Workers
  /\ seenQueued \in Nat
  /\ pc = "decide" => queued <= seenQueued /\ cfg.strategy \in {"Block", "Drop", "Throttle"}

\* A result is recorded for finished tasks only.
Finishing ==
  /\ \A n \in Recorded : task[n] = "finished"
  /\ \A n \in Node : task[n] = "panicked" => returned[n] = "panic"

\* No step records a task before it has finished.
LEMMA FinishingStep ==
  ASSUME Types, Place, Tracking, Finishing, [Next]_vars PROVE Finishing'
<1>1. CASE AwaitHandle
  <2> DEFINE n == Head(handles)
  <2>1. /\ handles # <<>> /\ task' = task /\ returned' = returned
        /\ task[n] \in {"finished", "panicked"}
        /\ \/ results' = results
           \/ returned[n] # "panic" /\ \E r : results' = [results EXCEPT ![n] = r]
    BY <1>1 DEF AwaitHandle, taskVars
  <2>2. n \in Node
    BY <2>1, HandlesTail DEF Types, Tracking
  <2>3. results' # results => task[n] = "finished"
    BY <2>1, <2>2 DEF Finishing
  <2>. QED
    BY <2>1, <2>2, <2>3 DEF Finishing, Recorded, Types, NodeResults
<1>2. CASE Spawn
  <2> DEFINE n == Levels[lvl][pos]
  <2>1. /\ pc = "limits" /\ UNCHANGED <<results, returned>>
        /\ task' = [task EXCEPT ![n] = "spawned"]
    BY <1>2 DEF Spawn
  <2>2. n \in Node /\ n \notin Recorded
    BY <2>1, CurrentNode, CurrentNotReached DEF Tracking
  <2>. QED
    BY <2>1, <2>2 DEF Finishing, Recorded, Types
<1>3. CASE \E n \in Node : Task(n)
  <2>1. PICK n \in Node : Task(n)
    BY <1>3
  <2>2. /\ results' = results /\ task[n] \notin {"finished", "panicked"}
        /\ \E s, r : /\ task' = [task EXCEPT ![n] = s]
                     /\ returned' = returned \/ returned' = [returned EXCEPT ![n] = r]
                     /\ s = "panicked" => r = "panic" /\ returned' = [returned EXCEPT ![n] = r]
    BY <2>1 DEF Task, Dequeue, StartNode, ExecuteNode, PanicNode, FinishNode, taskFrame
  <2>. QED
    BY <2>2 DEF Finishing, Recorded, Types
<1>4. CASE ~(AwaitHandle \/ Spawn \/ \E n \in Node : Task(n))
  <2>1. UNCHANGED <<results, task, returned>>
    BY <1>4 DEF Next, Coordinator, CancelCheck, PauseCheck, AdmitUnchecked, LoadQueued,
                Decide, LimitExceeded, ChunkFull, EndChunk, EndLevel, Complete,
                Client, PauseExecution, ResumeExecution, CancelExecution,
                ClearCancellation, clientFrame, vars, taskVars
  <2>. QED
    BY <2>1 DEF Finishing, Recorded
<1>. QED
  BY <1>1, <1>2, <1>3, <1>4

\* The steps that touch no counter and no task.
LEMMA CountersKept ==
  ASSUME Counters, UNCHANGED <<cfg, task, queued, active, nodesExecuted, seenQueued>>,
         Entering' = Entering, pc' # "decide"
  PROVE  Counters'
BY CountsKept DEF Counters, Monitored

\* Every step moves the counters along with the counts.
LEMMA CountersStep ==
  ASSUME Types, Place, Tracking, Counters, [Next]_vars PROVE Counters'
<1>0. /\ queued \in Int /\ active \in Int /\ nodesExecuted \in Nat /\ cfg' = cfg
      /\ Waiting \in Nat /\ Between \in Nat /\ Working \in Nat /\ Done \in Nat
  BY CountsAreNat DEF Types, Next, Coordinator, CancelCheck, PauseCheck, AdmitUnchecked,
         LoadQueued, Decide, LimitExceeded, Spawn, ChunkFull, AwaitHandle, EndChunk,
         EndLevel, Complete, Task, Dequeue, StartNode, ExecuteNode, PanicNode, FinishNode,
         taskFrame, Client, PauseExecution, ResumeExecution, CancelExecution,
         ClearCancellation, clientFrame, vars
<1>1. CASE CancelCheck \/ PauseCheck \/ ChunkFull \/ AwaitHandle \/ EndChunk \/ EndLevel
           \/ Complete \/ LimitExceeded
  <2>1. UNCHANGED <<cfg, task, queued, active, nodesExecuted, seenQueued>> /\ pc' # "decide"
    BY <1>1 DEF CancelCheck, PauseCheck, ChunkFull, AwaitHandle, EndChunk, EndLevel,
                Complete, LimitExceeded, coordVars, taskVars, bpVars, Return
  <2>2. Entering' = Entering
    BY <1>1 DEF CancelCheck, PauseCheck, ChunkFull, AwaitHandle, EndChunk, EndLevel,
                Complete, LimitExceeded, Return, Entering, Place
  <2>. QED
    BY <2>1, <2>2, CountersKept
<1>2. CASE LoadQueued
  <2>1. /\ UNCHANGED <<task, queued, active, nodesExecuted, outcome>>
        /\ seenQueued' = queued /\ pc = "admit" /\ pc' = "decide"
        /\ cfg.strategy \in {"Block", "Drop", "Throttle"}
    BY <1>2 DEF LoadQueued, taskVars, bpVars
  <2>2. Entering' = Entering
    BY <2>1 DEF Entering
  <2>3. queued \in Nat
    BY <1>0 DEF Counters, Entering
  <2>. QED
    BY <1>0, <2>1, <2>2, <2>3, CountsKept DEF Counters, Monitored
<1>3. CASE AdmitUnchecked \/ Decide
  <2>1. /\ UNCHANGED <<task, active, nodesExecuted, outcome>> /\ pc' # "decide"
        /\ seenQueued' \in Nat /\ pc # "limits"
        /\ \/ pc' = "admit" /\ queued' = queued
           \/ pc' = "limits" /\ queued' = IF Monitored THEN queued + 1 ELSE queued
    <3>1. CASE AdmitUnchecked
      BY <3>1 DEF AdmitUnchecked, RecordQueued, bpVars, coordVars, taskVars, Counters
    <3>2. CASE Decide
      <4>1. Monitored
        BY <3>2 DEF Decide, Monitored, Counters
      <4>2. UNCHANGED <<task, nodesExecuted, outcome>> /\ seenQueued' = 0 /\ pc = "decide"
        BY <3>2, Zenon DEF Decide, taskVars
      <4>3. /\ active' = active
            /\ \/ pc' = "admit" /\ queued' = queued
               \/ pc' = "limits" /\ queued' = queued + 1
        BY <3>2 DEF Decide, RecordQueued, bpVars
      <4>. QED
        BY <3>2, <4>1, <4>2, <4>3
    <3>. QED
      BY <1>3, <3>1, <3>2
  <2>2. outcome = "open"
    BY <1>3 DEF AdmitUnchecked, Decide, Place
  <2>3. Entering = 0 /\ Entering' = IF pc' = "limits" THEN 1 ELSE 0
    BY <2>1, <2>2 DEF Entering
  <2>4. Waiting' = Waiting /\ Between' = Between /\ Working' = Working /\ Done' = Done
    BY <2>1, CountsKept
  <2>5. Monitored' = Monitored
    BY <1>0 DEF Monitored
  <2>. QED
    BY <1>0, <2>1, <2>3, <2>4, <2>5 DEF Counters
<1>4. CASE Spawn
  <2> DEFINE n == Levels[lvl][pos]
  <2>1. /\ task' = [task EXCEPT ![n] = "spawned"] /\ pc = "limits" /\ pc' = "admit"
        /\ UNCHANGED <<queued, active, nodesExecuted, seenQueued, outcome>>
    BY <1>4 DEF Spawn, bpVars
  <2>2. n \in Node /\ outcome = "open" /\ task[n] = "none"
    BY <2>1, CurrentNode, CurrentNotReached DEF Place, Tracking, Spawned
  <2>3. Entering = 1 /\ Entering' = 0 /\ Monitored' = Monitored
    BY <1>0, <2>1, <2>2 DEF Entering, Monitored
  <2>4. /\ Waiting' = Waiting + 1
        /\ Working' = Working
        /\ Done' = Done
        /\ Between' = Between
    <3>1. OnlyTask(n) /\ task'[n] = "spawned"
      BY <2>1, <2>2 DEF OnlyTask, Types
    <3>. QED
      BY <1>0, <2>2, <3>1, CountsStep, CountsAreNat
  <2>. QED
    BY <1>0, <2>1, <2>3, <2>4 DEF Counters
<1>5. CASE \E n \in Node : Task(n)
  <2>1. PICK n \in Node : Task(n)
    BY <1>5
  <2>2. /\ UNCHANGED <<pc, outcome, seenQueued>> /\ Entering' = Entering
        /\ Monitored' = Monitored
    BY <1>0, <2>1 DEF Task, Dequeue, StartNode, ExecuteNode, PanicNode, FinishNode, taskFrame,
                      coordVars, Entering, Monitored
  <2>3. CASE Dequeue(n)
    <3>1. /\ task[n] = "spawned" /\ task' = [task EXCEPT ![n] = "dequeuing"]
          /\ Between < Workers
          /\ active' = active /\ nodesExecuted' = nodesExecuted
          /\ queued' = IF Monitored THEN queued - 1 ELSE queued
      <4>1. {m \in Node : task[m] = "dequeuing"} = {m \in Node : task[m] \in {"dequeuing"}}
        OBVIOUS
      <4>. QED
        BY <2>3, <4>1 DEF Dequeue, RecordDequeuedSub, bpVars, Between, Count
    <3>2. OnlyTask(n) /\ task'[n] = "dequeuing"
      BY <3>1 DEF OnlyTask, Types
    <3>3. /\ Waiting' = Waiting - 1
          /\ Working' = Working
          /\ Done' = Done
          /\ Between' = Between + 1
      BY <1>0, <3>1, <3>2, CountsStep, CountsAreNat
    <3>4. Between' <= Workers
      BY <1>0, <3>1, <3>3, WorkersAssumption
    <3>5. /\ queued' = IF Monitored' THEN Waiting' + Entering' ELSE 0
          /\ pc' = "decide" => queued' <= seenQueued'
      BY <1>0, <2>2, <3>1, <3>3 DEF Counters, Entering
    <3>. QED
      BY <1>0, <2>2, <3>1, <3>3, <3>4, <3>5 DEF Counters
  <2>4. CASE StartNode(n)
    <3>1. /\ task[n] = "dequeuing" /\ task' = [task EXCEPT ![n] = "running"]
          /\ queued' = queued /\ nodesExecuted' = nodesExecuted
          /\ active' = IF Monitored THEN active + 1 ELSE active
      BY <2>4 DEF StartNode, RecordDequeuedAdd, bpVars
    <3>2. OnlyTask(n) /\ task'[n] = "running"
      BY <3>1 DEF OnlyTask, Types
    <3>3. /\ Waiting' = Waiting
          /\ Working' = Working + 1
          /\ Done' = Done
          /\ Between' = Between - 1
      BY <1>0, <3>1, <3>2, CountsStep, CountsAreNat
    <3>. QED
      BY <1>0, <2>2, <3>1, <3>3, WorkersAssumption DEF Counters
  <2>5. CASE ExecuteNode(n) \/ PanicNode(n)
    <3>1. /\ task[n] = "running"
          /\ UNCHANGED <<queued, active, nodesExecuted>>
          /\ \E s \in {"executed", "panicked"} : task' = [task EXCEPT ![n] = s]
      BY <2>5 DEF ExecuteNode, PanicNode, bpVars
    <3>2. /\ Waiting' = Waiting
          /\ Working' = Working
          /\ Done' = Done
          /\ Between' = Between
      <4>1. PICK s \in {"executed", "panicked"} : task' = [task EXCEPT ![n] = s]
        BY <3>1
      <4>2. OnlyTask(n) /\ task'[n] = s
        BY <4>1 DEF OnlyTask, Types
      <4>. QED
        BY <1>0, <3>1, <4>1, <4>2, CountsStep, CountsAreNat
    <3>. QED
      BY <1>0, <2>2, <3>1, <3>2 DEF Counters
  <2>6. CASE FinishNode(n)
    <3>1. /\ task[n] = "executed" /\ task' = [task EXCEPT ![n] = "finished"]
          /\ queued' = queued /\ nodesExecuted' = nodesExecuted + 1
          /\ active' = IF Monitored THEN active - 1 ELSE active
      BY <2>6 DEF FinishNode, RecordCompleted, bpVars
    <3>2. OnlyTask(n) /\ task'[n] = "finished"
      BY <3>1 DEF OnlyTask, Types
    <3>3. /\ Waiting' = Waiting
          /\ Working' = Working - 1
          /\ Done' = Done + 1
          /\ Between' = Between
      BY <1>0, <3>1, <3>2, CountsStep, CountsAreNat
    <3>. QED
      BY <1>0, <2>2, <3>1, <3>3 DEF Counters
  <2>. QED
    BY <2>1, <2>3, <2>4, <2>5, <2>6 DEF Task
<1>6. CASE Client \/ UNCHANGED vars
  <2>1. UNCHANGED <<cfg, task, queued, active, nodesExecuted, seenQueued, pc, outcome>>
    BY <1>6 DEF Client, PauseExecution, ResumeExecution, CancelExecution,
                ClearCancellation, clientFrame, vars, taskVars, bpVars, coordVars
  <2>. QED
    BY <2>1, CountsKept DEF Counters, Monitored, Entering
<1>. QED
  BY <1>1, <1>2, <1>3, <1>4, <1>5, <1>6 DEF Next, Coordinator

\* Nothing is counted before the first step.
LEMMA CountersInit == Init => Counters /\ Finishing
<1> SUFFICES ASSUME Init PROVE Counters /\ Finishing
  OBVIOUS
<1>1. /\ \A n \in Node : task[n] = "none" /\ results[n] = Absent
      /\ pc = "cancelCheck" /\ outcome = "open" /\ seenQueued = 0 /\ nodesExecuted = 0
      /\ queued = 0 /\ active = 0
  BY DEF Init, BPInit
<1>2. Waiting = 0 /\ Between = 0 /\ Working = 0 /\ Done = 0
  BY <1>1, FS_EmptySet DEF Waiting, Between, Working, Done, Count
<1>3. Entering = 0
  BY <1>1 DEF Entering
<1>. QED
  BY <1>1, <1>2, <1>3, WorkersAssumption DEF Counters, Finishing, Recorded

\* The counters of the monitor and of the enforcer count what they are meant to.
THEOREM CountersInductive == Spec => [](Counters /\ Finishing)
<1>1. Types /\ Place /\ Tracking /\ Counters /\ Finishing /\ [Next]_vars
        => (Counters /\ Finishing)'
  BY CountersStep, FinishingStep
<1>. QED
  BY <1>1, CountersInit, Inductive, PTL DEF Spec

\* Type correctness; that the counters never go below zero is the part that
\* needs the whole invariant.
THEOREM TypeCorrect == Spec => []TypeOK
<1>1. Types /\ Counters => TypeOK
  <2> SUFFICES ASSUME Types, Counters PROVE TypeOK
    OBVIOUS
  <2>1. queued \in Nat /\ active \in Nat /\ seenQueued \in Nat
    BY CountsAreNat DEF Counters, Entering
  <2>2. paused \in BOOLEAN /\ cancelled \in BOOLEAN
    BY DEF Types
  <2>. QED
    BY <2>1, <2>2 DEF Types, TypeOK
<1>. QED
  BY <1>1, Inductive, CountersInductive, PTL

--------------------------------------------------------------------------------
(* The limits. *)

\* The tasks between the two atomics of record_dequeued, counted two ways.
LEMMA DequeuingIsBetween == Cardinality(Dequeuing) = Between
<1>1. Dequeuing = {n \in Node : task[n] \in {"dequeuing"}}
  BY DEF Dequeuing
<1>. QED
  BY <1>1 DEF Between, Count

\* Admitting a node is the only step that adds to the nodes in flight.
LEMMA InFlightStep ==
  ASSUME Types, Place, Tracking, Counters, InFlightBounded, [Next]_vars
  PROVE  InFlightBounded'
<1> DEFINE Load == queued + Between + active
           Bound == IF cfg.max_queued_nodes = 0 \/ cfg.max_active_nodes = 0 THEN 0
                    ELSE cfg.max_queued_nodes + cfg.max_active_nodes - 1 + Workers
<1>1. InFlightBounded <=> (cfg.strategy \in {"Block", "Drop"} => Load <= Bound)
  BY DequeuingIsBetween DEF InFlightBounded
<1>2. InFlightBounded' <=> (cfg'.strategy \in {"Block", "Drop"} => Load' <= Bound')
  <2>1. Dequeuing' = {n \in Node : task'[n] \in {"dequeuing"}}
    BY DEF Dequeuing
  <2>2. Cardinality(Dequeuing)' = Between'
    BY <2>1 DEF Between, Count
  <2>. QED
    BY <2>2 DEF InFlightBounded
<1>3. cfg' = cfg /\ cfg \in Configs
  BY DEF Types, Next, Coordinator, CancelCheck, PauseCheck, AdmitUnchecked,
         LoadQueued, Decide, LimitExceeded, Spawn, ChunkFull, AwaitHandle, EndChunk,
         EndLevel, Complete, Task, Dequeue, StartNode, ExecuteNode, PanicNode, FinishNode,
         taskFrame, Client, PauseExecution, ResumeExecution, CancelExecution,
         ClearCancellation, clientFrame, vars
<1>4. /\ cfg.max_queued_nodes \in Nat /\ cfg.max_active_nodes \in Nat /\ Workers \in Nat \ {0}
  BY <1>3, ConfigsAssumption, WorkersAssumption
<1> SUFFICES ASSUME cfg.strategy \in {"Block", "Drop"}, Load <= Bound PROVE Load' <= Bound'
  BY <1>1, <1>2, <1>3
<1>5. Bound' = Bound
  BY <1>3
<1>6. queued \in Nat /\ active \in Nat /\ Between \in Nat /\ Between <= Workers
      /\ Waiting \in Nat /\ Working \in Nat /\ Monitored
  BY CountsAreNat DEF Counters, Entering, Monitored
<1>7. CASE pc = "decide" /\ Decide
  <2>1. task' = task /\ active' = active
        /\ \/ queued' = queued
           \/ /\ queued' = queued + 1
              /\ seenQueued < cfg.max_queued_nodes /\ active < cfg.max_active_nodes
    <3>1. task' = task /\ active' = active
      BY <1>7 DEF Decide, taskVars, bpVars, RecordQueued
    <3>2. \/ queued' = queued
          \/ /\ queued' = queued + 1
             /\ ~OverLimit(seenQueued, active, cfg.max_queued_nodes, cfg.max_active_nodes)
      BY <1>7 DEF Decide, bpVars, RecordQueued
    <3>3. seenQueued \in Nat
      BY DEF Counters
    <3>. QED
      BY <1>4, <1>6, <3>1, <3>2, <3>3 DEF OverLimit
  <2>2. Between' = Between
    BY <2>1, CountsKept
  <2>3. queued <= seenQueued /\ seenQueued \in Nat
    BY <1>7 DEF Counters
  <2>. QED
    BY <1>4, <1>5, <1>6, <2>1, <2>2, <2>3
<1>8. CASE \E n \in Node : Task(n)
  <2>1. PICK n \in Node : Task(n)
    BY <1>8
  <2>2. UNCHANGED <<pc, outcome>> /\ Counters' /\ Monitored'
    BY <1>3, <1>6, <2>1, CountersStep DEF Task, Dequeue, StartNode, ExecuteNode, PanicNode,
            FinishNode, taskFrame, Monitored
  <2>3. queued = Waiting + Entering /\ active = Working
    BY <1>6 DEF Counters
  <2>4. queued' = Waiting' + Entering' /\ active' = Working' /\ Entering' = Entering
    BY <2>2 DEF Counters, Entering
  <2>5. \E dw, db, dr \in -1 .. 1 :
          /\ Waiting' = Waiting + dw /\ Between' = Between + db /\ Working' = Working + dr
          /\ dw + db + dr <= 0
    <3>1. OnlyTask(n) /\ <<task[n], task'[n]>> \in
            {<<"spawned", "dequeuing">>, <<"dequeuing", "running">>, <<"running", "executed">>,
             <<"running", "panicked">>, <<"executed", "finished">>}
      BY <2>1 DEF Task, Dequeue, StartNode, ExecuteNode, PanicNode, FinishNode, OnlyTask, Types
    <3>2. CASE task[n] = "spawned" /\ task'[n] = "dequeuing"
      <4>1. Waiting' = Waiting + (-1) /\ Between' = Between + 1 /\ Working' = Working + 0
        BY <1>6, <3>1, <3>2, CountsStep
      <4>. QED
        BY <4>1
    <3>3. CASE task[n] = "dequeuing" /\ task'[n] = "running"
      <4>1. Waiting' = Waiting + 0 /\ Between' = Between + (-1) /\ Working' = Working + 1
        BY <1>6, <3>1, <3>3, CountsStep
      <4>. QED
        BY <4>1
    <3>4. CASE task[n] = "running" /\ task'[n] \in {"executed", "panicked"}
      <4>1. Waiting' = Waiting + 0 /\ Between' = Between + 0 /\ Working' = Working + 0
        BY <1>6, <3>1, <3>4, CountsStep
      <4>. QED
        BY <4>1
    <3>5. CASE task[n] = "executed" /\ task'[n] = "finished"
      <4>1. Waiting' = Waiting + 0 /\ Between' = Between + 0 /\ Working' = Working + (-1)
        BY <1>6, <3>1, <3>5, CountsStep
      <4>. QED
        BY <4>1
    <3>. QED
      BY <3>1, <3>2, <3>3, <3>4, <3>5
  <2>6. PICK dw, db, dr \in -1 .. 1 :
          /\ Waiting' = Waiting + dw /\ Between' = Between + db /\ Working' = Working + dr
          /\ dw + db + dr <= 0
    BY <2>5
  <2>7. Entering \in Nat
    BY DEF Entering
  <2>8. queued' = queued + dw /\ Between' = Between + db /\ active' = active + dr
    BY <1>6, <2>3, <2>4, <2>6, <2>7
  <2>9. Bound \in Int
    BY <1>4
  <2>. QED
    BY <1>5, <1>6, <2>6, <2>8, <2>9
<1>9. CASE ~(pc = "decide" /\ Decide) /\ ~\E n \in Node : Task(n)
  <2>1. UNCHANGED <<queued, active>> /\ Between' = Between
    <3>1. CASE Spawn
      <4> DEFINE n == Levels[lvl][pos]
      <4>1. /\ pc = "limits" /\ task' = [task EXCEPT ![n] = "spawned"]
            /\ UNCHANGED <<queued, active>>
        BY <3>1 DEF Spawn, bpVars
      <4>2. n \in Node /\ task[n] = "none"
        BY <4>1, CurrentNode, CurrentNotReached DEF Tracking, Spawned
      <4>3. OnlyTask(n) /\ task'[n] = "spawned"
        BY <4>1, <4>2 DEF OnlyTask, Types
      <4>. QED
        BY <1>6, <4>1, <4>2, <4>3, CountsStep
    <3>2. CASE ~Spawn
      <4>1. UNCHANGED <<queued, active, task>>
        BY <1>6, <1>9, <3>2 DEF Next, Coordinator, CancelCheck, PauseCheck, AdmitUnchecked,
             LoadQueued, Decide, LimitExceeded, ChunkFull, AwaitHandle, EndChunk,
             EndLevel, Complete, Client, PauseExecution, ResumeExecution, CancelExecution,
             ClearCancellation, clientFrame, vars, bpVars, taskVars
      <4>. QED
        BY <4>1, CountsKept
    <3>. QED
      BY <3>1, <3>2
  <2>. QED
    BY <1>5, <2>1
<1>. QED
  BY <1>7, <1>8, <1>9

\* Block and Drop bound the nodes in flight, with the worker threads as slack.
THEOREM BackpressureBounds == Spec => []InFlightBounded
<1>1. Init => InFlightBounded
  <2> SUFFICES ASSUME Init PROVE InFlightBounded
    OBVIOUS
  <2>1. cfg \in Configs /\ queued = 0 /\ active = 0 /\ \A n \in Node : task[n] = "none"
    BY DEF Init, BPInit
  <2>2. Dequeuing = {}
    BY <2>1 DEF Dequeuing
  <2>3. Cardinality(Dequeuing) = 0
    BY <2>2, FS_EmptySet
  <2>4. cfg.max_queued_nodes \in Nat /\ cfg.max_active_nodes \in Nat /\ Workers \in Nat
    BY <2>1, ConfigsAssumption, WorkersAssumption
  <2>. QED
    BY <2>1, <2>3, <2>4 DEF InFlightBounded
<1>2. Types /\ Place /\ Tracking /\ Counters /\ InFlightBounded /\ [Next]_vars
        => InFlightBounded'
  BY InFlightStep
<1>. QED
  BY <1>1, <1>2, Inductive, CountersInductive, PTL DEF Spec

\* A sequence has at most as many elements as places.
LEMMA ToSetSmall ==
  ASSUME NEW s \in Seq(Node)
  PROVE  IsFiniteSet(ToSet(s)) /\ Cardinality(ToSet(s)) <= Len(s)
<1>1. Len(s) \in Nat /\ s \in [1 .. Len(s) -> ToSet(s)] /\ DOMAIN s = 1 .. Len(s)
  BY DEF ToSet
<1>2. s \in Surjection(1 .. Len(s), ToSet(s))
  BY <1>1 DEF Surjection, ToSet
<1>3. IsFiniteSet(1 .. Len(s)) /\ Cardinality(1 .. Len(s)) = Len(s)
  BY <1>1, FS_Interval
<1>. QED
  BY <1>2, <1>3, FS_Surjection

\* The nodes that are spawned are finished or in the current chunk.
LEMMA SpawnedBound ==
  ASSUME Types, Place, Tracking, Counters, Finishing, pc = "limits"
  PROVE  Cardinality(Spawned) <= nodesExecuted + cfg.max_concurrent_nodes - 1
<1> DEFINE Fin == {n \in Node : task[n] \in {"finished"}}
<1>1. IsFiniteSet(Fin) /\ Cardinality(Fin) = nodesExecuted
  BY NodeAssumption, FS_Subset DEF Counters, Done, Count
<1>2. Spawned \subseteq Fin \cup ToSet(handles)
  BY DEF Tracking, Finishing, Recorded
<1>3. handles \in Seq(Node) /\ Len(handles) \in Nat /\ pos \in Nat /\ chunkStart \in Nat
      /\ nodesExecuted \in Nat /\ cfg \in Configs
  BY DEF Types
<1>4. IsFiniteSet(ToSet(handles)) /\ Cardinality(ToSet(handles)) <= Len(handles)
  BY <1>3, ToSetSmall
<1>5. Len(handles) <= pos - chunkStart /\ pos < chunkStart + cfg.max_concurrent_nodes
  BY DEF Tracking, InLevel, Place, ChunkOpen
<1>6. cfg.max_concurrent_nodes \in Nat
  BY <1>3, ConfigsAssumption
<1>7. IsFiniteSet(Fin \cup ToSet(handles))
      /\ Cardinality(Fin \cup ToSet(handles))
           = Cardinality(Fin) + Cardinality(ToSet(handles))
             - Cardinality(Fin \cap ToSet(handles))
  BY <1>1, <1>4, FS_Union
<1>8. IsFiniteSet(Fin \cap ToSet(handles))
  BY <1>1, FS_Subset
<1>9. Cardinality(Fin \cap ToSet(handles)) \in Nat /\ Cardinality(ToSet(handles)) \in Nat
  BY <1>4, <1>8, FS_CardinalityType
<1>10. IsFiniteSet(Spawned) /\ Cardinality(Spawned) <= Cardinality(Fin \cup ToSet(handles))
  BY <1>2, <1>7, FS_Subset
<1>11. Cardinality(Spawned) \in Nat /\ Cardinality(Fin \cup ToSet(handles)) \in Nat
  BY <1>7, <1>10, FS_CardinalityType
<1>. QED
  BY <1>1, <1>3, <1>4, <1>5, <1>6, <1>7, <1>9, <1>10, <1>11

\* Spawning is the only step that can overrun the limit, and it is preceded by the
\* check of the nodes that have finished.
LEMMA NodeLimitStep ==
  ASSUME Types, Place, Tracking, Counters, Finishing, NodeLimitOverrun, [Next]_vars
  PROVE  NodeLimitOverrun'
<1>1. cfg' = cfg /\ cfg \in Configs
  BY DEF Types, Next, Coordinator, CancelCheck, PauseCheck, AdmitUnchecked,
         LoadQueued, Decide, LimitExceeded, Spawn, ChunkFull, AwaitHandle, EndChunk,
         EndLevel, Complete, Task, Dequeue, StartNode, ExecuteNode, PanicNode, FinishNode,
         taskFrame, Client, PauseExecution, ResumeExecution, CancelExecution,
         ClearCancellation, clientFrame, vars
<1>2. cfg.max_total_nodes \in Nat /\ cfg.max_concurrent_nodes \in Nat \ {0}
  BY <1>1, ConfigsAssumption
<1>3. CASE Spawn
  <2> DEFINE n == Levels[lvl][pos]
  <2>1. pc = "limits" /\ ~NodeLimitReached /\ task' = [task EXCEPT ![n] = "spawned"]
    BY <1>3 DEF Spawn
  <2>2. n \in Node /\ n \notin Spawned
    BY <2>1, CurrentNode, CurrentNotReached DEF Tracking
  <2>3. Spawned' = Spawned \cup {n}
    BY <2>1, <2>2 DEF Spawned, Types
  <2>4. Cardinality(Spawned) <= nodesExecuted + cfg.max_concurrent_nodes - 1
    BY <2>1, SpawnedBound
  <2>5. IsFiniteSet(Spawned) /\ Cardinality(Spawned) \in Nat
    BY NodeAssumption, FS_Subset, FS_CardinalityType DEF Spawned
  <2>6. Cardinality(Spawned') = Cardinality(Spawned) + 1
    BY <2>2, <2>3, <2>5, FS_AddElement
  <2>7. nodesExecuted \in Nat
    BY DEF Types
  <2>. QED
    BY <1>1, <1>2, <2>1, <2>4, <2>5, <2>6, <2>7 DEF NodeLimitOverrun, NodeLimitReached
<1>4. CASE ~Spawn
  <2>1. Spawned' = Spawned
    <3>1. CASE (\E n \in Node : Task(n)) \/ Client \/ UNCHANGED vars
      BY <3>1, TasksKeepSpawned
    <3>2. CASE Coordinator
      <4>1. task' = task
        BY <1>4, <3>2 DEF Coordinator, CancelCheck, PauseCheck, AdmitUnchecked,
             LoadQueued, Decide, LimitExceeded, ChunkFull, AwaitHandle, EndChunk,
             EndLevel, Complete, taskVars
      <4>. QED
        BY <4>1 DEF Spawned
    <3>. QED
      BY <3>1, <3>2 DEF Next
  <2>. QED
    BY <1>1, <2>1 DEF NodeLimitOverrun
<1>. QED
  BY <1>3, <1>4

\* max_total_nodes is overrun by less than a chunk.
THEOREM NodeLimitHolds == Spec => []NodeLimitOverrun
<1>1. Init => NodeLimitOverrun
  <2> SUFFICES ASSUME Init PROVE NodeLimitOverrun
    OBVIOUS
  <2>1. cfg \in Configs /\ Spawned = {}
    BY DEF Init, Spawned
  <2>2. Cardinality(Spawned) = 0
    BY <2>1, FS_EmptySet
  <2>. QED
    BY <2>1, <2>2, ConfigsAssumption DEF NodeLimitOverrun
<1>2. Types /\ Place /\ Tracking /\ Counters /\ Finishing /\ NodeLimitOverrun /\ [Next]_vars
        => NodeLimitOverrun'
  BY NodeLimitStep
<1>. QED
  BY <1>1, <1>2, Inductive, CountersInductive, PTL DEF Spec

--------------------------------------------------------------------------------
(***************************************************************************)
(* What Terminates rests on, without fairness: the coordinator waits only  *)
(* for tasks that go on, and no step but Block's repeats anything.         *)
(***************************************************************************)

\* The tasks that have a next step: one that is not dequeued yet needs a worker.
CanGoOn ==
  {n \in Node : \/ task[n] \in {"dequeuing", "running", "executed"}
                \/ task[n] = "spawned" /\ Cardinality(Dequeuing) < Workers}

\* The coordinator is at the join of a task that has not ended, ...
JoinWaits == pc = "await" /\ handles # <<>> /\ task[Head(handles)] \notin {"finished", "panicked"}

\* ... or Block would hold back the next node, if it loaded both counters now.
GateWaits ==
  /\ pc \in {"admit", "decide"} /\ ChunkOpen /\ cfg.strategy = "Block"
  /\ OverLimit(queued, active, cfg.max_queued_nodes, cfg.max_active_nodes)

NoRoomAtAll == cfg.max_queued_nodes = 0 \/ cfg.max_active_nodes = 0

WaitsForTasks ==
  /\ JoinWaits => Head(handles) \in InFlight
  /\ GateWaits => InFlight # {} \/ Leaked \/ NoRoomAtAll
  /\ InFlight # {} => CanGoOn # {}

(* The coordinator never waits for nobody: a join waits for a task in      *)
(* flight, Block for one too, unless a panicked node has kept its place in *)
(* active_count or a limit is 0, with which Block waits for ever.  And     *)
(* while tasks are in flight, one of them has a step to take.              *)
THEOREM NobodyIsWaitedForInVain == Spec => []WaitsForTasks
<1>1. ASSUME Types, Place, Tracking, Counters PROVE WaitsForTasks
  <2>. USE <1>1
  <2>1. ASSUME JoinWaits PROVE Head(handles) \in InFlight
    <3>1. handles \in Seq(Node) /\ handles # <<>>
      BY <2>1 DEF JoinWaits, Types
    <3>2. Head(handles) \in ToSet(handles) /\ Head(handles) \in Node
      BY <3>1, HandlesTail DEF Tracking
    <3>3. ToSet(handles) \subseteq Spawned
      BY <2>1 DEF Tracking, JoinWaits
    <3>. QED
      BY <2>1, <3>2, <3>3 DEF JoinWaits, InFlight
  <2>2. ASSUME GateWaits, InFlight = {}, ~Leaked PROVE NoRoomAtAll
    <3>1. \A n \in Node : task[n] \in {"none", "finished"}
      BY <2>2 DEF GateWaits, InFlight, Spawned, Leaked
    <3>2. Waiting = 0 /\ Working = 0
      <4>1. {n \in Node : task[n] \in {"spawned"}} = {}
        BY <3>1
      <4>2. {n \in Node : task[n] \in {"running", "executed", "panicked"}} = {}
        BY <3>1
      <4>. QED
        BY <4>1, <4>2, FS_EmptySet DEF Waiting, Working, Count
    <3>3. outcome = "open" /\ Entering = 0
      BY <2>2 DEF GateWaits, Place, Entering
    <3>4. queued = 0 /\ active = 0
      BY <3>2, <3>3 DEF Counters
    <3>5. cfg.max_queued_nodes \in Nat /\ cfg.max_active_nodes \in Nat
      BY ConfigsAssumption DEF Types
    <3>. QED
      BY <2>2, <3>4, <3>5 DEF GateWaits, OverLimit, NoRoomAtAll
  <2>3. ASSUME NEW n \in InFlight PROVE CanGoOn # {}
    <3>1. n \in Node /\ task[n] \in {"spawned", "dequeuing", "running", "executed"}
      BY <2>3 DEF InFlight, Spawned, Types, TaskStates
    <3>2. CASE Dequeuing = {}
      <4>1. Cardinality(Dequeuing) < Workers
        BY <3>2, FS_EmptySet, WorkersAssumption
      <4>. QED
        BY <3>1, <4>1 DEF CanGoOn
    <3>3. CASE Dequeuing # {}
      BY <3>3 DEF Dequeuing, CanGoOn
    <3>. QED
      BY <3>2, <3>3
  <2>. QED
    BY <2>1, <2>2, <2>3 DEF WaitsForTasks
<1>. QED
  BY <1>1, Inductive, CountersInductive, PTL

\* The order of the coordinator's statements in a level, and of a task's states.
Stage(p) ==
  CASE p = "cancelCheck" -> 0
    [] p = "pauseCheck"  -> 1
    [] p = "admit"       -> 2
    [] p = "decide"      -> 3
    [] p = "limits"      -> 4
    [] p = "await"       -> 5
    [] p = "levelEnd"    -> 6
    [] p = "returned"    -> 7

TaskStage(t) ==
  CASE t = "none"      -> 0
    [] t = "spawned"   -> 1
    [] t = "dequeuing" -> 2
    [] t = "running"   -> 3
    [] t = "executed"  -> 4
    [] t \in {"finished", "panicked"} -> 5

\* The coordinator goes on: to a further level, node, chunk, statement or handle.
Ahead ==
  \/ lvl' > lvl
  \/ lvl' = lvl /\ pos' > pos
  \/ UNCHANGED <<lvl, pos>> /\ chunkStart' > chunkStart
  \/ UNCHANGED <<lvl, pos, chunkStart>> /\ Stage(pc') > Stage(pc)
  \/ UNCHANGED <<lvl, pos, chunkStart, pc>> /\ Len(handles') < Len(handles)

\* Block goes back to look at the monitor again.
AsksAgain ==
  /\ cfg.strategy = "Block" /\ pc = "decide" /\ pc' = "admit"
  /\ UNCHANGED <<lvl, pos, chunkStart, handles, task>>

TaskAhead ==
  /\ UNCHANGED <<lvl, pos, chunkStart, pc, handles>>
  /\ \E n \in Node : TaskStage(task'[n]) > TaskStage(task[n]) /\ OnlyTask(n)

OnlyBlockRepeats == [][Ahead \/ AsksAgain \/ TaskAhead \/ Client]_vars

\* How far the coordinator can get.
Bounds ==
  pc # "returned" =>
    /\ lvl <= Len(Levels) + 1
    /\ chunkStart <= pos
    /\ lvl \in DOMAIN Levels => pos <= Len(Levels[lvl]) + 1

\* A chunk that is being joined is full or at the end of its level, and a level
\* ends with the cursor at a chunk's start.
Closing ==
  /\ pc = "await" => ~ChunkOpen
  /\ pc = "levelEnd" => chunkStart = pos
  /\ lvl <= Len(Levels) + 1

LEMMA ClosingStep == ASSUME Types, Place, Closing, [Next]_vars PROVE Closing'
<1> USE LevelsShape DEF Types, Place, InLevel, coordVars
<1>1. CASE EndLevel
  BY <1>1 DEF EndLevel, Closing, Return
<1>2. CASE ChunkFull
  BY <1>2 DEF ChunkFull, Closing, ChunkOpen
<1>3. CASE AwaitHandle
  BY <1>3 DEF AwaitHandle, Closing, ChunkOpen, Return
<1>4. CASE PauseCheck
  BY <1>4 DEF PauseCheck, Closing, Return
<1>5. CASE EndChunk
  BY <1>5 DEF EndChunk, Closing
<1>6. ASSUME lvl' = lvl, pc' \notin {"await", "levelEnd"} PROVE Closing'
  BY <1>6 DEF Closing
<1>7. CASE CancelCheck \/ AdmitUnchecked \/ LoadQueued \/ Decide \/ LimitExceeded
           \/ Spawn \/ Complete
  BY <1>6, <1>7 DEF CancelCheck, AdmitUnchecked, LoadQueued, Decide,
     LimitExceeded, Spawn, Complete, Return
<1>8. ASSUME UNCHANGED <<cfg, pc, coordVars>> PROVE Closing'
  BY <1>8 DEF Closing, ChunkOpen
<1>9. CASE (\E n \in Node : Task(n)) \/ Client \/ UNCHANGED vars
  BY <1>8, <1>9 DEF Task, Dequeue, StartNode, ExecuteNode, PanicNode, FinishNode, taskFrame,
     Client, PauseExecution, ResumeExecution, CancelExecution, ClearCancellation,
     clientFrame, vars
<1>. QED
  BY <1>1, <1>2, <1>3, <1>4, <1>5, <1>7, <1>9 DEF Next, Coordinator

\* A step of the coordinator.
LEMMA CoordinatorAhead ==
  ASSUME Types, Place, Closing, Coordinator
  PROVE  Ahead \/ AsksAgain
<1> USE LevelsShape DEF Types, coordVars, taskVars
<1>1. CASE CancelCheck \/ PauseCheck \/ AdmitUnchecked \/ LoadQueued \/ LimitExceeded
           \/ ChunkFull \/ Complete
  <2>1. UNCHANGED <<lvl, pos, chunkStart>>
    BY <1>1 DEF CancelCheck, PauseCheck, AdmitUnchecked, LoadQueued, LimitExceeded,
       ChunkFull, Complete
  <2>2. Stage(pc') > Stage(pc)
    BY <1>1 DEF CancelCheck, PauseCheck, AdmitUnchecked, LoadQueued, LimitExceeded,
       ChunkFull, Complete, Return, Stage
  <2>. QED
    BY <2>1, <2>2 DEF Ahead
<1>2. CASE Decide
  <2>1. /\ pc = "decide" /\ UNCHANGED <<lvl, chunkStart, handles, task>>
        /\ \/ cfg.strategy = "Block" /\ pc' = "admit" /\ pos' = pos
           \/ pos' = pos + 1
           \/ pc' = "limits" /\ pos' = pos
    BY <1>2 DEF Decide
  <2>. QED
    BY <2>1 DEF Ahead, AsksAgain, Stage
<1>3. CASE Spawn
  BY <1>3 DEF Spawn, Ahead
<1>4. CASE AwaitHandle
  <2>1. /\ UNCHANGED <<lvl, pos, chunkStart>> /\ pc = "await"
        /\ handles # <<>> /\ handles' = Tail(handles)
        /\ pc' \in {pc, "returned"}
    BY <1>4 DEF AwaitHandle, Return
  <2>2. Len(handles') < Len(handles)
    BY <2>1
  <2>. QED
    BY <2>1, <2>2 DEF Ahead, Stage
<1>5. CASE EndChunk
  <2>1. /\ UNCHANGED <<lvl, pos>> /\ pc = "await" /\ chunkStart' = pos /\ chunkStart <= pos
        /\ pc' = IF pos <= Len(Levels[lvl]) THEN "admit" ELSE "levelEnd"
    BY <1>5 DEF EndChunk, Place, InLevel
  <2>2. CASE chunkStart < pos
    BY <2>1, <2>2 DEF Ahead
  <2>3. CASE chunkStart = pos
    <3>1. cfg.max_concurrent_nodes \in Nat \ {0}
      BY ConfigsAssumption
    <3>2. pc' = "levelEnd"
      BY <2>1, <2>3, <3>1 DEF Closing, ChunkOpen
    <3>. QED
      BY <2>1, <2>3, <3>2 DEF Ahead, Stage
  <2>. QED
    BY <2>1, <2>2, <2>3
<1>6. CASE EndLevel
  <2>1. pc = "levelEnd" /\ (lvl' = lvl + 1 \/ (pc' = "returned" /\ UNCHANGED <<lvl, pos, chunkStart>>))
    BY <1>6 DEF EndLevel, Return
  <2>. QED
    BY <2>1 DEF Ahead, Stage
<1>. QED
  BY <1>1, <1>2, <1>3, <1>4, <1>5, <1>6 DEF Coordinator

\* A step of a task.
LEMMA TaskGoesAhead ==
  ASSUME Types, NEW n \in Node, Task(n)
  PROVE  TaskAhead
<1>1. UNCHANGED <<lvl, pos, chunkStart, pc, handles>>
  BY DEF Task, Dequeue, StartNode, ExecuteNode, PanicNode, FinishNode, taskFrame, coordVars
<1>2. PICK s \in TaskStates : task' = [task EXCEPT ![n] = s] /\ TaskStage(s) > TaskStage(task[n])
  BY DEF Task, Dequeue, StartNode, ExecuteNode, PanicNode, FinishNode, TaskStates, TaskStage
<1>3. task'[n] = s /\ OnlyTask(n)
  BY <1>2 DEF Types, OnlyTask
<1>. QED
  BY <1>1, <1>2, <1>3 DEF TaskAhead

(* Every step takes the run further, through finitely many levels, nodes,  *)
(* chunks, statements, handles and states of tasks, but for two: a client  *)
(* moving a flag, and Block asking the monitor again.  Only Block can keep *)
(* a run from returning, and by NobodyIsWaitedForInVain only behind a      *)
(* panicked node or with a limit of 0.                                     *)
THEOREM OnlyBlockCanRepeat == Spec => OnlyBlockRepeats /\ []Bounds
<1>1. Init => Closing
  BY LevelsShape DEF Init, Closing
<1>2. Types /\ Place /\ Closing /\ [Next]_vars => Closing'
  BY ClosingStep
<1>3. Types /\ Place /\ Closing /\ [Next]_vars => [Ahead \/ AsksAgain \/ TaskAhead \/ Client]_vars
  BY CoordinatorAhead, TaskGoesAhead DEF Next
<1>4. Types /\ Place /\ Closing => Bounds
  BY LevelsShape DEF Types, Place, Closing, Bounds, InLevel
<1>. QED
  BY <1>1, <1>2, <1>3, <1>4, Inductive, PTL DEF Spec, OnlyBlockRepeats

================================================================================

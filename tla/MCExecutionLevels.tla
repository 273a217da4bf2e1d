---------------------------- MODULE MCExecutionLevels ----------------------------
(* Instances of ExecutionLevels for TLC.                                    *)
EXTENDS ExecutionLevels, SequencesExt

CONSTANTS a, b, c, d, w1, w2

\* The structure with the nodes N and the edges of a sequence of pairs.
Graph(N, pairs) ==
  [nodes |-> N, edges |-> DOMAIN pairs,
   from |-> [e \in DOMAIN pairs |-> pairs[e][1]],
   to |-> [e \in DOMAIN pairs |-> pairs[e][2]]]

\* A diamond with a shortcut, the same without one edge, parallel edges with
\* unconnected nodes, a chain listed backwards, a cycle behind a start and a
\* node behind the cycle, a self loop, no edges, two edges swapped.
Acyclic ==
  {Graph({a, b, c, d}, <<<<a, b>>, <<a, c>>, <<b, d>>, <<c, d>>, <<a, d>>>>),
   Graph({a, b, c, d}, <<<<a, b>>, <<b, d>>, <<c, d>>, <<a, d>>>>),
   Graph({a, b, c, d}, <<<<a, b>>, <<a, b>>, <<b, c>>>>),
   Graph({a, b, c}, <<<<b, c>>, <<a, b>>>>),
   Graph({a, b, c}, <<<<c, b>>, <<b, a>>>>),
   Graph({a, b}, <<>>),
   Graph({a, b, c}, <<<<a, c>>, <<b, c>>>>),
   Graph({a, b, c}, <<<<b, c>>, <<a, c>>>>)}
Cyclic ==
  {Graph({a, b, c, d}, <<<<a, b>>, <<b, c>>, <<c, b>>, <<c, d>>>>),
   Graph({a, b}, <<<<a, b>>, <<b, b>>>>),
   Graph({a}, <<<<a, a>>>>)}
MCStructures == Acyclic \cup Cyclic

\* The plan of the search that takes every level in one order.
LevelsOf(s) ==
  LET layer == [l \in 1 .. Cardinality(s.nodes) |->
                  WalkEnds(s)[l - 1] \ WalkEnds(s)[l]]
      used == SelectSeq(layer, LAMBDA S : S # {})
  IN [l \in DOMAIN used |-> SetToSeq(used[l])]
MCKnown == {[str |-> s, levels |-> LevelsOf(s)] : s \in Acyclic}

================================================================================

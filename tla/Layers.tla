--------------------------------- MODULE Layers ---------------------------------
(***************************************************************************)
(* The levels of a workflow: what Engine::compute_execution_levels         *)
(* (oxify-engine/src/lib.rs) owes the runs that walk them.  Module         *)
(* ExecutionLevels shows that it does, WorkflowExecution relies on it.     *)
(***************************************************************************)
EXTENDS Integers, SequencesExt

\* The nodes of the levels before l.
Earlier(ls, l) == UNION {ToSet(ls[m]) : m \in {k \in DOMAIN ls : k < l}}

\* Every node of N once, after all of its predecessors.
Layered(ls, N, preds) ==
  /\ ls \in Seq(Seq(N))
  /\ \A n \in N : \E l \in DOMAIN ls : n \in ToSet(ls[l])
  /\ \A l, m \in DOMAIN ls : \A i \in DOMAIN ls[l], j \in DOMAIN ls[m] :
       ls[l][i] = ls[m][j] => l = m /\ i = j
  /\ preds \in [N -> SUBSET N]
  /\ \A l \in DOMAIN ls : \A n \in ToSet(ls[l]) : preds[n] \subseteq Earlier(ls, l)

\* No level is empty, and each node has a predecessor in the level right before
\* its own: no node could be in an earlier level.
Tight(ls, preds) ==
  /\ \A l \in DOMAIN ls : ls[l] # <<>>
  /\ \A l \in DOMAIN ls : l > 1 =>
       \A n \in ToSet(ls[l]) : preds[n] \cap ToSet(ls[l - 1]) # {}

================================================================================

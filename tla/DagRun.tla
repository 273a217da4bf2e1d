--------------------------------- MODULE DagRun ---------------------------------
(***************************************************************************)
(* What the engine promises its callers about one run of a workflow,       *)
(* whatever the levels, chunks, threads and limits behind it: a node is    *)
(* handed to a worker at most once, only while the run is open and only    *)
(* when every node it depends on is settled; a result enters the context   *)
(* at most once and only while the run is open; a run that ends any other  *)
(* way than by an error leaves no node running behind it.                  *)
(***************************************************************************)
CONSTANTS
  Node,   \* the nodes of the workflow
  Preds   \* Preds[n]: the nodes with an edge to n

VARIABLES
  status,   \* status[n] \in {"pending", "running", "settled", "skipped"}
  outcome   \* how the run ended, "open" until it has

dagVars == <<status, outcome>>

QuietEnds == {"Completed", "Paused", "Cancelled"}
ErrorEnds == {"Failed", "LimitExceeded"}

Resolved(n) == status[n] \in {"settled", "skipped"}

Init ==
  /\ status = [n \in Node |-> "pending"]
  /\ outcome = "open"

\* n is handed to a worker.
Start(n) ==
  /\ outcome = "open"
  /\ status[n] = "pending"
  /\ \A p \in Preds[n] : Resolved(p)
  /\ status' = [status EXCEPT ![n] = "running"]
  /\ UNCHANGED outcome

\* n is given up before it started, for want of capacity.
Skip(n) ==
  /\ outcome = "open"
  /\ status[n] = "pending"
  /\ \A p \in Preds[n] : Resolved(p)
  /\ status' = [status EXCEPT ![n] = "skipped"]
  /\ UNCHANGED outcome

\* The result of n enters the run's context.
Settle(n) ==
  /\ outcome = "open"
  /\ status[n] = "running"
  /\ status' = [status EXCEPT ![n] = "settled"]
  /\ UNCHANGED outcome

Complete ==
  /\ outcome = "open"
  /\ \A n \in Node : Resolved(n)
  /\ outcome' = "Completed"
  /\ UNCHANGED status

\* A pause or a cancellation takes effect: nothing is left running.
Stop ==
  /\ outcome = "open"
  /\ \A n \in Node : status[n] # "running"
  /\ outcome' \in QuietEnds \ {"Completed"}
  /\ UNCHANGED status

Abort ==
  /\ outcome = "open"
  /\ outcome' \in ErrorEnds
  /\ UNCHANGED status

Next ==
  \/ \E n \in Node : Start(n) \/ Skip(n) \/ Settle(n)
  \/ Complete
  \/ Stop
  \/ Abort

Spec == Init /\ [][Next]_dagVars

================================================================================

---------------------------------- MODULE MCExecutionApi ----------------------------------
(* Instances of ExecutionApi for TLC.  Requests share nothing but the gauge,  *)
(* so there is one, and three commands on its record.                         *)
EXTENDS ExecutionApi

CONSTANTS r1, c1, c2, c3
================================================================================

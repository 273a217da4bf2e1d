---------------------------------- MODULE MCHumanTasks ----------------------------------
(* Instances of HumanTasks for TLC.                                         *)
EXTENDS HumanTasks

CONSTANTS t1, t2, p1, p2
================================================================================

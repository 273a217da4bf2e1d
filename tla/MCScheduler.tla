---------------------------------- MODULE MCScheduler ----------------------------------
(* Instances of Scheduler for TLC.                                          *)
EXTENDS Scheduler

CONSTANTS s1, s2, l1, l2

\* s1 may have one run at a time; s2 is unlimited where it is enabled, and
\* only in the way where it is not.
OneLimit == [s \in {s1} |-> 1]
================================================================================

---------------------------------- MODULE MCLlmCalls ----------------------------------
(* Instances of LlmCalls for TLC.                                           *)
EXTENDS LlmCalls

CONSTANTS x, y, z, k1, k2

\* Two prompts.  Which of the requests with one key a call makes is left open in
\* the proofs; no checked property tells them apart.
TwoKeys == {[keyed |-> k1, rest |-> "text"], [keyed |-> k2, rest |-> "text"]}
================================================================================

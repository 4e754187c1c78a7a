---------------------------- MODULE MCLlmBreaker ----------------------------
(* Instances of LlmBreaker for TLC: three concurrent calls, two failures    *)
(* trip the circuit, two successes close it, two open durations.            *)
EXTENDS LlmBreaker, TLC

CONSTANTS c1, c2, c3
=============================================================================

--------------------------- MODULE MC_CircuitBreaker ---------------------------
(* Model-checking instance of CircuitBreaker: three concurrent callers, a   *)
(* half-open budget of two so that the budget and the generation check are *)
(* exercised by concurrent probes.                                          *)
EXTENDS CircuitBreaker, TLC

CONSTANTS r1, r2, r3

MC_Reqs == {r1, r2, r3}

\* Callers are interchangeable goroutines.
ReqSymmetry == Permutations(MC_Reqs)

=============================================================================

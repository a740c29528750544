--------------------------- MODULE MC_LoadBalancer ---------------------------
(* LoadBalancer with three targets and two concurrent callers.            *)
EXTENDS LoadBalancer, TLC

CONSTANTS c1, c2

MC_Callers == {c1, c2}

\* A weights slice with a non-positive entry, which becomes weight 1.
MC_Weights == <<3, 0, 2>>

CallerSymmetry == Permutations(MC_Callers)

=============================================================================

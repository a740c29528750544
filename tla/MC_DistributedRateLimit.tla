------------------------ MODULE MC_DistributedRateLimit ------------------------
(* DistributedRateLimit with two gateway instances as model values.        *)
EXTENDS DistributedRateLimit, TLC

CONSTANTS g1, g2

MC_Instances == {g1, g2}

InstanceSymmetry == Permutations(MC_Instances)

=============================================================================

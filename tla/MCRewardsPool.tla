--------------------------- MODULE MCRewardsPool ---------------------------
(* RewardsPool for TLC: two interchangeable stakers. *)
EXTENDS RewardsPool, TLC

StakerSymmetry == Permutations(Stakers)

=============================================================================

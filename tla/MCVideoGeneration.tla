-------------------------- MODULE MCVideoGeneration --------------------------
(* Two workers on the video of one media production. *)
EXTENDS VideoGeneration, TLC

CONSTANTS w1, w2

MCWorkers == {w1, w2}

Symmetry == Permutations(MCWorkers)

=============================================================================

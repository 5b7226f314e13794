----------------------------- MODULE MCNewsChain -----------------------------
(* Jobs of two time buckets, between which the ranking score has fallen.   *)
EXTENDS NewsChain

MCBuckets == {0, 1}
MCScores  == {70, 75}

=============================================================================

----------------------------- MODULE MCNewsRows -----------------------------
(* The worker and one operator on the metadata; two runs at a time of the  *)
(* relevance job, and two of the priority job.                             *)
EXTENDS NewsRows

CONSTANTS a1, m1, r1, r2, p1, p2

OneWorker   == {a1}
OneOperator == {m1}
TwoJudges   == {r1, r2}
TwoRaters   == {p1, p2}

=============================================================================

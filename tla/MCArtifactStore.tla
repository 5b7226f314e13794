-------------------------- MODULE MCArtifactStore --------------------------
(* Three processes, two contents, and failures of the host. *)
EXTENDS ArtifactStore, TLC

CONSTANTS p1, p2, p3, c1, c2

MCProcesses == {p1, p2, p3}
MCContents  == {c1, c2}

Symmetry == Permutations(MCProcesses) \cup Permutations(MCContents)

=============================================================================

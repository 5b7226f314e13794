------------------------ MODULE MCMetadataEnrichment ------------------------
(* The RQ worker and one operator on one intake. *)
EXTENDS MetadataEnrichment

CONSTANTS a1, m1

OneWorker   == {a1}
OneOperator == {m1}

=============================================================================

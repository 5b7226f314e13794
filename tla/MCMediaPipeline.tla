-------------------------- MODULE MCMediaPipeline --------------------------
(* The audio workers and the video workers of one media production. *)
EXTENDS MediaPipeline

CONSTANTS a1, a2, v1

TwoNarrators == {a1, a2}
OneRenderer  == {v1}
NoRenderer   == {}

=============================================================================

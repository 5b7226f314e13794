-------------------------- MODULE MCNarrationQueue --------------------------
(* Two productions and a batch limit of one. *)
EXTENDS NarrationQueue

=============================================================================

------------------------- MODULE MCVietstockListing -------------------------
(* Small instances of VietstockListing for TLC. *)
EXTENDS VietstockListing
=============================================================================

------------------------- MODULE MCCommandBoundary --------------------------
(* Instances of CommandBoundary for TLC. *)
EXTENDS CommandBoundary
=============================================================================

------------------------- MODULE MCProcessRegistry -------------------------
(* ProcessRegistry for TLC; the bounds are given in each .cfg. *)
EXTENDS ProcessRegistry
=============================================================================

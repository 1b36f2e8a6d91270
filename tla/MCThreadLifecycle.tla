------------------------- MODULE MCThreadLifecycle -------------------------
(* ThreadLifecycle for TLC; the tids are given in each .cfg. *)
EXTENDS ThreadLifecycle, TLC
=============================================================================

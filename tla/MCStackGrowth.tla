---------------------------- MODULE MCStackGrowth ----------------------------
(* StackGrowth instantiated for TLC; the constants are given in each .cfg. *)
EXTENDS StackGrowth, TLC
=============================================================================

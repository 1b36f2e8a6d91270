--------------------------- MODULE MCCopyOnWrite ---------------------------
(* Model-checking instance of CopyOnWrite; each .cfg fixes the bounds.    *)
EXTENDS CopyOnWrite, TLC
=============================================================================

---------------------------- MODULE MCPageTables ----------------------------
(* PageTables instantiated for TLC; the constants are given in each .cfg.  *)
EXTENDS PageTables, TLC
=============================================================================

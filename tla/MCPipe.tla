------------------------------- MODULE MCPipe -------------------------------
(* Pipe instantiated for TLC; the constants are given in each .cfg.        *)
EXTENDS Pipe, TLC
=============================================================================

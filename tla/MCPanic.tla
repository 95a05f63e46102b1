------------------------------- MODULE MCPanic -------------------------------
(* Panic for TLC.                                                            *)
EXTENDS Panic
=============================================================================

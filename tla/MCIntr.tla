------------------------------- MODULE MCIntr -------------------------------
(* Intr for TLC.                                                             *)
EXTENDS Intr
=============================================================================

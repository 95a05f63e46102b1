------------------------------- MODULE MCAsid -------------------------------
(* Asid for TLC.                                                             *)
EXTENDS Asid, TLC

\* Processes are alike.  CPUs are, too: flush_context() visits them in any order.
MCSymmetry == Permutations(CPU) \cup Permutations(Proc)
=============================================================================

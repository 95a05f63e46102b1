--------------------------- MODULE MCConsoleInput ---------------------------
(* ConsoleInput for TLC.                                                     *)
EXTENDS ConsoleInput, TLC

\* The readers are alike.
MCSymmetry == Permutations(Reader)
=============================================================================

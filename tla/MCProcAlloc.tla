---------------------------- MODULE MCProcAlloc ----------------------------
(* ProcAlloc for TLC. *)
EXTENDS ProcAlloc, TLC

\* Threads are alike, and so are pages.
MCSymmetry == Permutations(Thread) \cup Permutations(Page)
=============================================================================

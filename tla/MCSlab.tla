------------------------------- MODULE MCSlab -------------------------------
(* Slab for TLC: two caches with magazines, and magazine_cache.               *)
EXTENDS Slab, TLC

CONSTANTS A, B, M

MCCacheList == <<B, A, M>>

\* Objects of A and magazines fill a slab of three, an object of B has a page.
MCSlots == (A :> 3) @@ (B :> 1) @@ (M :> 3)

\* CPUs are alike, and so are pages: the free list hands out any page.
MCSymmetry == Permutations(CPU) \cup Permutations(Page)
=============================================================================

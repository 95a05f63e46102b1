------------------------------- MODULE Dmap --------------------------------
(***************************************************************************)
(* dmap_bank() of src/arch/pmap.c, which maps a bank of RAM into the       *)
(* kernel's direct map with the largest entries that fit: pages up to a    *)
(* 2 MB boundary, 2 MB blocks up to a 1 GB boundary, 1 GB blocks, then 2 MB *)
(* blocks and pages for what is left.  The tables in between are taken     *)
(* from boot_alloc() on first use.                                         *)
(*                                                                         *)
(* A set of tables is a record: the entries of the L1 table, of the L2     *)
(* tables by L1 index, of the L3 tables by L1 and L2 index, and how many   *)
(* tables boot_alloc() gave.  An entry is None, Table, or the address it   *)
(* maps.                                                                   *)
(***************************************************************************)
EXTENDS Integers

CONSTANTS
    PGSIZE,
    BLOCK_SIZE_2M, BLOCK_SIZE_1G,
    KSTACK_WINDOW_L1    \* the last entry of the L1 table

ASSUME DmapAssumption ==
    /\ {PGSIZE, BLOCK_SIZE_2M, BLOCK_SIZE_1G, KSTACK_WINDOW_L1} \subseteq Nat \ {0}
    /\ BLOCK_SIZE_2M % PGSIZE = 0 /\ BLOCK_SIZE_1G % BLOCK_SIZE_2M = 0

None == -1
Table == -2

L1X(pa) == pa \div BLOCK_SIZE_1G
L2X(pa) == (pa % BLOCK_SIZE_1G) \div BLOCK_SIZE_2M
L3X(pa) == (pa % BLOCK_SIZE_2M) \div PGSIZE

L1 == 0..KSTACK_WINDOW_L1
L2 == 0..BLOCK_SIZE_1G \div BLOCK_SIZE_2M - 1
L3 == 0..BLOCK_SIZE_2M \div PGSIZE - 1

\* What kvminit() starts from: entries for the devices and for the stack window.
BootTables ==
    [l1 |-> [i \in L1 |-> IF i \in {0, KSTACK_WINDOW_L1} THEN Table ELSE None],
     l2 |-> [i \in L1 |-> [j \in L2 |-> None]],
     l3 |-> [i \in L1 |-> [j \in L2 |-> [k \in L3 |-> None]]],
     count |-> 0]

\* The panics of dmap_bank(); with them, those of dmap_l2() and dmap_block_1g() are
\* out of reach.
Reserved(start, end) ==
    start < BLOCK_SIZE_1G \/ end > KSTACK_WINDOW_L1 * BLOCK_SIZE_1G

dmap_l2(t, pa) ==
    IF t.l1[L1X(pa)] = None
    THEN [t EXCEPT !.l1[L1X(pa)] = Table, !.count = @ + 1] ELSE t

\* The L3 table over pa, with the L2 table in place.
dmap_l3(t, pa) ==
    IF t.l2[L1X(pa)][L2X(pa)] = None
    THEN [t EXCEPT !.l2[L1X(pa)][L2X(pa)] = Table, !.count = @ + 1] ELSE t

dmap_page(t, pa) ==
    [dmap_l3(dmap_l2(t, pa), pa) EXCEPT !.l3[L1X(pa)][L2X(pa)][L3X(pa)] = pa]

dmap_block_2m(t, pa) == [dmap_l2(t, pa) EXCEPT !.l2[L1X(pa)][L2X(pa)] = pa]

dmap_block_1g(t, pa) == [t EXCEPT !.l1[L1X(pa)] = pa]

\* Mutant: any page is as good as the start of a block.
AlignedAnyhow(pa, size) == pa % PGSIZE = 0

Aligned(pa, size) == pa % size = 0

\* The conditions of the five loops, in order.
More(loop, pa, end) ==
    CASE loop = 1 -> pa < end /\ ~Aligned(pa, BLOCK_SIZE_2M)
      [] loop = 2 -> pa + BLOCK_SIZE_2M <= end /\ ~Aligned(pa, BLOCK_SIZE_1G)
      [] loop = 3 -> pa + BLOCK_SIZE_1G <= end
      [] loop = 4 -> pa + BLOCK_SIZE_2M <= end
      [] loop = 5 -> pa < end

\* Their bodies, and how far each goes at a time.
Body(loop, t, pa) ==
    CASE loop \in {1, 5} -> dmap_page(t, pa)
      [] loop \in {2, 4} -> dmap_block_2m(t, pa)
      [] loop = 3 -> dmap_block_1g(t, pa)

Stride(loop) == <<PGSIZE, BLOCK_SIZE_2M, BLOCK_SIZE_1G, BLOCK_SIZE_2M, PGSIZE>>[loop]

\* The tables after the loops from number `loop' on have gone from pa to end.
RECURSIVE MapFrom(_, _, _, _)
MapFrom(loop, t, pa, end) ==
    IF loop > 5 THEN t
    ELSE IF More(loop, pa, end)
    THEN MapFrom(loop, Body(loop, t, pa), pa + Stride(loop), end)
    ELSE MapFrom(loop + 1, t, pa, end)

dmap_bank(t, start, end) == MapFrom(1, t, start, end)

\* What the hardware finds at x under an entry that maps a block at pa: it ignores
\* the low bits of a block's address.
InBlock(pa, size, x) == size * (pa \div size) + (x % size)

\* The translation of the address x of a page.
Translate(t, x) ==
    LET e1 == t.l1[L1X(x)]
        e2 == t.l2[L1X(x)][L2X(x)]
    IN  IF e1 = None THEN None
        ELSE IF e1 # Table THEN InBlock(e1, BLOCK_SIZE_1G, x)
        ELSE IF e2 = None THEN None
        ELSE IF e2 # Table THEN InBlock(e2, BLOCK_SIZE_2M, x)
        ELSE t.l3[L1X(x)][L2X(x)][L3X(x)]
============================================================================

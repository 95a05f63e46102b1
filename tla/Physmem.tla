------------------------------- MODULE Physmem -------------------------------
(***************************************************************************)
(* The physical memory map of src/vm/physmem.c: lists of regions that were *)
(* reported or withheld, and the segments that are left.                   *)
(*                                                                         *)
(* Addresses stay far below 2^64 on the hardware in question (at most 48   *)
(* bits), so that sums of 64 bits do not wrap.                             *)
(***************************************************************************)
EXTENDS Dmap, Sequences, SequencesExt, FiniteSetsExt

CONSTANTS
    MemEnd,         \* bound: physical addresses are below
    MAX_HWCNT, MAX_EXCNT, VM_PHYSSEG_MAX

ASSUME PhysmemAssumption ==
    /\ MemEnd % PGSIZE = 0
    /\ {MAX_HWCNT, MAX_EXCNT, VM_PHYSSEG_MAX} \subseteq Nat \ {0}

PGROUNDDW(a) == PGSIZE * (a \div PGSIZE)
PGROUNDUP(a) == PGROUNDDW(a + PGSIZE - 1)

Limit(region) == region.addr + region.size
Region(addr, limit) == [addr |-> addr, size |-> limit - addr]

\* The page numbers of [addr, limit).
Pages(addr, limit) ==
    {p \in 0..MemEnd \div PGSIZE - 1 : addr <= p * PGSIZE /\ (p + 1) * PGSIZE <= limit}
PagesOf(regions) == UNION {Pages(regions[i].addr, Limit(regions[i])) : i \in DOMAIN regions}

-----------------------------------------------------------------------------
(* Region lists *)

\* Entry i absorbs the entries after it that it overlaps or abuts.  reach[j] is the
\* local end after entry j.
merge_upper(regions, i) ==
    LET reach[j \in i..Len(regions)] ==
            IF j = i THEN Limit(regions[i])
            ELSE IF regions[j].addr > reach[j - 1] THEN reach[j - 1]
            ELSE Max({reach[j - 1], Limit(regions[j])})
        stop == Min({j \in i + 1..Len(regions) : regions[j].addr > reach[j - 1]}
                        \cup {Len(regions) + 1})
    IN  SubSeq(regions, 1, i - 1) \o <<Region(regions[i].addr, reach[stop - 1])>>
            \o SubSeq(regions, stop, Len(regions))

Touches(region, addr, limit) == addr <= Limit(region) /\ limit >= region.addr

\* Mutant: the size of the array is not looked at.
HasRoomAlways(regions, max) == TRUE

HasRoom(regions, max) == Len(regions) < max

\* The list with [addr, limit) merged in, and whether there was room for it.
insert_region(regions, max, addr, limit) ==
    LET i == Min({j \in DOMAIN regions : Touches(regions[j], addr, limit)
                                            \/ addr < regions[j].addr} \cup {Len(regions) + 1})
    IN  IF i <= Len(regions) /\ Touches(regions[i], addr, limit)
        THEN [ok |-> TRUE,
              list |-> merge_upper([regions EXCEPT ![i] =
                           Region(Min({addr, @.addr}), Max({limit, Limit(@)}))], i)]
        ELSE [ok |-> HasRoom(regions, max),
              list |-> InsertAt(regions, i, Region(addr, limit))]

\* physmem_avail() for one bank against the exclusions in order: done is the break.
Clip(x, bank) ==
    IF bank.done \/ Limit(x) <= bank.start THEN bank
    ELSE IF x.addr >= bank.end THEN [bank EXCEPT !.done = TRUE]
    ELSE IF x.addr <= bank.start
    THEN [bank EXCEPT !.start = Limit(x), !.done = Limit(x) >= bank.end]
    ELSE IF Limit(x) >= bank.end THEN [bank EXCEPT !.end = x.addr, !.done = TRUE]
    ELSE [bank EXCEPT !.start = Limit(x), !.segs = Append(@, Region(bank.start, x.addr))]

ClipBank(region, excluded) ==
    LET bank == FoldLeft(LAMBDA b, x : Clip(x, b),
                         [start |-> region.addr, end |-> Limit(region), done |-> FALSE,
                          segs |-> <<>>], excluded)
    IN  IF bank.start < bank.end THEN Append(bank.segs, Region(bank.start, bank.end))
                                 ELSE bank.segs

physmem_avail(hw, excluded) ==
    FoldLeft(LAMBDA segs, region : segs \o ClipBank(region, excluded), <<>>, hw)

\* physmem_seg(): the first segment with pa in it, or 0.
physmem_seg(segs, pa) ==
    LET holding == {i \in DOMAIN segs : segs[i].addr <= pa /\ pa < Limit(segs[i])}
    IN  IF holding = {} THEN 0 ELSE Min(holding)

physmem_size(segs) == FoldLeft(LAMBDA n, seg : n + seg.size, 0, segs)

\* physmem_hardware_region(): whole pages inside the bank.
physmem_hardware_region(hw, base, size) ==
    LET start == PGROUNDUP(base)
        limit == PGROUNDDW(base + size)
    IN  IF start >= limit THEN [ok |-> TRUE, list |-> hw]
        ELSE insert_region(hw, MAX_HWCNT, start, limit)

\* physmem_exclude_region(): whole pages around the range.
physmem_exclude_region(ex, base, size) ==
    insert_region(ex, MAX_EXCNT, PGROUNDDW(base), PGROUNDUP(base + size))

Around(base, size) == Pages(PGROUNDDW(base), PGROUNDUP(base + size))
=============================================================================

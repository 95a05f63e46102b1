-------------------------------- MODULE Uvm --------------------------------
(***************************************************************************)
(* User address spaces (arch/pmap.c, kern/exec.c, and fork(), growproc()   *)
(* and exit() of kern/proc.c): trees of page tables over one pool of       *)
(* pages.  A walk allocates the tables that are missing, sbrk() maps and   *)
(* unmaps at the end, fork() copies page by page, exec() builds a new tree *)
(* beside the old one and swaps them.  Every allocation may fail.          *)
(*                                                                         *)
(* A page table is private to its process, so a system call is one step;   *)
(* what the others do to the pool meanwhile is in `left', the number of    *)
(* allocations that succeed before kpage_alloc() starts to return NULL.    *)
(* The operators below take and return a memory: the pool, the entries of  *)
(* the pages used as tables, the contents of the pages used as data, the   *)
(* allocations left, and whether a KASSERT has failed.                     *)
(***************************************************************************)
EXTENDS Integers, FiniteSets, FiniteSetsExt

CONSTANTS
    Proc, InitProc,
    PoolSize,       \* pages in the pool
    PGSIZE,         \* bytes in a page
    TABLE_ENTRIES,  \* entries in a table
    LEAF,           \* level of the tables that map pages; the root is level 0
    MaxSize,        \* bound on p->sz
    MaxImage,       \* bound on the pages of a program
    Value           \* contents of a page, 0 among them

ASSUME UvmConstants ==
    /\ {PoolSize, PGSIZE, TABLE_ENTRIES, LEAF, MaxImage} \subseteq Nat \ {0}
    /\ MaxSize \in Nat /\ InitProc \in Proc /\ 0 \in Value

Page == 1..PoolSize
NULL == 0
Entry == 0..TABLE_ENTRIES - 1
Junk == -1          \* contents of a page nobody has written since it was freed

VARIABLES
    free,           \* the pool
    tab,            \* entries of every page, as a table
    data,           \* contents of every page, as data
    bad,            \* a KASSERT has failed
    pagetable,      \* p->pagetable
    sz              \* p->sz

vars == <<free, tab, data, bad, pagetable, sz>>

PGROUNDUP(n) == PGSIZE * ((n + PGSIZE - 1) \div PGSIZE)

\* Pages under one entry of a table at `level', and the entry of page `vp'.
Span(level) == TABLE_ENTRIES^(LEAF - level)
Index(vp, level) == (vp \div Span(level)) % TABLE_ENTRIES

----------------------------------------------------------------------------
(* The pool.  An operator that allocates returns the memory and a page.    *)

kpage_alloc(m) ==
    IF m.left = 0 \/ m.free = {}
    THEN [mem |-> m, page |-> NULL]
    ELSE [mem |-> [m EXCEPT !.free = @ \ {Min(@)}, !.left = @ - 1], page |-> Min(m.free)]

kpage_free(m, pg) ==
    [m EXCEPT !.free = @ \cup {pg}, !.data[pg] = Junk, !.bad = @ \/ pg \in m.free]

\* The page of an allocation, if there is one, made an empty table, and given
\* contents.
AsTable(a) == IF a.page = NULL THEN a ELSE [a EXCEPT !.mem.tab[a.page] = [e \in Entry |-> NULL]]
AsData(a, v) == IF a.page = NULL THEN a ELSE [a EXCEPT !.mem.data[a.page] = v]

ptalloc(m) == AsTable(kpage_alloc(m))

----------------------------------------------------------------------------
(* One mapping.                                                            *)

\* The leaf table of page `vp', NULL when a table is missing.  With `alloc' a
\* missing table is allocated and entered first.
RECURSIVE walk(_, _, _, _, _)
RECURSIVE Enter(_, _, _, _)
walk(m, table, level, vp, alloc) ==
    IF level = LEAF THEN [mem |-> m, page |-> table]
    ELSE IF m.tab[table][Index(vp, level)] # NULL
         THEN walk(m, m.tab[table][Index(vp, level)], level + 1, vp, alloc)
    ELSE IF alloc THEN Enter(ptalloc(m), table, level, vp)
    ELSE [mem |-> m, page |-> NULL]

Enter(a, table, level, vp) ==
    IF a.page = NULL THEN a
    ELSE walk([a.mem EXCEPT !.tab[table][Index(vp, level)] = a.page],
              a.page, level + 1, vp, TRUE)

\* The page that `vp' is mapped to, NULL for none.
LeafOf(m, table, vp) == IF table = NULL THEN NULL ELSE m.tab[table][Index(vp, LEAF)]
Leaf(m, root, vp) == LeafOf(m, walk(m, root, 0, vp, FALSE).page, vp)

\* Map one page, as every caller does; a remap fails a KASSERT.
SetLeaf(w, i, pg) ==
    IF w.page = NULL THEN [mem |-> w.mem, ok |-> FALSE]
    ELSE [mem |-> [w.mem EXCEPT !.bad = @ \/ w.mem.tab[w.page][i] # NULL,
                                !.tab[w.page][i] = pg],
          ok |-> TRUE]

mappages(m, root, vp, pg) == SetLeaf(walk(m, root, 0, vp, TRUE), Index(vp, LEAF), pg)

\* Mutant: a page that cannot be mapped is not freed.
OrFreeLeaks(r, pg) == r

\* Map the page of an allocation; it is freed if that fails.
OrFree(r, pg) == IF r.ok THEN r ELSE [r EXCEPT !.mem = kpage_free(@, pg)]

MapNew(a, root, vp) ==
    IF a.page = NULL THEN [mem |-> a.mem, ok |-> FALSE]
    ELSE OrFree(mappages(a.mem, root, vp, a.page), a.page)

----------------------------------------------------------------------------
(* Whole ranges.                                                           *)

\* Free what entry i of a table leads to, and the entries after it; then the
\* table itself.
RECURSIVE freewalk(_, _, _, _)
freewalk(m, table, level, i) ==
    IF i = TABLE_ENTRIES THEN kpage_free(m, table)
    ELSE freewalk(
            IF m.tab[table][i] = NULL THEN m
            ELSE [(IF level = LEAF THEN kpage_free(m, m.tab[table][i])
                   ELSE freewalk(m, m.tab[table][i], level + 1, 0))
                    EXCEPT !.tab[table][i] = NULL],
            table, level, i + 1)

uvmfree(m, root) == freewalk(m, root, 0, 0)

\* Free `child', the table behind entry i of `table', if nothing is left in it.
Collapse(m, table, i, child) ==
    IF \E e \in Entry : m.tab[child][e] # NULL THEN m
    ELSE [kpage_free(m, child) EXCEPT !.tab[table][i] = NULL]

\* Unmap the pages of [first, end) from entry boundary `vp' of a table on.
RECURSIVE uvmunmap_range(_, _, _, _, _, _)
RECURSIVE UnmapEntry(_, _, _, _, _, _)
UnmapEntry(m, table, level, first, end, vp) ==
    LET i == Index(vp, level)
        child == m.tab[table][i]
        from == Max({first, vp})
    IN  IF child = NULL THEN m
        ELSE IF level < LEAF
             THEN Collapse(uvmunmap_range(m, child, level + 1, from, Min({end, vp + Span(level)}),
                                          Span(level + 1) * (from \div Span(level + 1))),
                           table, i, child)
        ELSE IF first <= vp THEN [kpage_free(m, child) EXCEPT !.tab[table][i] = NULL]
        ELSE m

uvmunmap_range(m, table, level, first, end, vp) ==
    IF vp >= end THEN m
    ELSE uvmunmap_range(UnmapEntry(m, table, level, first, end, vp),
                        table, level, first, end, vp + Span(level))

\* Unmap the pages first .. end - 1 of a whole address space.
Unmap(m, root, first, end) ==
    IF first >= end THEN m
    ELSE uvmunmap_range(m, root, 0, first, end, Span(0) * (first \div Span(0)))

\* Mutant: the new end is not rounded up.
uvmdealloc_down(m, root, oldsz, newsz) ==
    IF newsz >= oldsz THEN m
    ELSE Unmap(m, root, newsz \div PGSIZE, PGROUNDUP(oldsz) \div PGSIZE)

uvmdealloc(m, root, oldsz, newsz) ==
    IF newsz >= oldsz THEN m
    ELSE Unmap(m, root, PGROUNDUP(newsz) \div PGSIZE, PGROUNDUP(oldsz) \div PGSIZE)

\* Map new pages that hold v over [a, newsz); `upto' is where it stopped.
RECURSIVE MapRange(_, _, _, _, _)
MapRange(r, root, a, newsz, v) ==
    IF ~r.ok THEN [mem |-> r.mem, ok |-> FALSE, upto |-> a - PGSIZE]
    ELSE IF a >= newsz THEN [mem |-> r.mem, ok |-> TRUE, upto |-> a]
    ELSE MapRange(MapNew(AsData(kpage_alloc(r.mem), v), root, a \div PGSIZE),
                  root, a + PGSIZE, newsz, v)

Done(m) == [mem |-> m, ok |-> TRUE]

\* Take back what a failed uvmalloc() has mapped from `start' on.
Rollback(r, root, start) ==
    IF r.ok THEN r ELSE [r EXCEPT !.mem = uvmdealloc(@, root, r.upto, start)]

uvmalloc(m, root, oldsz, newsz) ==
    LET start == PGROUNDUP(oldsz) IN
    Rollback(MapRange(Done(m), root, start, newsz, 0), root, start)

\* Copy the pages of src from `a' up to `size' into dst.
CopyPage(m, src, dst, vp) ==
    LET pg == Leaf(m, src, vp) IN
    IF pg = NULL THEN Done(m) ELSE MapNew(AsData(kpage_alloc(m), m.data[pg]), dst, vp)

RECURSIVE uvmcopy(_, _, _, _, _)
uvmcopy(r, src, dst, a, size) ==
    IF ~r.ok \/ a >= size THEN r
    ELSE uvmcopy(CopyPage(r.mem, src, dst, a \div PGSIZE), src, dst, a + PGSIZE, size)

\* loadelf() and the stack, of exec() and userinit(): `n' pages of program that
\* hold v and a page of zeroes above them.
load(m, root, n, v) ==
    LET seg == MapRange(Done(m), root, 0, n * PGSIZE, v) IN
    MapRange(seg, root, n * PGSIZE, (n + 1) * PGSIZE, 0)

\* exec()'s scratch page for the arguments: allocated, filled or not, freed.
Scratch(a, args) ==
    IF a.page = NULL THEN [mem |-> a.mem, ok |-> FALSE]
    ELSE [mem |-> kpage_free(a.mem, a.page), ok |-> args = "good"]

copyargs(r, args) ==
    IF ~r.ok \/ args = "none" THEN r ELSE Scratch(kpage_alloc(r.mem), args)

----------------------------------------------------------------------------
(* The calls.                                                              *)

Memory(left) == [free |-> free, tab |-> tab, data |-> data, left |-> left, bad |-> bad]

Keep(m) ==
    /\ free' = m.free /\ tab' = m.tab /\ data' = m.data /\ bad' = m.bad

\* The memory after uvmfree().
KeepFreed(m, root) == \E after \in {uvmfree(m, root)} : Keep(after)

\* init, as userinit() leaves it.
Init ==
    LET m == [free |-> Page, tab |-> [pg \in Page |-> [e \in Entry |-> NULL]],
              data |-> [pg \in Page |-> Junk], left |-> PoolSize, bad |-> FALSE]
    IN  \E v \in Value, root \in {ptalloc(m)} : \E r \in {load(root.mem, root.page, 1, v)} :
            /\ free = r.mem.free /\ tab = r.mem.tab /\ data = r.mem.data
            /\ bad = r.mem.bad
            /\ pagetable = [p \in Proc |-> IF p = InitProc THEN root.page ELSE NULL]
            /\ sz = [p \in Proc |-> IF p = InitProc THEN 2 * PGSIZE ELSE 0]

\* A process that has given all its memory back cannot fetch an instruction.
Runs(p) == pagetable[p] # NULL /\ sz[p] > 0

\* The page the hardware finds at `vp', from the entries alone.
RECURSIVE Translate(_, _, _)
Translate(page, level, vp) ==
    IF page = NULL \/ level > LEAF THEN page
    ELSE Translate(tab[page][Index(vp, level)], level + 1, vp)

\* A store by the program itself.
Write(p, vp, v) ==
    /\ Runs(p)
    /\ \E pg \in {Translate(pagetable[p], 0, vp)} \ {NULL} : data' = [data EXCEPT ![pg] = v]
    /\ UNCHANGED <<free, tab, bad, pagetable, sz>>

\* growproc() for sbrk(n).
Grow(p, n, left) ==
    /\ Runs(p)
    /\ sz[p] + n <= MaxSize
    /\ \E r \in {uvmalloc(Memory(left), pagetable[p], sz[p], sz[p] + n)} :
        /\ Keep(r.mem)
        /\ sz' = IF r.ok THEN [sz EXCEPT ![p] = @ + n] ELSE sz
    /\ UNCHANGED pagetable

\* growproc() for sbrk(-n).
Shrink(p, n) ==
    /\ Runs(p)
    /\ n <= sz[p]
    /\ \E m \in {uvmdealloc(Memory(0), pagetable[p], sz[p], sz[p] - n)} : Keep(m)
    /\ sz' = [sz EXCEPT ![p] = @ - n]
    /\ UNCHANGED pagetable

\* fork(): on failure freeproc() frees the child's table.
Fork(p, child, left) ==
    /\ Runs(p)
    /\ pagetable[child] = NULL
    /\ \E root \in {ptalloc(Memory(left))} :
        IF root.page = NULL THEN UNCHANGED vars
        ELSE \E r \in {uvmcopy(Done(root.mem), pagetable[p], root.page, 0, sz[p])} :
            IF r.ok
            THEN /\ Keep(r.mem)
                 /\ pagetable' = [pagetable EXCEPT ![child] = root.page]
                 /\ sz' = [sz EXCEPT ![child] = sz[p]]
            ELSE KeepFreed(r.mem, root.page) /\ UNCHANGED <<pagetable, sz>>

\* exec(): any failure frees the new table, success frees the old one.
Exec(p, n, v, args, left) ==
    /\ Runs(p)
    /\ \E root \in {ptalloc(Memory(left))} :
        IF root.page = NULL THEN UNCHANGED vars
        ELSE \E r \in {copyargs(load(root.mem, root.page, n, v), args)} :
            IF r.ok
            THEN /\ KeepFreed(r.mem, pagetable[p])
                 /\ pagetable' = [pagetable EXCEPT ![p] = root.page]
                 /\ sz' = [sz EXCEPT ![p] = (n + 1) * PGSIZE]
            ELSE KeepFreed(r.mem, root.page) /\ UNCHANGED <<pagetable, sz>>

\* exit(), called or forced by a fault.
Exit(p) ==
    /\ p # InitProc
    /\ pagetable[p] # NULL
    /\ KeepFreed(Memory(0), pagetable[p])
    /\ pagetable' = [pagetable EXCEPT ![p] = NULL]
    /\ sz' = [sz EXCEPT ![p] = 0]

Next ==
    \E p \in Proc :
        \/ \E vp \in 0..PGROUNDUP(MaxSize) \div PGSIZE - 1, v \in Value : Write(p, vp, v)
        \/ \E n \in 1..MaxSize, left \in 0..Cardinality(free) : Grow(p, n, left)
        \/ \E n \in 1..MaxSize : Shrink(p, n)
        \/ \E child \in Proc, left \in 0..Cardinality(free) : Fork(p, child, left)
        \/ \E n \in 1..MaxImage, v \in Value, args \in {"none", "good", "bad"},
              left \in 0..Cardinality(free) : Exec(p, n, v, args, left)
        \/ Exit(p)

Spec == Init /\ [][Next]_vars

----------------------------------------------------------------------------
(* Properties.                                                             *)

\* The tables of a tree.
RECURSIVE Tables(_, _)
Tables(table, level) ==
    {table} \cup
        (IF level = LEAF THEN {}
         ELSE UNION {Tables(tab[table][e], level + 1) : e \in {i \in Entry : tab[table][i] # NULL}})

\* Every page is owned once: it is free, or it is the root of one process, or
\* one entry of one tree leads to it.  No failure of fork(), sbrk() or exec(),
\* at whichever allocation, leaks a page or frees one that is in use.
PagesOwnedOnce ==
    LET live == {p \in Proc : pagetable[p] # NULL}
        slots == (UNION {Tables(pagetable[p], 0) : p \in live}) \X Entry
    IN  \A pg \in Page :
            (IF pg \in free THEN 1 ELSE 0)
                + Cardinality({p \in live : pagetable[p] = pg})
                + Cardinality({s \in slots : tab[s[1]][s[2]] = pg}) = 1

\* The pages a process sees.
Seen(p) ==
    [vp \in {i \in 0..TABLE_ENTRIES^(LEAF + 1) - 1 : Translate(pagetable[p], 0, i) # NULL} |->
        data[Translate(pagetable[p], 0, vp)]]

Abstract == INSTANCE AddrSpace WITH
    size <- sz,
    memory <- [p \in Proc |-> Seen(p)]

\* The trees implement private address spaces: exactly the pages below p->sz
\* are mapped, sbrk() adds zeroes and takes away nothing else, the copy of
\* fork() is complete and shares nothing, and a call that fails for want of
\* memory leaves every process as it was.
ImplementsAddrSpace == Abstract!SpaceSpec

=============================================================================

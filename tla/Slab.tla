-------------------------------- MODULE Slab --------------------------------
(***************************************************************************)
(* The object allocator of src/vm/slab.c on the page allocator of          *)
(* src/vm/kalloc.c: slabs, the depot of magazines, each CPU's loaded and   *)
(* previous magazine, and kmem_reclaim(), which kpage_alloc() calls with   *)
(* cache locks held when the free list is empty.                           *)
(*                                                                         *)
(* A CPU runs with interrupts off inside the allocator.  Each acquisition  *)
(* of a lock is a step; kmem.lock is only held inside one.                 *)
(***************************************************************************)
EXTENDS Naturals, Sequences, SequencesExt, FiniteSets, FiniteSetsExt

CONSTANTS
    CPU,
    Page,           \* the pages of the machine
    CacheList,      \* kmem_caches in list order, magazine_cache last
    Slots,          \* slots_per_slab of each cache
    MagDepth,       \* MAG_DEPTH
    NULL

Mag == Last(CacheList)              \* magazine_cache
Cache == ToSet(CacheList)
UserCache == Cache \ {Mag}
Slot(c) == 0..Slots[c] - 1
Obj == Page \X UNION {Slot(c) : c \in Cache}

ASSUME SlabAssumption ==
    /\ Slots \in [Cache -> Nat \ {0}] /\ MagDepth \in Nat \ {0}
    /\ CacheList # <<>> /\ IsInjective(CacheList)
    /\ NULL \notin CPU \cup Obj \cup Cache \cup Page

VARIABLES
    flags,          \* struct page: "free", "used" or "slab"
    heldPages,      \* pages kpage_alloc() gave to other parts of the kernel
    owner,          \* struct slab: cache
    used,           \* struct slab: the bitmap
    partial, full, empty,       \* the slab lists of each cache
    full_mags, empty_mags,      \* the depot of each cache
    objs,           \* struct kmem_magazine: objs[0..count - 1]
    loaded, previous,           \* the magazines of each CPU and cache
    held,           \* objects that callers of kmem_cache_alloc() own
    lock,           \* the lock of each cache: a CPU or NULL
    caches_lock,    \* kmem_caches_lock
    pc, op,         \* where each CPU is, and its locals
    panicked        \* a KASSERT failed

pageVars == <<flags, heldPages>>
slabVars == <<owner, used, partial, full, empty>>
magVars == <<full_mags, empty_mags, objs, loaded, previous>>
lockVars == <<lock, caches_lock>>
vars == <<pageVars, slabVars, magVars, held, lockVars, pc, op, panicked>>

Points == {"idle", "alloc", "alloc_depot", "free", "free_depot", "free_exchange",
           "slab_alloc", "kpage", "kpage_retry", "reclaim", "drain", "drain_free"}

\* kind: what was called; cache, obj: its arguments; want: the cache whose slabs
\* are searched; got: the magazine at hand; pos, freed: kmem_reclaim()'s.
NoOp == [kind |-> "none", cache |-> NULL, obj |-> NULL, want |-> NULL,
         got |-> NULL, pos |-> 0, freed |-> 0]

Init ==
    /\ flags = [g \in Page |-> "free"] /\ heldPages = {}
    /\ owner = [g \in Page |-> NULL]
    /\ used = [g \in Page |-> {}]
    /\ partial = [c \in Cache |-> <<>>]
    /\ full = [c \in Cache |-> <<>>]
    /\ empty = [c \in Cache |-> <<>>]
    /\ full_mags = [c \in Cache |-> <<>>]
    /\ empty_mags = [c \in Cache |-> <<>>]
    /\ objs = [m \in Obj |-> <<>>]
    /\ loaded = [p \in CPU |-> [c \in UserCache |-> NULL]]
    /\ previous = [p \in CPU |-> [c \in UserCache |-> NULL]]
    /\ held = {}
    /\ lock = [c \in Cache |-> NULL] /\ caches_lock = NULL
    /\ pc = [p \in CPU |-> "idle"]
    /\ op = [p \in CPU |-> NoOp]
    /\ panicked = FALSE

Goto(p, point) == pc' = [pc EXCEPT ![p] = point]
Return(p) == pc' = [pc EXCEPT ![p] = "idle"] /\ op' = [op EXCEPT ![p] = NoOp]
At(p, point) == ~panicked /\ pc[p] = point
Acquire(p, c) == lock[c] = NULL /\ lock' = [lock EXCEPT ![c] = p]
Release(c) == lock' = [lock EXCEPT ![c] = NULL]
Push(x, list) == <<x>> \o list      \* LIST_INSERT_HEAD

-----------------------------------------------------------------------------
(* The slab layer; the caller holds the cache's lock *)

Lists(c) == [used |-> used, partial |-> partial[c], full |-> full[c], empty |-> empty[c]]

SetLists(c, q) ==
    /\ used' = q.used
    /\ partial' = [partial EXCEPT ![c] = q.partial]
    /\ full' = [full EXCEPT ![c] = q.full]
    /\ empty' = [empty EXCEPT ![c] = q.empty]

\* slab_alloc_locked() of slot from slab g, which is at the head of partial.
Taken(q, g, slot) ==
    LET marked == [q EXCEPT !.used[g] = @ \cup {slot}] IN
    IF marked.used[g] = Slot(owner[g])
    THEN [marked EXCEPT !.partial = Remove(@, g), !.full = Push(g, @)]
    ELSE marked

\* Mutant: a slab whose last object was freed stays on its list.
FreedStays(q, obj) ==
    LET g == obj[1]
        cleared == [q EXCEPT !.used[g] = @ \ {obj[2]}]
    IN  IF q.used[g] = Slot(owner[g])
        THEN [cleared EXCEPT !.full = Remove(@, g), !.partial = Push(g, @)]
        ELSE cleared

\* slab_free_locked()
Freed(q, obj) ==
    LET g == obj[1]
        cleared == [q EXCEPT !.used[g] = @ \ {obj[2]}]
        moved == IF q.used[g] = Slot(owner[g])
                 THEN [cleared EXCEPT !.full = Remove(@, g), !.partial = Push(g, @)]
                 ELSE cleared
    IN  IF cleared.used[g] = {}
        THEN [moved EXCEPT !.partial = Remove(@, g), !.empty = Push(g, @)]
        ELSE moved

\* What kmem_cache_alloc() does with what slab_alloc_locked() returns: a caller's
\* object is handed over, a magazine is kept for the exchange.
Deliver(p, obj) ==
    IF op[p].kind = "alloc"
    THEN /\ held' = held \cup ({obj} \ {NULL})
         /\ Release(op[p].cache)
         /\ Return(p)
    ELSE /\ UNCHANGED held
         /\ Release(Mag)
         /\ op' = [op EXCEPT ![p].got = obj]
         /\ Goto(p, "free_exchange")

\* slab_alloc_locked() finds a slab with a free slot.
SlabTake(p) ==
    /\ At(p, "slab_alloc")
    /\ LET c == op[p].want
           q == IF partial[c] # <<>> THEN Lists(c)
                ELSE [Lists(c) EXCEPT !.partial = <<Head(empty[c])>>, !.empty = Tail(@)]
           g == Head(q.partial)
           slot == Min(Slot(c) \ used[g])
       IN  /\ partial[c] # <<>> \/ empty[c] # <<>>
           /\ SetLists(c, Taken(q, g, slot))
           /\ Deliver(p, <<g, slot>>)
    /\ UNCHANGED <<pageVars, owner, magVars, caches_lock, panicked>>

\* slab_alloc_locked() has to grow the cache.
SlabGrow(p) ==
    /\ At(p, "slab_alloc")
    /\ partial[op[p].want] = <<>> /\ empty[op[p].want] = <<>>
    /\ Goto(p, "kpage")
    /\ UNCHANGED <<pageVars, slabVars, magVars, held, lockVars, op, panicked>>

-----------------------------------------------------------------------------
(* kpage_alloc() and kpage_free() *)

FreePages == {g \in Page : flags[g] = "free"}

PageCall(p) ==
    /\ At(p, "idle")
    /\ Goto(p, "kpage")
    /\ op' = [op EXCEPT ![p].kind = "page"]
    /\ UNCHANGED <<pageVars, slabVars, magVars, held, lockVars, panicked>>

\* freelist_pop() for another part of the kernel.
PagePop(p) ==
    /\ pc[p] \in {"kpage", "kpage_retry"} /\ ~panicked
    /\ op[p].kind = "page"
    /\ \E g \in FreePages :
         /\ flags' = [flags EXCEPT ![g] = "used"]
         /\ heldPages' = heldPages \cup {g}
    /\ Return(p)
    /\ UNCHANGED <<slabVars, magVars, held, lockVars, panicked>>

\* freelist_pop() for slab_grow(): the new slab goes to the partial list.
SlabPop(p) ==
    /\ pc[p] \in {"kpage", "kpage_retry"} /\ ~panicked
    /\ op[p].kind # "page"
    /\ \E g \in FreePages :
         /\ flags' = [flags EXCEPT ![g] = "slab"]
         /\ owner' = [owner EXCEPT ![g] = op[p].want]
         /\ used' = [used EXCEPT ![g] = {}]
         /\ partial' = [partial EXCEPT ![op[p].want] = Push(g, @)]
    /\ Goto(p, "slab_alloc")
    /\ UNCHANGED <<heldPages, full, empty, magVars, held, lockVars, op, panicked>>

\* The free list is empty: kmem_reclaim() gets kmem_caches_lock.
ReclaimStart(p) ==
    /\ At(p, "kpage")
    /\ FreePages = {}
    /\ caches_lock = NULL
    /\ caches_lock' = p
    /\ op' = [op EXCEPT ![p].pos = 1, ![p].freed = 0]
    /\ Goto(p, "reclaim")
    /\ UNCHANGED <<pageVars, slabVars, magVars, held, lock, panicked>>

\* kpage_alloc() returns NULL: another CPU reclaims, or a page that was reclaimed
\* went to somebody else.
PageFail(p) ==
    /\ FreePages = {}
    /\ \/ At(p, "kpage") /\ caches_lock # NULL
       \/ At(p, "kpage_retry")
    /\ IF op[p].kind = "page"
       THEN Return(p) /\ UNCHANGED <<held, lock>>
       ELSE Deliver(p, NULL)
    /\ UNCHANGED <<pageVars, slabVars, magVars, caches_lock, panicked>>

PageFree(p) ==
    /\ At(p, "idle")
    /\ \E g \in heldPages :
         /\ flags' = [flags EXCEPT ![g] = "free"]
         /\ heldPages' = heldPages \ {g}
    /\ UNCHANGED <<slabVars, magVars, held, lockVars, pc, op, panicked>>

-----------------------------------------------------------------------------
(* kmem_cache_alloc() *)

Count(m) == Len(objs[m])
Stocked(m) == m # NULL /\ Count(m) > 0
IsFull(m) == m # NULL /\ Count(m) = MagDepth
IsEmpty(m) == m # NULL /\ Count(m) = 0

HasRoom(m) == m # NULL /\ Count(m) < MagDepth

AllocCall(p) ==
    /\ At(p, "idle")
    /\ \E c \in UserCache :
         op' = [op EXCEPT ![p].kind = "alloc", ![p].cache = c, ![p].want = c]
    /\ Goto(p, "alloc")
    /\ UNCHANGED <<pageVars, slabVars, magVars, held, lockVars, panicked>>

\* The loaded magazine has an object.
AllocLoaded(p) ==
    /\ At(p, "alloc")
    /\ LET m == loaded[p][op[p].cache] IN
         /\ Stocked(m)
         /\ held' = held \cup {Last(objs[m])}
         /\ objs' = [objs EXCEPT ![m] = Front(@)]
    /\ Return(p)
    /\ UNCHANGED <<pageVars, slabVars, full_mags, empty_mags, loaded, previous,
                   lockVars, panicked>>

Swap(p, c) ==
    /\ loaded' = [loaded EXCEPT ![p][c] = previous[p][c]]
    /\ previous' = [previous EXCEPT ![p][c] = loaded[p][c]]

\* The loaded one is empty and the previous one is full.
AllocSwap(p) ==
    /\ At(p, "alloc")
    /\ LET c == op[p].cache IN
         /\ ~Stocked(loaded[p][c])
         /\ IsFull(previous[p][c])
         /\ Swap(p, c)
    /\ UNCHANGED <<pageVars, slabVars, full_mags, empty_mags, objs, held, lockVars,
                   pc, op, panicked>>

AllocLock(p) ==
    /\ At(p, "alloc")
    /\ LET c == op[p].cache IN
         /\ ~Stocked(loaded[p][c])
         /\ ~IsFull(previous[p][c])
         /\ Acquire(p, c)
    /\ Goto(p, "alloc_depot")
    /\ UNCHANGED <<pageVars, slabVars, magVars, held, caches_lock, op, panicked>>

\* A full magazine of the depot against the empty previous one.
AllocDepot(p) ==
    /\ At(p, "alloc_depot")
    /\ LET c == op[p].cache IN
         /\ full_mags[c] # <<>>
         /\ full_mags' = [full_mags EXCEPT ![c] = Tail(@)]
         /\ empty_mags' = [empty_mags EXCEPT ![c] =
                IF previous[p][c] = NULL THEN @ ELSE Push(previous[p][c], @)]
         /\ previous' = [previous EXCEPT ![p][c] = loaded[p][c]]
         /\ loaded' = [loaded EXCEPT ![p][c] = Head(full_mags[c])]
         /\ Release(c)
    /\ Goto(p, "alloc")
    /\ UNCHANGED <<pageVars, slabVars, objs, held, caches_lock, op, panicked>>

AllocSlab(p) ==
    /\ At(p, "alloc_depot")
    /\ full_mags[op[p].cache] = <<>>
    /\ Goto(p, "slab_alloc")
    /\ UNCHANGED <<pageVars, slabVars, magVars, held, lockVars, op, panicked>>

-----------------------------------------------------------------------------
(* kmem_cache_free() *)

\* kmem_free(): the cache is found in the slab's header.
FreeCall(p) ==
    /\ At(p, "idle")
    /\ \E obj \in held :
         /\ held' = held \ {obj}
         /\ op' = [op EXCEPT ![p].kind = "free", ![p].cache = owner[obj[1]],
                             ![p].obj = obj, ![p].want = Mag]
    /\ Goto(p, "free")
    /\ UNCHANGED <<pageVars, slabVars, magVars, lockVars, panicked>>

FreeLoaded(p) ==
    /\ At(p, "free")
    /\ LET m == loaded[p][op[p].cache] IN
         /\ HasRoom(m)
         /\ objs' = [objs EXCEPT ![m] = Append(@, op[p].obj)]
    /\ Return(p)
    /\ UNCHANGED <<pageVars, slabVars, full_mags, empty_mags, loaded, previous,
                   held, lockVars, panicked>>

FreeSwap(p) ==
    /\ At(p, "free")
    /\ LET c == op[p].cache IN
         /\ ~HasRoom(loaded[p][c])
         /\ IsEmpty(previous[p][c])
         /\ Swap(p, c)
    /\ UNCHANGED <<pageVars, slabVars, full_mags, empty_mags, objs, held, lockVars,
                   pc, op, panicked>>

FreeLock(p) ==
    /\ At(p, "free")
    /\ LET c == op[p].cache IN
         /\ ~HasRoom(loaded[p][c])
         /\ ~IsEmpty(previous[p][c])
         /\ Acquire(p, c)
    /\ Goto(p, "free_depot")
    /\ UNCHANGED <<pageVars, slabVars, magVars, held, caches_lock, op, panicked>>

\* The depot has an empty magazine.
FreeDepot(p) ==
    /\ At(p, "free_depot")
    /\ LET c == op[p].cache IN
         /\ empty_mags[c] # <<>>
         /\ empty_mags' = [empty_mags EXCEPT ![c] = Tail(@)]
         /\ op' = [op EXCEPT ![p].got = Head(empty_mags[c])]
    /\ Goto(p, "free_exchange")
    /\ UNCHANGED <<pageVars, slabVars, full_mags, objs, loaded, previous, held,
                   lockVars, panicked>>

\* It has none: kmem_cache_alloc(&magazine_cache), with the cache's lock held.
FreeNewMag(p) ==
    /\ At(p, "free_depot")
    /\ empty_mags[op[p].cache] = <<>>
    /\ Acquire(p, Mag)
    /\ Goto(p, "slab_alloc")
    /\ UNCHANGED <<pageVars, slabVars, magVars, held, caches_lock, op, panicked>>

\* Mutant: the previous magazine is overwritten instead of going to the depot.
FreeExchangeLoses(p) ==
    /\ At(p, "free_exchange")
    /\ op[p].got # NULL
    /\ LET c == op[p].cache IN
         /\ previous' = [previous EXCEPT ![p][c] = loaded[p][c]]
         /\ loaded' = [loaded EXCEPT ![p][c] = op[p].got]
         /\ Release(c)
    /\ op' = [op EXCEPT ![p].got = NULL]
    /\ Goto(p, "free")
    /\ UNCHANGED <<pageVars, slabVars, full_mags, empty_mags, objs, held, caches_lock,
                   panicked>>

\* The full previous magazine goes to the depot, the empty one is loaded.
FreeExchange(p) ==
    /\ At(p, "free_exchange")
    /\ op[p].got # NULL
    /\ LET c == op[p].cache IN
         /\ full_mags' = [full_mags EXCEPT ![c] =
                IF previous[p][c] = NULL THEN @ ELSE Push(previous[p][c], @)]
         /\ previous' = [previous EXCEPT ![p][c] = loaded[p][c]]
         /\ loaded' = [loaded EXCEPT ![p][c] = op[p].got]
         /\ Release(c)
    /\ op' = [op EXCEPT ![p].got = NULL]
    /\ Goto(p, "free")
    /\ UNCHANGED <<pageVars, slabVars, empty_mags, objs, held, caches_lock, panicked>>

\* No magazine is to be had: the object goes back to its slab.
FreeToSlab(p) ==
    /\ At(p, "free_exchange")
    /\ op[p].got = NULL
    /\ SetLists(op[p].cache, Freed(Lists(op[p].cache), op[p].obj))
    /\ Release(op[p].cache)
    /\ Return(p)
    /\ UNCHANGED <<pageVars, owner, magVars, held, caches_lock, panicked>>

-----------------------------------------------------------------------------
(* kmem_reclaim() *)

Visited(p) == CacheList[op[p].pos]
NextCache(p) == op' = [op EXCEPT ![p].pos = @ + 1]

\* Mutant: the walk waits for a lock that another CPU holds.
SkipsOwn(p) == lock[Visited(p)] = p

\* holding_spinlock() of the cache's lock, or try_acquire_spinlock() fails.
Skips(p) == lock[Visited(p)] # NULL

\* The lock of the cache is held, by this CPU or by another.
ReclaimSkip(p) ==
    /\ At(p, "reclaim")
    /\ op[p].pos <= Len(CacheList)
    /\ Skips(p)
    /\ NextCache(p)
    /\ UNCHANGED <<pageVars, slabVars, magVars, held, lockVars, pc, panicked>>

ReclaimLock(p) ==
    /\ At(p, "reclaim")
    /\ op[p].pos <= Len(CacheList)
    /\ ~Skips(p)
    /\ Acquire(p, Visited(p))
    /\ Goto(p, "drain")
    /\ UNCHANGED <<pageVars, slabVars, magVars, held, caches_lock, op, panicked>>

\* A magazine of the depot: drain_magazine() frees its objects.
DrainTake(p) ==
    /\ At(p, "drain")
    /\ LET c == Visited(p)
           m == Head(full_mags[c] \o empty_mags[c])
       IN  /\ full_mags[c] # <<>> \/ empty_mags[c] # <<>>
           /\ full_mags' = [full_mags EXCEPT ![c] = Remove(@, m)]
           /\ empty_mags' = [empty_mags EXCEPT ![c] = Remove(@, m)]
           /\ SetLists(c, FoldLeft(Freed, Lists(c), objs[m]))
           /\ objs' = [objs EXCEPT ![m] = <<>>]
           /\ op' = [op EXCEPT ![p].got = m]
    /\ Goto(p, "drain_free")
    /\ UNCHANGED <<pageVars, owner, loaded, previous, held, lockVars, panicked>>

\* kmem_cache_free(&magazine_cache, m), under magazine_cache's lock.  The KASSERT of
\* acquire_spinlock() stops the kernel where this CPU holds that lock already.
DrainFree(p) ==
    /\ At(p, "drain_free")
    /\ lock[Mag] \in {NULL, p}
    /\ IF lock[Mag] = p
       THEN panicked' = TRUE /\ UNCHANGED <<slabVars, pc, op>>
       ELSE /\ SetLists(Mag, Freed(Lists(Mag), op[p].got))
            /\ op' = [op EXCEPT ![p].got = NULL]
            /\ Goto(p, "drain")
            /\ UNCHANGED <<owner, panicked>>
    /\ UNCHANGED <<pageVars, magVars, held, lockVars>>

\* The depot is empty: the empty slabs go back to the page allocator.
DrainPages(p) ==
    /\ At(p, "drain")
    /\ LET c == Visited(p)
           gone == ToSet(empty[c])
       IN  /\ full_mags[c] = <<>> /\ empty_mags[c] = <<>>
           /\ flags' = [g \in Page |-> IF g \in gone THEN "free" ELSE flags[g]]
           /\ owner' = [g \in Page |-> IF g \in gone THEN NULL ELSE owner[g]]
           /\ empty' = [empty EXCEPT ![c] = <<>>]
           /\ op' = [op EXCEPT ![p].pos = @ + 1, ![p].freed = @ + Cardinality(gone)]
           /\ Release(c)
    /\ Goto(p, "reclaim")
    /\ UNCHANGED <<heldPages, used, partial, full, magVars, held, caches_lock, panicked>>

\* kmem_reclaim() returns, and kpage_alloc() tries again or fails.
ReclaimEnd(p) ==
    /\ At(p, "reclaim")
    /\ op[p].pos > Len(CacheList)
    /\ caches_lock' = NULL
    /\ IF op[p].freed > 0
       THEN /\ Goto(p, "kpage_retry")
            /\ op' = [op EXCEPT ![p].pos = 0, ![p].freed = 0]
            /\ UNCHANGED <<held, lock>>
       ELSE IF op[p].kind = "page"
            THEN Return(p) /\ UNCHANGED <<held, lock>>
            ELSE Deliver(p, NULL)
    /\ UNCHANGED <<pageVars, slabVars, magVars, panicked>>

-----------------------------------------------------------------------------
Call(p) == PageCall(p) \/ PageFree(p) \/ AllocCall(p) \/ FreeCall(p)

Step(p) ==
    \/ SlabTake(p) \/ SlabGrow(p)
    \/ PagePop(p) \/ SlabPop(p) \/ ReclaimStart(p) \/ PageFail(p)
    \/ AllocLoaded(p) \/ AllocSwap(p) \/ AllocLock(p) \/ AllocDepot(p) \/ AllocSlab(p)
    \/ FreeLoaded(p) \/ FreeSwap(p) \/ FreeLock(p) \/ FreeDepot(p) \/ FreeNewMag(p)
    \/ FreeExchange(p) \/ FreeToSlab(p)
    \/ ReclaimSkip(p) \/ ReclaimLock(p) \/ DrainTake(p) \/ DrainFree(p)
    \/ DrainPages(p) \/ ReclaimEnd(p)

Next == \E p \in CPU : Call(p) \/ Step(p)

Spec == Init /\ [][Next]_vars

-----------------------------------------------------------------------------
(* Properties *)

\* The magazines of a cache: in the depot and with the CPUs.
Magazines(c) ==
    (ToSet(full_mags[c]) \cup ToSet(empty_mags[c])
        \cup {loaded[p][c] : p \in CPU} \cup {previous[p][c] : p \in CPU}) \ {NULL}

\* Magazines on their way from one place to the next.
InHand == {op[p].got : p \in CPU} \ {NULL}

AllMagazines == InHand \cup UNION {Magazines(c) : c \in UserCache}

Cached == UNION {ToSet(objs[m]) : m \in AllMagazines}
BeingFreed == {op[p].obj : p \in CPU} \ {NULL}
Owned == UNION {{g} \X used[g] : g \in {g \in Page : flags[g] = "slab"}}

\* No object is lost and none is in two places: a slot marked in its slab belongs
\* to a caller, is being freed, sits once in one magazine, or is itself a magazine
\* in one place, through any order of allocs, frees and reclaims of all CPUs.  A
\* page that kmem_reclaim() gave back has nothing in use.
ObjectsConserved ==
    /\ Owned = held \cup BeingFreed \cup Cached \cup AllMagazines
    /\ Cardinality(Owned) =
         Cardinality(held)
         + Cardinality({p \in CPU : op[p].obj # NULL})
         + SumFunction([m \in AllMagazines |-> Count(m)])
         + Cardinality({p \in CPU : op[p].got # NULL})
         + SumFunction([c \in UserCache |-> Len(full_mags[c]) + Len(empty_mags[c])])
         + Cardinality({<<p, c>> \in CPU \X UserCache : loaded[p][c] # NULL})
         + Cardinality({<<p, c>> \in CPU \X UserCache : previous[p][c] # NULL})

\* While nobody holds a cache's lock, each of its slabs is on the one list its
\* bitmap says, and a page on a list belongs to this cache.
SlabsOnRightList ==
    \A c \in Cache : lock[c] = NULL =>
        LET mine == {g \in Page : flags[g] = "slab" /\ owner[g] = c} IN
        /\ ToSet(empty[c]) = {g \in mine : used[g] = {}}
        /\ ToSet(full[c]) = {g \in mine : used[g] = Slot(c)}
        /\ ToSet(partial[c]) = mine \ (ToSet(empty[c]) \cup ToSet(full[c]))
        /\ Len(partial[c]) + Len(full[c]) + Len(empty[c]) = Cardinality(mine)

\* The holder of the lock that p spins for, or NULL.
WaitsFor(p) ==
    CASE pc[p] = "alloc" /\ ~Stocked(loaded[p][op[p].cache])
             /\ ~IsFull(previous[p][op[p].cache]) -> lock[op[p].cache]
      [] pc[p] = "free" /\ ~HasRoom(loaded[p][op[p].cache])
             /\ ~IsEmpty(previous[p][op[p].cache]) -> lock[op[p].cache]
      [] pc[p] = "free_depot" /\ empty_mags[op[p].cache] = <<>> -> lock[Mag]
      [] pc[p] = "reclaim" /\ op[p].pos <= Len(CacheList) /\ ~Skips(p) -> lock[Visited(p)]
      [] pc[p] = "drain_free" -> lock[Mag]
      [] OTHER -> NULL

\* No CPUs wait for one another in a circle: kmem_reclaim() runs under cache locks that
\* its caller took, and takes others, in an order no other path keeps.
NoCircularWait ==
    \A S \in SUBSET CPU \ {{}} : \E p \in S : WaitsFor(p) \notin S \/ WaitsFor(p) = p

\* acquire_spinlock() asserts that the CPU does not hold the lock already.
NeverTakesOwnLock == ~panicked
=============================================================================

----------------------------- MODULE ProcAlloc -----------------------------
(***************************************************************************)
(* What a process is made of (allocproc() and freeproc() in kern/proc.c,   *)
(* the kernel stacks in arch/pmap.c): a pid, a slot of the stack window, a *)
(* mapped stack in it, an object of the proc cache.  Each is taken and     *)
(* given back under a lock of its own, so the steps of several callers     *)
(* interleave, and each may be refused, upon which those already taken are *)
(* given back in reverse.                                                  *)
(*                                                                         *)
(* The stack window is mapped for every CPU.  `tlb' holds the translations *)
(* of it that some CPU may have cached.  The walker fills speculatively    *)
(* from any reachable table, so one enters as soon as its entry is valid,  *)
(* used or not; only tlbi_vaae1is_range() takes it out.                    *)
(***************************************************************************)
EXTENDS Naturals

CONSTANTS
    Thread,         \* the callers of fork(), kthread_add() and wait()
    NSLOTS,         \* KSTACK_NSLOTS: slots of the window, and pids
    SLOTS_PER_L3,   \* slots under one L3 table
    KSTACK_PAGES,   \* pages of a stack
    Page, NULL      \* pages of the machine, and none

ASSUME ProcAllocConstants ==
    /\ {NSLOTS, SLOTS_PER_L3, KSTACK_PAGES} \subseteq Nat \ {0}
    /\ NULL \notin Page

Pid == 0..NSLOTS - 1
Slot == 0..NSLOTS - 1
Index == 1..KSTACK_PAGES
Span(slot) == slot \div SLOTS_PER_L3
Unmapped == [i \in Index |-> NULL]

VARIABLES
    pidmap,         \* pids in use
    kstack_slotmap, \* slots in use
    free,           \* the page allocator
    others,         \* pages that the rest of the kernel has
    l2_kstack,      \* the L3 table of every span of slots, NULL for none
    pte,            \* the entries of every slot's stack
    tlb,            \* cached translations <<slot, index, page>>
    unwound,        \* history: slots that kstack_alloc() unwound and no TLBI followed
    table,          \* processes in allproc and the pid hash: <<pid, slot>>
    pc,             \* what a thread does next
    pid, slot,      \* its locals
    waiter          \* the threads in wait() that hold wait_lock: one or none

vars == <<pidmap, kstack_slotmap, free, others, l2_kstack, pte, tlb, unwound, table, pc, pid,
          slot, waiter>>

memory == <<free, others, l2_kstack, pte, tlb, unwound>>
locals == <<pid, slot>>

Go(t, from, to) == pc[t] = from /\ pc' = [pc EXCEPT ![t] = to]

Init ==
    /\ pidmap = {0} /\ kstack_slotmap = {} /\ free = Page /\ others = {}
    /\ l2_kstack = [s \in {Span(x) : x \in Slot} |-> NULL]
    /\ pte = [s \in Slot |-> Unmapped] /\ tlb = {} /\ unwound = {} /\ table = {}
    /\ pc = [t \in Thread |-> "idle"]
    /\ pid = [t \in Thread |-> 0] /\ slot = [t \in Thread |-> 0] /\ waiter = {}

----------------------------------------------------------------------------
(* allocproc().                                                            *)

\* The call returns and its locals are gone.
Return(t, from) ==
    /\ Go(t, from, "idle")
    /\ pid' = [pid EXCEPT ![t] = 0] /\ slot' = [slot EXCEPT ![t] = 0]

\* `x' is the lowest number of a range that is not in a bitmap.
Lowest(x, range, map) == x \in range \ map /\ \A y \in range \ map : x <= y

pid_alloc(t) ==
    /\ pc[t] = "idle"
    /\ IF Pid \subseteq pidmap
       THEN UNCHANGED <<pidmap, pc, pid>>
       ELSE /\ \E x \in Pid : /\ Lowest(x, Pid, pidmap)
                             /\ pid' = [pid EXCEPT ![t] = x]
                             /\ pidmap' = pidmap \cup {x}
            /\ Go(t, "idle", "slot")
    /\ UNCHANGED <<kstack_slotmap, memory, table, slot, waiter>>

kstack_slot_alloc(t) ==
    /\ pc[t] = "slot"
    /\ IF Slot \subseteq kstack_slotmap
       THEN Go(t, "slot", "pid_free") /\ UNCHANGED <<kstack_slotmap, slot>>
       ELSE /\ \E x \in Slot : /\ Lowest(x, Slot, kstack_slotmap)
                              /\ slot' = [slot EXCEPT ![t] = x]
                              /\ kstack_slotmap' = kstack_slotmap \cup {x}
            /\ Go(t, "slot", "stack")
    /\ UNCHANGED <<pidmap, memory, table, pid, waiter>>

\* Stack pages, all of them distinct, from a pool.
Stacks(pool) == {f \in [Index -> pool] : \A i, j \in Index : f[i] = f[j] => i = j}

Cached(s, f, upto) == {<<s, i, f[i]>> : i \in 1..upto}

\* The L3 table of a slot is allocated before the first stack under it.
Walk(s, l3) ==
    \/ l2_kstack[Span(s)] # NULL /\ l3 = l2_kstack[Span(s)]
    \/ l2_kstack[Span(s)] = NULL /\ l3 \in free

kstack_alloc(t) ==
    \E l3 \in Page : \E f \in Stacks(free \ {l3}) :
        /\ Walk(slot[t], l3)
        /\ l2_kstack' = [l2_kstack EXCEPT ![Span(slot[t])] = l3]
        /\ free' = free \ ({l3} \cup {f[i] : i \in Index})
        /\ pte' = [pte EXCEPT ![slot[t]] = f]
        /\ tlb' = tlb \cup Cached(slot[t], f, KSTACK_PAGES)
        /\ Go(t, "stack", "object")
        /\ UNCHANGED <<pidmap, kstack_slotmap, others, unwound, table, locals, waiter>>

\* No page for the L3 table.
KstackNoTable(t) ==
    /\ l2_kstack[Span(slot[t])] = NULL
    /\ Go(t, "stack", "slot_free")
    /\ UNCHANGED <<pidmap, kstack_slotmap, memory, table, locals, waiter>>

\* Mutant: the first page is forgotten when the others are given back.
KstackUnwindShort(t) ==
    \E l3 \in Page, upto \in 0..KSTACK_PAGES - 1 : \E f \in [1..upto -> free \ {l3}] :
        /\ \A i, j \in 1..upto : f[i] = f[j] => i = j
        /\ Walk(slot[t], l3)
        /\ l2_kstack' = [l2_kstack EXCEPT ![Span(slot[t])] = l3]
        /\ free' = (free \ {l3}) \ {f[i] : i \in 1..upto \cap {1}}
        /\ tlb' = tlb \cup Cached(slot[t], f, upto)
        /\ unwound' = unwound \cup {slot[t]}
        /\ Go(t, "stack", "slot_free")
        /\ UNCHANGED <<pidmap, kstack_slotmap, others, pte, table, locals, waiter>>

\* The pool runs dry after `upto' pages, whose entries were valid by then: they are
\* cleared and the pages given back without a TLBI.  The table stays.
KstackUnwind(t) ==
    \E l3 \in Page, upto \in 0..KSTACK_PAGES - 1 : \E f \in [1..upto -> free \ {l3}] :
        /\ \A i, j \in 1..upto : f[i] = f[j] => i = j
        /\ Walk(slot[t], l3)
        /\ l2_kstack' = [l2_kstack EXCEPT ![Span(slot[t])] = l3]
        /\ free' = free \ {l3}
        /\ tlb' = tlb \cup Cached(slot[t], f, upto)
        /\ unwound' = unwound \cup {slot[t]}
        /\ Go(t, "stack", "slot_free")
        /\ UNCHANGED <<pidmap, kstack_slotmap, others, pte, table, locals, waiter>>

\* The object, or the rest of fork() or kthread_add(), may fail; freeproc()
\* and allocproc()'s own last error path give back the same things in the same
\* order.
ObjectFails(t) ==
    /\ Go(t, "object", "stack_free")
    /\ UNCHANGED <<pidmap, kstack_slotmap, memory, table, locals, waiter>>

proc_activate(t) ==
    /\ Return(t, "object")
    /\ table' = table \cup {<<pid[t], slot[t]>>}
    /\ UNCHANGED <<pidmap, kstack_slotmap, memory, waiter>>

----------------------------------------------------------------------------
(* wait() unlinks a zombie; wait_lock admits one such caller at a time and *)
(* is held over freeproc().                                                *)

Unlink(t) ==
    /\ waiter = {}
    /\ waiter' = {t}
    /\ \E np \in table :
        /\ table' = table \ {np}
        /\ pid' = [pid EXCEPT ![t] = np[1]]
        /\ slot' = [slot EXCEPT ![t] = np[2]]
    /\ Go(t, "idle", "stack_free")
    /\ UNCHANGED <<pidmap, kstack_slotmap, memory>>

----------------------------------------------------------------------------
(* freeproc(), and the error paths of allocproc().                         *)

\* Mutant: nothing is invalidated.
kstack_free_no_tlbi(t) ==
    /\ Go(t, "stack_free", "slot_free")
    /\ free' = free \cup {pte[slot[t]][i] : i \in Index}
    /\ pte' = [pte EXCEPT ![slot[t]] = Unmapped]
    /\ unwound' = unwound \ {slot[t]}
    /\ UNCHANGED <<pidmap, kstack_slotmap, others, l2_kstack, tlb, table, locals, waiter>>

\* All under kstack_lock: nobody else looks at the window meanwhile.
kstack_free(t) ==
    /\ Go(t, "stack_free", "slot_free")
    /\ free' = free \cup {pte[slot[t]][i] : i \in Index}
    /\ pte' = [pte EXCEPT ![slot[t]] = Unmapped]
    /\ tlb' = {e \in tlb : e[1] # slot[t]}
    /\ unwound' = unwound \ {slot[t]}
    /\ UNCHANGED <<pidmap, kstack_slotmap, others, l2_kstack, table, locals, waiter>>

kstack_slot_free(t) ==
    /\ Go(t, "slot_free", "pid_free")
    /\ kstack_slotmap' = kstack_slotmap \ {slot[t]}
    /\ UNCHANGED <<pidmap, memory, table, locals, waiter>>

\* Mutant: the pid is not given back.
pid_free_not(t) ==
    /\ Return(t, "pid_free")
    /\ waiter' = waiter \ {t}
    /\ UNCHANGED <<pidmap, kstack_slotmap, memory, table>>

\* The last step: the object is freed and wait() lets go of wait_lock.
pid_free(t) ==
    /\ Return(t, "pid_free")
    /\ pidmap' = pidmap \ {pid[t]}
    /\ waiter' = waiter \ {t}
    /\ UNCHANGED <<kstack_slotmap, memory, table>>

----------------------------------------------------------------------------
\* The rest of the kernel allocates and frees a page.
OthersTake ==
    /\ \E pg \in free : free' = free \ {pg} /\ others' = others \cup {pg}
    /\ UNCHANGED <<pidmap, kstack_slotmap, l2_kstack, pte, tlb, unwound, table, pc, locals, waiter>>

OthersGive ==
    /\ \E pg \in others : free' = free \cup {pg} /\ others' = others \ {pg}
    /\ UNCHANGED <<pidmap, kstack_slotmap, l2_kstack, pte, tlb, unwound, table, pc, locals, waiter>>

Next ==
    \/ \E t \in Thread :
        \/ pid_alloc(t) \/ kstack_slot_alloc(t)
        \/ kstack_alloc(t) \/ KstackNoTable(t) \/ KstackUnwind(t)
        \/ ObjectFails(t) \/ proc_activate(t)
        \/ Unlink(t) \/ kstack_free(t) \/ kstack_slot_free(t) \/ pid_free(t)
    \/ OthersTake \/ OthersGive

Spec == Init /\ [][Next]_vars

----------------------------------------------------------------------------
(* Properties.                                                             *)

\* The bitmaps, the window and the threads' locals are well formed; pid 0
\* stays reserved.
TypeOK ==
    /\ pidmap \subseteq Pid /\ 0 \in pidmap /\ kstack_slotmap \subseteq Slot
    /\ free \subseteq Page /\ others \subseteq Page
    /\ l2_kstack \in [{Span(x) : x \in Slot} -> Page \cup {NULL}]
    /\ pte \in [Slot -> [Index -> Page \cup {NULL}]]
    /\ tlb \subseteq Slot \X Index \X Page /\ unwound \subseteq Slot
    /\ table \subseteq Pid \X Slot
    /\ pc \in [Thread -> {"idle", "slot", "stack", "object", "stack_free", "slot_free", "pid_free"}]
    /\ pid \in [Thread -> Pid] /\ slot \in [Thread -> Slot]
    /\ waiter \subseteq Thread

HasPid(t) == pc[t] # "idle"
HasSlot(t) == pc[t] \in {"stack", "object", "stack_free", "slot_free"}
HasStack(t) == pc[t] \in {"object", "stack_free"}

\* Every pid and every slot in use belongs to one process in the table or to
\* one thread that is making or freeing one; none is lost on any error path of
\* allocproc() and none is handed out twice.
OwnedOnce ==
    /\ \A x \in Pid \ {0} :
        x \in pidmap <=> \/ \E np \in table : np[1] = x
                        \/ \E t \in Thread : HasPid(t) /\ pid[t] = x
    /\ \A x \in Slot :
        x \in kstack_slotmap <=> \/ \E np \in table : np[2] = x
                                \/ \E t \in Thread : HasSlot(t) /\ slot[t] = x
    /\ \A np, nq \in table : np[1] = nq[1] \/ np[2] = nq[2] => np = nq
    /\ \A t, u \in Thread :
        \/ HasPid(t) /\ HasPid(u) /\ pid[t] = pid[u]
        \/ HasSlot(t) /\ HasSlot(u) /\ slot[t] = slot[u]
        => t = u
    /\ \A t \in Thread, np \in table :
        (HasPid(t) => pid[t] # np[1]) /\ (HasSlot(t) => slot[t] # np[2])

TablePages == {l2_kstack[s] : s \in DOMAIN l2_kstack} \ {NULL}
StackPages == (UNION {{pte[s][i] : i \in Index} : s \in Slot}) \ {NULL}

\* Every page is free, or with the rest of the kernel, or an L3 table of the
\* window, or one page of one stack: kstack_alloc()'s unwinding returns all it
\* took.
PagesConserved ==
    /\ Page = free \cup others \cup TablePages \cup StackPages
    /\ free \cap others = {} /\ (free \cup others) \cap (TablePages \cup StackPages) = {}
    /\ TablePages \cap StackPages = {}
    /\ \A s, r \in DOMAIN l2_kstack : l2_kstack[s] = l2_kstack[r] /\ l2_kstack[s] # NULL => s = r
    /\ \A s, r \in Slot, i, j \in Index :
        pte[s][i] = pte[r][j] /\ pte[s][i] # NULL => s = r /\ i = j

\* The slots of the processes that can run and of those under construction.
InUse == {np[2] : np \in table} \cup {slot[t] : t \in {u \in Thread : HasStack(u)}}

\* A process that can run, and one under construction, finds its own pages behind its
\* stack on every CPU: the entries are there, and a cached translation that disagrees
\* with them is one that kstack_alloc() left when it unwound an earlier try at the slot.
\* Even then the top page, where the stack starts, is right.  kstack_free() invalidates
\* so that "the stale entries [are] dropped across the inner-shareable domain before the
\* slot is reused"; the unwinding does not.
StaleOnlyFromUnwind ==
    \A s \in InUse :
        /\ \A i \in Index : pte[s][i] # NULL
        /\ \A e \in tlb :
            e[1] = s /\ (s \notin unwound \/ e[2] = KSTACK_PAGES) => pte[s][e[2]] = e[3]
=============================================================================

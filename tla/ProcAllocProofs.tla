--------------------------- MODULE ProcAllocProofs --------------------------
(***************************************************************************)
(* Theorems about ProcAlloc for any number of threads, slots and pages:    *)
(* every pid, slot, page and stack has one owner.                          *)
(***************************************************************************)
EXTENDS ProcAlloc, TLAPS

Spans == {Span(x) : x \in Slot}

\* Pids: pid 0 is the idle process's, every other pid in use has one owner.
PidsOwned ==
    /\ \A x \in Pid : x # 0 =>
        (x \in pidmap <=> \/ \E np \in table : np[1] = x
                          \/ \E t \in Thread : HasPid(t) /\ pid[t] = x)
    /\ \A np \in table : np[1] # 0
    /\ \A t \in Thread : HasPid(t) => pid[t] # 0
    /\ \A np, nq \in table : np[1] = nq[1] => np = nq
    /\ \A t, u \in Thread : HasPid(t) /\ HasPid(u) /\ pid[t] = pid[u] => t = u
    /\ \A t \in Thread, np \in table : HasPid(t) => pid[t] # np[1]

\* Slots: every one in use has one owner.
SlotsOwned ==
    /\ \A x \in Slot :
        x \in kstack_slotmap <=> \/ \E np \in table : np[2] = x
                                 \/ \E t \in Thread : HasSlot(t) /\ slot[t] = x
    /\ \A np, nq \in table : np[2] = nq[2] => np = nq
    /\ \A t, u \in Thread : HasSlot(t) /\ HasSlot(u) /\ slot[t] = slot[u] => t = u
    /\ \A t \in Thread, np \in table : HasSlot(t) => slot[t] # np[2]

\* PagesConserved page by page.
PagesInv ==
    /\ \A g \in Page : \/ g \in free \/ g \in others
                       \/ \E r \in Spans : l2_kstack[r] = g
                       \/ \E s \in Slot, i \in Index : pte[s][i] = g
    /\ \A g \in free : g \notin others
    /\ \A r \in Spans : l2_kstack[r] \notin free /\ l2_kstack[r] \notin others
    /\ \A s \in Slot, i \in Index : pte[s][i] \notin free /\ pte[s][i] \notin others
    /\ \A r \in Spans, s \in Slot, i \in Index : l2_kstack[r] = pte[s][i] => l2_kstack[r] = NULL
    /\ \A s, r \in Spans : l2_kstack[s] = l2_kstack[r] /\ l2_kstack[s] # NULL => s = r
    /\ \A s, r \in Slot, i, j \in Index :
        pte[s][i] = pte[r][j] /\ pte[s][i] # NULL => s = r /\ i = j

\* A process, or a thread at a point where it has a stack, is behind the slot.
Stacked(s) ==
    \/ \E np \in table : np[2] = s
    \/ \E t \in Thread : HasStack(t) /\ slot[t] = s

\* kstack_alloc() may have left this translation when it unwound a try at the slot: it
\* unwinds before the last page is mapped.
LeftByUnwind(e) == e[1] \in unwound /\ e[2] # KSTACK_PAGES

\* Such a slot is mapped and the cached translations agree with its entries, but for
\* what an unwinding left; the others are unmapped and nothing else of them is cached.
WindowInv ==
    /\ \A s \in Slot : Stacked(s) => \A i \in Index : pte[s][i] # NULL
    /\ \A s \in Slot : ~Stacked(s) => \A i \in Index : pte[s][i] = NULL
    /\ \A e \in tlb : LeftByUnwind(e) \/ (Stacked(e[1]) /\ pte[e[1]][e[2]] = e[3])

\* The inductive invariant.
IInv == TypeOK /\ PidsOwned /\ SlotsOwned /\ PagesInv /\ WindowInv

----------------------------------------------------------------------------
\* What the proofs use of the constants.
LEMMA Constants ==
    /\ Pid \subseteq Nat /\ Slot \subseteq Nat /\ 0 \in Pid /\ 0 \in Slot
    /\ NULL \notin Page /\ 1 \in Index
    /\ \A s \in Slot : Span(s) \in Spans
    /\ Unmapped \in [Index -> Page \cup {NULL}] /\ \A i \in Index : Unmapped[i] = NULL
BY ProcAllocConstants DEF Pid, Slot, Index, Unmapped, Spans

\* The state after procinit() satisfies the invariant.
LEMMA InitIInv == Init => IInv
<1> SUFFICES ASSUME Init PROVE IInv
  OBVIOUS
<1> USE Constants DEF Init
<1>1. \A t \in Thread : ~HasPid(t) /\ ~HasSlot(t) /\ ~HasStack(t)
  BY Zenon DEF HasPid, HasSlot, HasStack
<1>2. l2_kstack = [r \in Spans |-> NULL]
  BY Zenon DEF Spans
<1>3. TypeOK
  BY <1>2, Zenon DEF TypeOK, Spans
<1>4. PidsOwned /\ SlotsOwned
  BY <1>1, Zenon DEF PidsOwned, SlotsOwned
<1>5. PagesInv
  BY <1>2, Zenon DEF PagesInv
<1>6. WindowInv
  BY <1>1, Zenon DEF WindowInv, LeftByUnwind, Stacked
<1>7. QED
  BY <1>3, <1>4, <1>5, <1>6, Zenon DEF IInv

\* PagesInv speaks of four variables.
LEMMA SamePages ==
    ASSUME PagesInv, UNCHANGED <<free, others, l2_kstack, pte>> PROVE PagesInv'
BY DEF PagesInv

\* A step that changes nothing.
LEMMA Stutter == ASSUME IInv, UNCHANGED vars PROVE IInv'
<1> USE DEF IInv, vars
<1>1. TypeOK' /\ PagesInv'
  BY DEF TypeOK, PagesInv
<1>2. PidsOwned' /\ SlotsOwned'
  BY DEF PidsOwned, SlotsOwned, HasPid, HasSlot
<1>3. WindowInv'
  BY Zenon DEF WindowInv, LeftByUnwind, Stacked, HasStack
<1>4. QED
  BY <1>1, <1>2, <1>3, Zenon

----------------------------------------------------------------------------
(* allocproc(), one lemma per action.                                      *)

\* pid_alloc(): the lowest free pid has no owner, and gets one.
LEMMA PidAllocStep ==
    ASSUME IInv, NEW t \in Thread, pid_alloc(t) PROVE IInv'
<1> USE Constants DEF IInv
<1>m. UNCHANGED <<kstack_slotmap, free, others, l2_kstack, pte, tlb, unwound, table, slot, waiter>>
  BY Zenon DEF pid_alloc, memory
<1>1. CASE Pid \subseteq pidmap
  <2>1. UNCHANGED vars
    BY <1>m, <1>1, Zenon DEF pid_alloc, vars
  <2>2. QED
    BY <2>1, Stutter, Zenon
<1>2. CASE ~(Pid \subseteq pidmap)
  <2>1. PICK n \in Pid : /\ n \notin pidmap
                         /\ pid' = [pid EXCEPT ![t] = n] /\ pidmap' = pidmap \cup {n}
    BY <1>2, Zenon DEF pid_alloc, Lowest
  <2>2. pc[t] = "idle" /\ pc' = [pc EXCEPT ![t] = "slot"]
    BY <1>2, Zenon DEF pid_alloc, Go
  <2>3. /\ pidmap' = pidmap \cup {n} /\ pid'[t] = n /\ n # 0
        /\ \A u \in Thread : u # t => pid'[u] = pid[u]
        /\ ~HasPid(t) /\ HasPid(t)'
        /\ \A u \in Thread : u # t => (HasPid(u)' <=> HasPid(u))
    BY <2>1, <2>2, Zenon DEF TypeOK, HasPid
  <2>4. /\ \A u \in Thread : HasSlot(u)' <=> HasSlot(u)
        /\ \A u \in Thread : HasStack(u)' <=> HasStack(u)
    BY <2>2, Zenon DEF TypeOK, HasSlot, HasStack
  <2>5. TypeOK'
    BY <1>m, <2>1, <2>2, <2>3, Zenon DEF TypeOK
  <2>6. PidsOwned'
    <3>1. table' = table /\ \A np \in table : np[1] \in Pid
      BY <1>m, Zenon DEF TypeOK
    <3>2. \A u \in Thread : pid[u] \in Pid
      BY Zenon DEF TypeOK
    <3>3. /\ \A np \in table : np[1] # n
          /\ \A u \in Thread : HasPid(u) => pid[u] # n
      BY <2>1, <2>3, Zenon DEF PidsOwned
    <3>4. QED
      BY <2>1, <2>3, <3>1, <3>2, <3>3 DEF PidsOwned
  <2>7. SlotsOwned'
    BY <1>m, <2>4, Zenon DEF SlotsOwned
  <2>8. PagesInv'
    BY <1>m DEF PagesInv
  <2>9. WindowInv'
    BY <1>m, <2>4 DEF WindowInv, LeftByUnwind, Stacked
  <2>10. QED
    BY <2>5, <2>6, <2>7, <2>8, <2>9, Zenon
<1>3. QED
  BY <1>1, <1>2, Zenon

\* kstack_slot_alloc(): likewise; without a slot only the pid is to be returned.
LEMMA SlotAllocStep ==
    ASSUME IInv, NEW t \in Thread, kstack_slot_alloc(t) PROVE IInv'
<1> USE Constants DEF IInv
<1>m. UNCHANGED <<pidmap, free, others, l2_kstack, pte, tlb, unwound, table, pid, waiter>>
  BY Zenon DEF kstack_slot_alloc, memory
<1>t. pc[t] = "slot" /\ ~HasSlot(t) /\ ~HasStack(t) /\ HasPid(t)
  BY Zenon DEF kstack_slot_alloc, HasSlot, HasStack, HasPid
<1>p. PagesInv'
  BY <1>m, SamePages, Zenon
<1>1. CASE Slot \subseteq kstack_slotmap
  <2>1. pc' = [pc EXCEPT ![t] = "pid_free"] /\ UNCHANGED <<kstack_slotmap, slot>>
    BY <1>1, Zenon DEF kstack_slot_alloc, Go
  <2>2. \A u \in Thread : /\ HasPid(u)' <=> HasPid(u)
                          /\ HasSlot(u)' <=> HasSlot(u)
                          /\ HasStack(u)' <=> HasStack(u)
    BY <1>t, <2>1, Zenon DEF TypeOK, HasPid, HasSlot, HasStack
  <2>3. TypeOK'
    BY <1>m, <2>1, Zenon DEF TypeOK
  <2>4. PidsOwned'
    BY <1>m, <2>1, <2>2, Zenon DEF PidsOwned
  <2>5. SlotsOwned'
    BY <1>m, <2>1, <2>2, Zenon DEF SlotsOwned
  <2>6. WindowInv'
    BY <1>m, <2>1, <2>2 DEF WindowInv, LeftByUnwind, Stacked
  <2>7. QED
    BY <1>p, <2>3, <2>4, <2>5, <2>6, Zenon
<1>2. CASE ~(Slot \subseteq kstack_slotmap)
  <2>1. PICK n \in Slot : /\ n \notin kstack_slotmap
                          /\ slot' = [slot EXCEPT ![t] = n]
                          /\ kstack_slotmap' = kstack_slotmap \cup {n}
    BY <1>2, Zenon DEF kstack_slot_alloc, Lowest
  <2>2. pc' = [pc EXCEPT ![t] = "stack"]
    BY <1>2, Zenon DEF kstack_slot_alloc, Go
  <2>3. /\ kstack_slotmap' = kstack_slotmap \cup {n} /\ slot'[t] = n /\ HasSlot(t)'
        /\ \A u \in Thread : u # t => slot'[u] = slot[u] /\ (HasSlot(u)' <=> HasSlot(u))
        /\ \A u \in Thread : /\ HasPid(u)' <=> HasPid(u)
                             /\ HasStack(u)' <=> HasStack(u)
    BY <1>t, <2>1, <2>2, Zenon DEF TypeOK, HasPid, HasSlot, HasStack
  <2>4. TypeOK'
    BY <1>m, <2>1, <2>2, <2>3, Zenon DEF TypeOK
  <2>5. PidsOwned'
    BY <1>m, <2>3 DEF PidsOwned
  <2>6. SlotsOwned'
    <3>1. table' = table /\ \A np \in table : np[2] \in Slot
      BY <1>m, Zenon DEF TypeOK
    <3>2. \A u \in Thread : slot[u] \in Slot
      BY Zenon DEF TypeOK
    <3>3. /\ \A np \in table : np[2] # n
          /\ \A u \in Thread : HasSlot(u) => slot[u] # n
      BY <2>1, Zenon DEF SlotsOwned
    <3>4. QED
      BY <1>t, <2>1, <2>3, <3>1, <3>2, <3>3 DEF SlotsOwned
  <2>7. \A s : Stacked(s)' <=> Stacked(s)
    BY <1>m, <1>t, <2>3, Zenon DEF Stacked
  <2>8. WindowInv'
    BY <1>m, <2>7, Zenon DEF WindowInv, LeftByUnwind
  <2>9. QED
    BY <1>p, <2>4, <2>5, <2>6, <2>8, Zenon
<1>3. QED
  BY <1>1, <1>2, Zenon

\* A step of `t' between two points at which it has the same things.
LEMMA SameOwners ==
    ASSUME IInv, NEW t \in Thread, NEW to,
           to \in {"object", "stack_free", "slot_free", "pid_free"},
           pc' = [pc EXCEPT ![t] = to],
           UNCHANGED <<pidmap, kstack_slotmap, table, pid, slot, waiter>>,
           HasPid(t)' <=> HasPid(t), HasSlot(t)' <=> HasSlot(t)
    PROVE  PidsOwned' /\ SlotsOwned'
<1> USE DEF IInv
<1>1. \A u \in Thread : (HasPid(u)' <=> HasPid(u)) /\ (HasSlot(u)' <=> HasSlot(u))
  BY Zenon DEF TypeOK, HasPid, HasSlot
<1>2. PidsOwned'
  BY <1>1, Zenon DEF PidsOwned
<1>3. SlotsOwned'
  BY <1>1, Zenon DEF SlotsOwned
<1>4. QED
  BY <1>2, <1>3, Zenon

\* kstack_alloc(): the slot was unmapped, nothing of it was cached but what an unwinding
\* left, and it gets pages that were free.
LEMMA KstackAllocStep ==
    ASSUME IInv, NEW t \in Thread, kstack_alloc(t) PROVE IInv'
<1> USE Constants DEF IInv
<1> DEFINE s0 == slot[t]
           r0 == Span(s0)
<1>1. PICK l3 \in Page : \E f \in Stacks(free \ {l3}) :
        /\ Walk(slot[t], l3)
        /\ l2_kstack' = [l2_kstack EXCEPT ![Span(slot[t])] = l3]
        /\ free' = free \ ({l3} \cup {f[i] : i \in Index})
        /\ pte' = [pte EXCEPT ![slot[t]] = f]
        /\ tlb' = tlb \cup Cached(slot[t], f, KSTACK_PAGES)
        /\ Go(t, "stack", "object")
        /\ UNCHANGED <<pidmap, kstack_slotmap, others, unwound, table, locals, waiter>>
  BY Zenon DEF kstack_alloc
<1>2. PICK f \in Stacks(free \ {l3}) :
        /\ Walk(s0, l3)
        /\ l2_kstack' = [l2_kstack EXCEPT ![r0] = l3]
        /\ free' = free \ ({l3} \cup {f[i] : i \in Index})
        /\ pte' = [pte EXCEPT ![s0] = f]
        /\ tlb' = tlb \cup Cached(s0, f, KSTACK_PAGES)
        /\ Go(t, "stack", "object")
        /\ UNCHANGED <<pidmap, kstack_slotmap, others, unwound, table, locals, waiter>>
  BY <1>1, Zenon
<1>s. s0 \in Slot /\ r0 \in Spans
  BY Zenon DEF TypeOK
<1>f. /\ \A i \in Index : f[i] \in Page /\ f[i] \in free /\ f[i] # l3
      /\ \A i, j \in Index : f[i] = f[j] => i = j
      /\ f \in [Index -> Page \cup {NULL}]
  BY <1>2, Zenon DEF Stacks, TypeOK
<1>w. \/ l2_kstack[r0] # NULL /\ l3 = l2_kstack[r0]
      \/ l2_kstack[r0] = NULL /\ l3 \in free
  BY <1>2, Zenon DEF Walk
<1>g. /\ UNCHANGED <<pidmap, kstack_slotmap, others, unwound, table, pid, slot, waiter>>
      /\ pc[t] = "stack" /\ pc' = [pc EXCEPT ![t] = "object"]
      /\ l2_kstack' = [l2_kstack EXCEPT ![r0] = l3] /\ pte' = [pte EXCEPT ![s0] = f]
  BY <1>2, Zenon DEF Go, locals
<1>c. tlb' = tlb \cup {<<s0, i, f[i]>> : i \in Index}
  BY <1>2, Zenon DEF Cached, Index
<1>e. \A g : g \in free' <=> g \in free /\ g # l3 /\ \A i \in Index : f[i] # g
  BY <1>2, Zenon
<1> HIDE DEF s0, r0
<1>l. /\ l2_kstack'[r0] = l3
      /\ \A r \in Spans : r # r0 => l2_kstack'[r] = l2_kstack[r]
      /\ \A r \in Spans : l2_kstack[r] \in Page \cup {NULL}
  BY <1>s, <1>g, Zenon DEF TypeOK, Spans
<1>x. /\ \A i \in Index : pte'[s0][i] = f[i]
      /\ \A s \in Slot : s # s0 => \A i \in Index : pte'[s][i] = pte[s][i]
      /\ \A s \in Slot, i \in Index : pte[s][i] \in Page \cup {NULL}
  BY <1>s, <1>g DEF TypeOK
<1>h. /\ HasPid(t) /\ HasPid(t)' /\ HasSlot(t) /\ HasSlot(t)' /\ ~HasStack(t) /\ HasStack(t)'
      /\ \A u \in Thread : u # t => (HasStack(u)' <=> HasStack(u))
      /\ \A u \in Thread : HasStack(u) => HasSlot(u)
  BY <1>g, Zenon DEF TypeOK, HasPid, HasSlot, HasStack
<1>3. TypeOK'
  <2>1. free' \subseteq Page
    BY <1>e, Zenon DEF TypeOK
  <2>2. l2_kstack' \in [{Span(x) : x \in Slot} -> Page \cup {NULL}]
    BY <1>g, Zenon DEF TypeOK
  <2>3. pte' \in [Slot -> [Index -> Page \cup {NULL}]]
    BY <1>f, <1>g, Zenon DEF TypeOK
  <2>4. tlb' \subseteq Slot \X Index \X Page
    BY <1>c, <1>f, <1>s DEF TypeOK
  <2>5. pc' \in [Thread -> {"idle", "slot", "stack", "object", "stack_free", "slot_free", "pid_free"}]
    BY <1>g, Zenon DEF TypeOK
  <2>6. QED
    BY <1>g, <2>1, <2>2, <2>3, <2>4, <2>5, Zenon DEF TypeOK
<1>4. PidsOwned' /\ SlotsOwned'
  BY <1>g, <1>h, SameOwners, Zenon
<1>5. \A s : Stacked(s)' <=> Stacked(s) \/ s = s0
  BY <1>g, <1>h, Zenon DEF Stacked, s0
<1>6. ~Stacked(s0)
  BY <1>h, Zenon DEF Stacked, SlotsOwned, s0
<1>7. \A i \in Index : pte[s0][i] = NULL
  BY <1>6, <1>s, Zenon DEF WindowInv
<1>8. PagesInv'
  <2>0. /\ \A r \in Spans : l2_kstack[r] # l3 \/ r = r0
        /\ \A s \in Slot, i \in Index : pte[s][i] # l3
        /\ l3 \notin others
    BY <1>w, <1>s DEF PagesInv
  <2>1. ASSUME NEW g \in Page
        PROVE  \/ g \in free' \/ g \in others'
               \/ \E r \in Spans : l2_kstack'[r] = g
               \/ \E s \in Slot, i \in Index : pte'[s][i] = g
    <3>1. CASE g \in free
      <4>1. CASE g = l3
        BY <4>1, <1>l, <1>s, Zenon
      <4>2. CASE \E i \in Index : g = f[i]
        <5>1. PICK i \in Index : g = f[i]
          BY <4>2, Zenon
        <5>2. pte'[s0][i] = g
          BY <5>1, <1>x, Zenon
        <5>3. QED
          BY <5>2, <1>s, Zenon
      <4>3. QED
        BY <3>1, <4>1, <4>2, <1>e, Zenon
    <3>2. CASE g \in others
      BY <3>2, <1>g, Zenon
    <3>3. CASE \E r \in Spans : l2_kstack[r] = g
      <4>1. PICK r \in Spans : l2_kstack[r] = g
        BY <3>3, Zenon
      <4>2. l2_kstack'[r] = g
        BY <4>1, <1>l, <1>w, Zenon
      <4>3. QED
        BY <4>2, Zenon
    <3>4. CASE \E s \in Slot, i \in Index : pte[s][i] = g
      <4>1. PICK s \in Slot, i \in Index : pte[s][i] = g
        BY <3>4, Zenon
      <4>2. s # s0
        BY <4>1, <1>7, Zenon
      <4>3. pte'[s][i] = g
        BY <4>1, <4>2, <1>x, Zenon
      <4>4. QED
        BY <4>3, Zenon
    <3>5. QED
      BY <3>1, <3>2, <3>3, <3>4, Zenon DEF PagesInv
  <2>2. \A g \in free' : g \notin others'
    BY <1>e, <1>g, Zenon DEF PagesInv
  <2>3. \A r \in Spans : l2_kstack'[r] \notin free' /\ l2_kstack'[r] \notin others'
    BY <1>e, <1>g, <1>l, <2>0 DEF PagesInv
  <2>4. \A s \in Slot, i \in Index : pte'[s][i] \notin free' /\ pte'[s][i] \notin others'
    BY <1>e, <1>f, <1>g, <1>x DEF PagesInv
  <2>5. \A r \in Spans, s \in Slot, i \in Index :
            l2_kstack'[r] = pte'[s][i] => l2_kstack'[r] = NULL
    <3> SUFFICES ASSUME NEW r \in Spans, NEW s \in Slot, NEW i \in Index,
                        l2_kstack'[r] = pte'[s][i]
                 PROVE  l2_kstack'[r] = NULL
      BY Zenon
    <3>1. CASE s = s0
      BY <3>1, <1>f, <1>l, <1>x DEF PagesInv
    <3>2. CASE s # s0
      BY <3>2, <1>l, <1>x, <2>0 DEF PagesInv
    <3>3. QED
      BY <3>1, <3>2, Zenon
  <2>6. \A s, r \in Spans : l2_kstack'[s] = l2_kstack'[r] /\ l2_kstack'[s] # NULL => s = r
    BY <1>l, <2>0 DEF PagesInv
  <2>7. \A s, r \in Slot, i, j \in Index :
            pte'[s][i] = pte'[r][j] /\ pte'[s][i] # NULL => s = r /\ i = j
    <3> TAKE s, r \in Slot, i, j \in Index
    <3> HAVE pte'[s][i] = pte'[r][j] /\ pte'[s][i] # NULL
    <3>1. CASE s = s0 /\ r = s0
      BY <3>1, <1>f, <1>x
    <3>2. CASE s = s0 /\ r # s0
      BY <3>2, <1>f, <1>x DEF PagesInv
    <3>3. CASE s # s0 /\ r = s0
      BY <3>3, <1>f, <1>x DEF PagesInv
    <3>4. CASE s # s0 /\ r # s0
      BY <3>4, <1>x DEF PagesInv
    <3>5. QED
      BY <3>1, <3>2, <3>3, <3>4, Zenon
  <2>8. QED
    BY <2>1, <2>2, <2>3, <2>4, <2>5, <2>6, <2>7, Zenon DEF PagesInv
<1>9. WindowInv'
  <2>1. \A s \in Slot : Stacked(s)' => \A i \in Index : pte'[s][i] # NULL
    <3> SUFFICES ASSUME NEW s \in Slot, Stacked(s)', NEW i \in Index PROVE pte'[s][i] # NULL
      BY Zenon
    <3>1. CASE s = s0
      BY <3>1, <1>f, <1>x
    <3>2. CASE s # s0
      <4>1. Stacked(s)
        BY <3>2, <1>5, Zenon
      <4>2. pte[s][i] # NULL
        BY <4>1, Zenon DEF WindowInv
      <4>3. QED
        BY <3>2, <4>2, <1>x, Zenon
    <3>3. QED
      BY <3>1, <3>2, Zenon
  <2>2. \A s \in Slot : ~(Stacked(s)') => \A i \in Index : pte'[s][i] = NULL
    <3> SUFFICES ASSUME NEW s \in Slot, ~(Stacked(s)'), NEW i \in Index PROVE pte'[s][i] = NULL
      BY Zenon
    <3>1. s # s0 /\ ~Stacked(s)
      BY <1>5, Zenon
    <3>2. pte[s][i] = NULL
      BY <3>1, Zenon DEF WindowInv
    <3>3. QED
      BY <3>1, <3>2, <1>x, Zenon
  <2>3. ASSUME NEW e \in tlb'
        PROVE  LeftByUnwind(e)' \/ (Stacked(e[1])' /\ pte'[e[1]][e[2]] = e[3])
    <3>0. LeftByUnwind(e)' <=> LeftByUnwind(e)
      BY <1>g, Zenon DEF LeftByUnwind
    <3>1. CASE e \in tlb /\ ~LeftByUnwind(e)
      <4>1. e[1] \in Slot /\ e[2] \in Index /\ Stacked(e[1]) /\ pte[e[1]][e[2]] = e[3]
        BY <3>1, Zenon DEF TypeOK, WindowInv
      <4>2. e[1] # s0
        BY <4>1, <1>6, Zenon
      <4>3. pte'[e[1]][e[2]] = e[3]
        BY <4>1, <4>2, <1>x, Zenon
      <4>4. QED
        BY <4>1, <4>3, <1>5, Zenon
    <3>2. CASE \E i \in Index : e = <<s0, i, f[i]>>
      BY <3>2, <1>5, <1>x
    <3>3. QED
      BY <3>0, <3>1, <3>2, <1>c, Zenon
  <2>4. QED
    BY <2>1, <2>2, <2>3, Zenon DEF WindowInv
<1>10. QED
  BY <1>3, <1>4, <1>8, <1>9, Zenon

\* A step of `t' that leaves the memory alone and keeps what `t' has.
LEMMA KeepsAll ==
    ASSUME IInv, NEW t \in Thread, NEW to,
           to \in {"object", "stack_free", "slot_free", "pid_free"},
           pc' = [pc EXCEPT ![t] = to],
           UNCHANGED <<pidmap, kstack_slotmap, free, others, l2_kstack, pte, tlb, unwound, table, pid,
                       slot, waiter>>,
           HasPid(t)' <=> HasPid(t), HasSlot(t)' <=> HasSlot(t), HasStack(t)' <=> HasStack(t)
    PROVE  IInv'
<1> USE DEF IInv
<1>1. PidsOwned' /\ SlotsOwned'
  BY SameOwners, Zenon
<1>2. TypeOK' /\ PagesInv'
  BY DEF TypeOK, PagesInv
<1>3. \A u \in Thread : HasStack(u)' <=> HasStack(u)
  BY Zenon DEF TypeOK, HasStack
<1>4. WindowInv'
  BY <1>3, Zenon DEF WindowInv, LeftByUnwind, Stacked
<1>5. QED
  BY <1>1, <1>2, <1>4, Zenon

\* kstack_alloc() fails before it has taken anything.
LEMMA NoTableStep ==
    ASSUME IInv, NEW t \in Thread, KstackNoTable(t) PROVE IInv'
<1>1. /\ pc[t] = "stack" /\ pc' = [pc EXCEPT ![t] = "slot_free"]
      /\ UNCHANGED <<pidmap, kstack_slotmap, free, others, l2_kstack, pte, tlb, unwound, table, pid,
                     slot, waiter>>
  BY Zenon DEF KstackNoTable, Go, memory, locals
<1>2. (HasPid(t)' <=> HasPid(t)) /\ (HasSlot(t)' <=> HasSlot(t)) /\ (HasStack(t)' <=> HasStack(t))
  BY <1>1, Zenon DEF IInv, TypeOK, HasPid, HasSlot, HasStack
<1>3. QED
  BY <1>1, <1>2, KeepsAll, Zenon

\* kmem_cache_alloc() fails, or the rest of fork(): all is still owned.
LEMMA ObjectFailsStep ==
    ASSUME IInv, NEW t \in Thread, ObjectFails(t) PROVE IInv'
<1>1. /\ pc[t] = "object" /\ pc' = [pc EXCEPT ![t] = "stack_free"]
      /\ UNCHANGED <<pidmap, kstack_slotmap, free, others, l2_kstack, pte, tlb, unwound, table, pid,
                     slot, waiter>>
  BY DEF ObjectFails, Go, memory, locals
<1>2. (HasPid(t)' <=> HasPid(t)) /\ (HasSlot(t)' <=> HasSlot(t)) /\ (HasStack(t)' <=> HasStack(t))
  BY <1>1, Zenon DEF IInv, TypeOK, HasPid, HasSlot, HasStack
<1>3. QED
  BY <1>1, <1>2, KeepsAll, Zenon

\* kstack_alloc() fails half way: of the pages the L3 table alone has moved, and what is
\* left of the others in the TLBs is below the top page.
LEMMA UnwindStep ==
    ASSUME IInv, NEW t \in Thread, KstackUnwind(t) PROVE IInv'
<1> USE Constants DEF IInv
<1> DEFINE r0 == Span(slot[t])
<1>0. PICK l3 \in Page, upto \in 0..KSTACK_PAGES - 1 : \E f \in [1..upto -> free \ {l3}] :
        /\ Walk(slot[t], l3)
        /\ l2_kstack' = [l2_kstack EXCEPT ![r0] = l3]
        /\ free' = free \ {l3}
        /\ tlb' = tlb \cup Cached(slot[t], f, upto)
        /\ unwound' = unwound \cup {slot[t]}
        /\ Go(t, "stack", "slot_free")
        /\ UNCHANGED <<pidmap, kstack_slotmap, others, pte, table, locals, waiter>>
  BY Zenon DEF KstackUnwind
<1>1. PICK f \in [1..upto -> free \ {l3}] :
        /\ Walk(slot[t], l3)
        /\ l2_kstack' = [l2_kstack EXCEPT ![r0] = l3]
        /\ free' = free \ {l3}
        /\ tlb' = tlb \cup Cached(slot[t], f, upto)
        /\ unwound' = unwound \cup {slot[t]}
        /\ Go(t, "stack", "slot_free")
        /\ UNCHANGED <<pidmap, kstack_slotmap, others, pte, table, locals, waiter>>
  BY <1>0, Zenon
<1>c. tlb' = tlb \cup {<<slot[t], i, f[i]>> : i \in 1..upto}
  BY <1>1, Zenon DEF Cached
<1>u. /\ 1..upto \subseteq Index /\ KSTACK_PAGES \notin 1..upto
      /\ \A i \in 1..upto : f[i] \in Page
  <2>1. 1..upto \subseteq Index /\ KSTACK_PAGES \notin 1..upto
    BY ProcAllocConstants DEF Index
  <2>2. \A i \in 1..upto : f[i] \in Page
    BY Zenon DEF TypeOK
  <2>3. QED
    BY <2>1, <2>2, Zenon
<1>s. r0 \in Spans
  BY Zenon DEF TypeOK
<1>w. \/ l2_kstack[r0] # NULL /\ l3 = l2_kstack[r0]
      \/ l2_kstack[r0] = NULL /\ l3 \in free
  BY <1>1, Zenon DEF Walk
<1>g. /\ UNCHANGED <<pidmap, kstack_slotmap, others, pte, table, pid, slot, waiter>>
      /\ unwound' = unwound \cup {slot[t]}
      /\ pc[t] = "stack" /\ pc' = [pc EXCEPT ![t] = "slot_free"]
      /\ l2_kstack' = [l2_kstack EXCEPT ![r0] = l3] /\ free' = free \ {l3}
  BY <1>1, Zenon DEF Go, locals
<1> HIDE DEF r0
<1>l. /\ l2_kstack'[r0] = l3
      /\ \A r \in Spans : r # r0 => l2_kstack'[r] = l2_kstack[r]
      /\ \A r \in Spans : l2_kstack[r] \in Page \cup {NULL}
  BY <1>s, <1>g, Zenon DEF TypeOK, Spans
<1>h. /\ HasPid(t) /\ HasPid(t)' /\ HasSlot(t) /\ HasSlot(t)'
      /\ \A u \in Thread : HasStack(u)' <=> HasStack(u)
  BY <1>g, Zenon DEF TypeOK, HasPid, HasSlot, HasStack
<1>3. TypeOK'
  <2>1. tlb' \subseteq Slot \X Index \X Page
    BY <1>c, <1>u DEF TypeOK
  <2>2. unwound' \subseteq Slot
    BY <1>g, Zenon DEF TypeOK
  <2>3. QED
    BY <1>g, <2>1, <2>2, Zenon DEF TypeOK
<1>4. PidsOwned' /\ SlotsOwned'
  BY <1>g, <1>h, SameOwners, Zenon
<1>5. PagesInv'
  <2>0. /\ \A r \in Spans : l2_kstack[r] # l3 \/ r = r0
        /\ \A s \in Slot, i \in Index : pte[s][i] # l3
        /\ l3 \notin others
    BY <1>w, <1>s DEF PagesInv
  <2>1. ASSUME NEW g \in Page
        PROVE  \/ g \in free' \/ g \in others'
               \/ \E r \in Spans : l2_kstack'[r] = g
               \/ \E s \in Slot, i \in Index : pte'[s][i] = g
    <3>1. CASE g \in free
      BY <3>1, <1>g, <1>l, <1>s, Zenon
    <3>2. CASE g \in others \/ \E s \in Slot, i \in Index : pte[s][i] = g
      BY <3>2, <1>g, Zenon
    <3>3. CASE \E r \in Spans : l2_kstack[r] = g
      <4>1. PICK r \in Spans : l2_kstack[r] = g
        BY <3>3, Zenon
      <4>2. l2_kstack'[r] = g
        BY <4>1, <1>l, <1>w, Zenon
      <4>3. QED
        BY <4>2, Zenon
    <3>4. QED
      BY <3>1, <3>2, <3>3, Zenon DEF PagesInv
  <2>2. /\ \A g \in free' : g \notin others'
        /\ \A s \in Slot, i \in Index : pte'[s][i] \notin free' /\ pte'[s][i] \notin others'
    BY <1>g, Zenon DEF PagesInv
  <2>3. \A r \in Spans : l2_kstack'[r] \notin free' /\ l2_kstack'[r] \notin others'
    BY <1>g, <1>l, <2>0 DEF PagesInv
  <2>4. \A r \in Spans, s \in Slot, i \in Index :
            l2_kstack'[r] = pte'[s][i] => l2_kstack'[r] = NULL
    BY <1>g, <1>l, <2>0 DEF PagesInv
  <2>5. \A s, r \in Spans : l2_kstack'[s] = l2_kstack'[r] /\ l2_kstack'[s] # NULL => s = r
    BY <1>l, <2>0 DEF PagesInv
  <2>6. \A s, r \in Slot, i, j \in Index :
            pte'[s][i] = pte'[r][j] /\ pte'[s][i] # NULL => s = r /\ i = j
    BY <1>g DEF PagesInv
  <2>7. QED
    BY <2>1, <2>2, <2>3, <2>4, <2>5, <2>6, Zenon DEF PagesInv
<1>6. WindowInv'
  <2>1. \A s : Stacked(s)' <=> Stacked(s)
    BY <1>g, <1>h, Zenon DEF Stacked
  <2>2. ASSUME NEW e \in tlb'
        PROVE  LeftByUnwind(e)' \/ (Stacked(e[1])' /\ pte'[e[1]][e[2]] = e[3])
    <3>1. CASE e \in tlb
      <4>1. LeftByUnwind(e) => LeftByUnwind(e)'
        BY <1>g, Zenon DEF LeftByUnwind
      <4>2. QED
        BY <3>1, <4>1, <2>1, <1>g, Zenon DEF WindowInv
    <3>2. CASE \E i \in 1..upto : e = <<slot[t], i, f[i]>>
      <4>1. e[1] = slot[t] /\ e[2] \in 1..upto
        BY <3>2
      <4>2. QED
        BY <4>1, <1>g, <1>u, Zenon DEF LeftByUnwind
    <3>3. QED
      BY <3>1, <3>2, <1>c, Zenon
  <2>3. QED
    BY <2>1, <2>2, <1>g, Zenon DEF WindowInv
<1>7. QED
  BY <1>3, <1>4, <1>5, <1>6, Zenon

\* proc_activate(): what the thread had becomes the new process's.
LEMMA ActivateStep ==
    ASSUME IInv, NEW t \in Thread, proc_activate(t) PROVE IInv'
<1> USE Constants DEF IInv
<1> DEFINE np0 == <<pid[t], slot[t]>>
<1>g. /\ UNCHANGED <<pidmap, kstack_slotmap, free, others, l2_kstack, pte, tlb, unwound, waiter>>
      /\ pc[t] = "object" /\ pc' = [pc EXCEPT ![t] = "idle"]
      /\ pid' = [pid EXCEPT ![t] = 0] /\ slot' = [slot EXCEPT ![t] = 0]
      /\ table' = table \cup {np0}
  BY Zenon DEF proc_activate, Return, Go, memory
<1>n. np0[1] = pid[t] /\ np0[2] = slot[t] /\ np0 \in Pid \X Slot
  BY Zenon DEF TypeOK
<1> HIDE DEF np0
<1>h. /\ HasPid(t) /\ HasSlot(t) /\ HasStack(t)
      /\ ~(HasPid(t)') /\ ~(HasSlot(t)') /\ ~(HasStack(t)')
      /\ \A u \in Thread : u # t => /\ HasPid(u)' <=> HasPid(u)
                                    /\ HasSlot(u)' <=> HasSlot(u)
                                    /\ HasStack(u)' <=> HasStack(u)
                                    /\ pid'[u] = pid[u] /\ slot'[u] = slot[u]
  BY <1>g, Zenon DEF TypeOK, HasPid, HasSlot, HasStack
<1>1. TypeOK'
  BY <1>g, <1>n, Zenon DEF TypeOK
<1>2. PidsOwned'
  <2>1. \A x \in Pid : x # 0 =>
          (x \in pidmap' <=> \/ \E np \in table' : np[1] = x
                             \/ \E u \in Thread : HasPid(u)' /\ pid'[u] = x)
    BY <1>g, <1>n, <1>h DEF PidsOwned
  <2>2. \A np \in table' : np[1] # 0
    BY <1>g, <1>n, <1>h DEF PidsOwned
  <2>3. \A u \in Thread : HasPid(u)' => pid'[u] # 0
    BY <1>h, Zenon DEF PidsOwned
  <2>4. \A np, nq \in table' : np[1] = nq[1] => np = nq
    BY <1>g, <1>n, <1>h DEF PidsOwned
  <2>5. \A u, v \in Thread : HasPid(u)' /\ HasPid(v)' /\ pid'[u] = pid'[v] => u = v
    BY <1>h DEF PidsOwned
  <2>6. \A u \in Thread, np \in table' : HasPid(u)' => pid'[u] # np[1]
    BY <1>g, <1>n, <1>h DEF PidsOwned
  <2>7. QED
    BY <2>1, <2>2, <2>3, <2>4, <2>5, <2>6, Zenon DEF PidsOwned
<1>3. SlotsOwned'
  <2>1. \A x \in Slot :
          x \in kstack_slotmap' <=> \/ \E np \in table' : np[2] = x
                                    \/ \E u \in Thread : HasSlot(u)' /\ slot'[u] = x
    BY <1>g, <1>n, <1>h DEF SlotsOwned
  <2>2. \A np, nq \in table' : np[2] = nq[2] => np = nq
    BY <1>g, <1>n, <1>h DEF SlotsOwned
  <2>3. \A u, v \in Thread : HasSlot(u)' /\ HasSlot(v)' /\ slot'[u] = slot'[v] => u = v
    BY <1>h DEF SlotsOwned
  <2>4. \A u \in Thread, np \in table' : HasSlot(u)' => slot'[u] # np[2]
    BY <1>g, <1>n, <1>h DEF SlotsOwned
  <2>5. QED
    BY <2>1, <2>2, <2>3, <2>4, Zenon DEF SlotsOwned
<1>4. PagesInv'
  BY <1>g DEF PagesInv
<1>5. \A s : Stacked(s)' <=> Stacked(s)
  BY <1>g, <1>n, <1>h, Zenon DEF Stacked
<1>6. WindowInv'
  BY <1>g, <1>5, Zenon DEF WindowInv, LeftByUnwind
<1>7. QED
  BY <1>1, <1>2, <1>3, <1>4, <1>6, Zenon

----------------------------------------------------------------------------
(* wait(), freeproc() and the error paths.                                 *)

\* wait(): what the zombie had becomes the waiter's.
LEMMA UnlinkStep ==
    ASSUME IInv, NEW t \in Thread, Unlink(t) PROVE IInv'
<1> USE Constants DEF IInv
<1>1. PICK np0 \in table : /\ table' = table \ {np0}
                           /\ pid' = [pid EXCEPT ![t] = np0[1]]
                           /\ slot' = [slot EXCEPT ![t] = np0[2]]
  BY Zenon DEF Unlink
<1>g. /\ UNCHANGED <<pidmap, kstack_slotmap, free, others, l2_kstack, pte, tlb, unwound>>
      /\ pc[t] = "idle" /\ pc' = [pc EXCEPT ![t] = "stack_free"] /\ waiter' = {t}
  BY Zenon DEF Unlink, Go, memory
<1>n. np0[1] \in Pid /\ np0[2] \in Slot
  BY Zenon DEF TypeOK
<1>h. /\ ~HasPid(t) /\ ~HasSlot(t) /\ ~HasStack(t)
      /\ HasPid(t)' /\ HasSlot(t)' /\ HasStack(t)' /\ pid'[t] = np0[1] /\ slot'[t] = np0[2]
      /\ \A u \in Thread : u # t => /\ HasPid(u)' <=> HasPid(u)
                                    /\ HasSlot(u)' <=> HasSlot(u)
                                    /\ HasStack(u)' <=> HasStack(u)
                                    /\ pid'[u] = pid[u] /\ slot'[u] = slot[u]
  BY <1>1, <1>g, Zenon DEF TypeOK, HasPid, HasSlot, HasStack
<1>2. TypeOK'
  BY <1>1, <1>g, <1>n, Zenon DEF TypeOK
<1>3. PidsOwned'
  <2>1. \A x \in Pid : x # 0 =>
          (x \in pidmap' <=> \/ \E np \in table' : np[1] = x
                             \/ \E u \in Thread : HasPid(u)' /\ pid'[u] = x)
    BY <1>1, <1>g, <1>h DEF PidsOwned
  <2>2. \A np \in table' : np[1] # 0
    BY <1>1, Zenon DEF PidsOwned
  <2>3. \A u \in Thread : HasPid(u)' => pid'[u] # 0
    BY <1>h DEF PidsOwned
  <2>4. \A np, nq \in table' : np[1] = nq[1] => np = nq
    BY <1>1, Zenon DEF PidsOwned
  <2>5. \A u, v \in Thread : HasPid(u)' /\ HasPid(v)' /\ pid'[u] = pid'[v] => u = v
    BY <1>h DEF PidsOwned
  <2>6. \A u \in Thread, np \in table' : HasPid(u)' => pid'[u] # np[1]
    BY <1>1, <1>h DEF PidsOwned
  <2>7. QED
    BY <2>1, <2>2, <2>3, <2>4, <2>5, <2>6, Zenon DEF PidsOwned
<1>4. SlotsOwned'
  <2>1. \A x \in Slot :
          x \in kstack_slotmap' <=> \/ \E np \in table' : np[2] = x
                                    \/ \E u \in Thread : HasSlot(u)' /\ slot'[u] = x
    BY <1>1, <1>g, <1>h DEF SlotsOwned
  <2>2. \A np, nq \in table' : np[2] = nq[2] => np = nq
    BY <1>1, Zenon DEF SlotsOwned
  <2>3. \A u, v \in Thread : HasSlot(u)' /\ HasSlot(v)' /\ slot'[u] = slot'[v] => u = v
    BY <1>h DEF SlotsOwned
  <2>4. \A u \in Thread, np \in table' : HasSlot(u)' => slot'[u] # np[2]
    BY <1>1, <1>h DEF SlotsOwned
  <2>5. QED
    BY <2>1, <2>2, <2>3, <2>4, Zenon DEF SlotsOwned
<1>5. PagesInv'
  BY <1>g DEF PagesInv
<1>6. \A s : Stacked(s)' <=> Stacked(s)
  BY <1>1, <1>h, Zenon DEF Stacked
<1>7. WindowInv'
  BY <1>g, <1>6, Zenon DEF WindowInv, LeftByUnwind
<1>8. QED
  BY <1>2, <1>3, <1>4, <1>5, <1>7, Zenon

\* kstack_free(): the pages are free again and nothing of the slot stays cached.
LEMMA KstackFreeStep ==
    ASSUME IInv, NEW t \in Thread, kstack_free(t) PROVE IInv'
<1> USE Constants DEF IInv
<1> DEFINE s0 == slot[t]
<1>s. s0 \in Slot
  BY Zenon DEF TypeOK
<1>g. /\ UNCHANGED <<pidmap, kstack_slotmap, others, l2_kstack, table, pid, slot, waiter>>
      /\ pc[t] = "stack_free" /\ pc' = [pc EXCEPT ![t] = "slot_free"]
      /\ free' = free \cup {pte[s0][i] : i \in Index}
      /\ pte' = [pte EXCEPT ![s0] = Unmapped]
      /\ tlb' = {e \in tlb : e[1] # s0} /\ unwound' = unwound \ {s0}
  BY Zenon DEF kstack_free, Go, locals
<1>h. /\ HasPid(t) /\ HasPid(t)' /\ HasSlot(t) /\ HasSlot(t)' /\ HasStack(t) /\ ~(HasStack(t)')
      /\ \A u \in Thread : u # t => (HasStack(u)' <=> HasStack(u))
      /\ \A u \in Thread : HasStack(u) => HasSlot(u)
  BY <1>g, Zenon DEF TypeOK, HasPid, HasSlot, HasStack
<1>1. Stacked(s0)
  BY <1>h, Zenon DEF Stacked
<1>2. \A s : Stacked(s)' <=> Stacked(s) /\ s # s0
  BY <1>g, <1>h DEF Stacked, SlotsOwned
<1> HIDE DEF s0
<1>x. /\ \A i \in Index : pte'[s0][i] = NULL /\ pte[s0][i] \in Page
      /\ \A s \in Slot : s # s0 => \A i \in Index : pte'[s][i] = pte[s][i]
  BY <1>s, <1>g, <1>1 DEF TypeOK, WindowInv
<1>e. \A g : g \in free' <=> g \in free \/ \E i \in Index : pte[s0][i] = g
  BY <1>g, Zenon
<1>3. TypeOK'
  <2>1. free' \subseteq Page
    BY <1>e, <1>x, Zenon DEF TypeOK
  <2>2. pte' \in [Slot -> [Index -> Page \cup {NULL}]]
    BY <1>g, Zenon DEF TypeOK
  <2>3. tlb' \subseteq Slot \X Index \X Page
    BY <1>g, Zenon DEF TypeOK
  <2>4. QED
    BY <1>g, <2>1, <2>2, <2>3, Zenon DEF TypeOK
<1>4. PidsOwned' /\ SlotsOwned'
  BY <1>g, <1>h, SameOwners, Zenon
<1>5. PagesInv'
  <2>0. /\ \A r \in Spans, s \in Slot, i \in Index :
                l2_kstack[r] = pte[s][i] => l2_kstack[r] = NULL
        /\ \A s, r \in Slot, i, j \in Index :
                pte[s][i] = pte[r][j] /\ pte[s][i] # NULL => s = r /\ i = j
    BY Zenon DEF PagesInv
  <2>1. ASSUME NEW g \in Page
        PROVE  \/ g \in free' \/ g \in others'
               \/ \E r \in Spans : l2_kstack'[r] = g
               \/ \E s \in Slot, i \in Index : pte'[s][i] = g
    <3>1. CASE g \in free \/ g \in others \/ \E r \in Spans : l2_kstack[r] = g
      BY <3>1, <1>e, <1>g, Zenon
    <3>2. CASE \E s \in Slot, i \in Index : pte[s][i] = g
      <4>1. PICK s \in Slot, i \in Index : pte[s][i] = g
        BY <3>2, Zenon
      <4>2. CASE s = s0
        BY <4>1, <4>2, <1>e, Zenon
      <4>3. CASE s # s0
        BY <4>1, <4>3, <1>x, Zenon
      <4>4. QED
        BY <4>2, <4>3, Zenon
    <3>3. QED
      BY <3>1, <3>2, Zenon DEF PagesInv
  <2>2. \A g \in free' : g \notin others'
    <3> SUFFICES ASSUME NEW g \in free' PROVE g \notin others
      BY <1>g, Zenon
    <3>1. g \in free \/ \E i \in Index : pte[s0][i] = g
      BY <1>e, Zenon
    <3>2. QED
      BY <3>1, <1>s, Zenon DEF PagesInv
  <2>3. ASSUME NEW r \in Spans
        PROVE  l2_kstack'[r] \notin free' /\ l2_kstack'[r] \notin others'
    <3>1. l2_kstack[r] \notin free /\ l2_kstack[r] \notin others
      BY Zenon DEF PagesInv
    <3>2. ASSUME NEW i \in Index, pte[s0][i] = l2_kstack[r] PROVE FALSE
      <4>1. l2_kstack[r] = NULL
        BY <3>2, <1>s, <2>0
      <4>2. pte[s0][i] \in Page
        BY <1>x, Zenon
      <4>3. QED
        BY <3>2, <4>1, <4>2, Zenon
    <3>3. QED
      BY <3>1, <3>2, <1>e, <1>g, Zenon
  <2>4. ASSUME NEW s \in Slot, NEW i \in Index
        PROVE  pte'[s][i] \notin free' /\ pte'[s][i] \notin others'
    <3>1. free \subseteq Page /\ others \subseteq Page
      BY Zenon DEF TypeOK
    <3>2. CASE s = s0
      BY <3>1, <3>2, <1>e, <1>g, <1>x
    <3>3. CASE s # s0
      <4>1. pte'[s][i] = pte[s][i] /\ pte[s][i] \notin free /\ pte[s][i] \notin others
        BY <3>3, <1>x, Zenon DEF PagesInv
      <4>2. \A j \in Index : pte[s0][j] # pte[s][i]
        <5> SUFFICES ASSUME NEW j \in Index, pte[s0][j] = pte[s][i] PROVE FALSE
          BY Zenon
        <5>1. pte[s0][j] # NULL
          BY <1>x, Zenon
        <5>2. s0 = s
          BY <5>1, <1>s, <2>0
        <5>3. QED
          BY <5>2, <3>3, Zenon
      <4>3. QED
        BY <4>1, <4>2, <1>e, <1>g
    <3>4. QED
      BY <3>2, <3>3, Zenon
  <2>5. \A r \in Spans, s \in Slot, i \in Index :
            l2_kstack'[r] = pte'[s][i] => l2_kstack'[r] = NULL
    BY <1>g, <1>x DEF PagesInv
  <2>6. \A s, r \in Spans : l2_kstack'[s] = l2_kstack'[r] /\ l2_kstack'[s] # NULL => s = r
    BY <1>g, Zenon DEF PagesInv
  <2>7. \A s, r \in Slot, i, j \in Index :
            pte'[s][i] = pte'[r][j] /\ pte'[s][i] # NULL => s = r /\ i = j
    <3> TAKE s, r \in Slot, i, j \in Index
    <3> HAVE pte'[s][i] = pte'[r][j] /\ pte'[s][i] # NULL
    <3>1. s # s0 /\ r # s0
      BY <1>x, Zenon
    <3>2. QED
      BY <3>1, <1>x DEF PagesInv
  <2>8. QED
    BY <2>1, <2>2, <2>3, <2>4, <2>5, <2>6, <2>7, Zenon DEF PagesInv
<1>6. WindowInv'
  <2>1. \A s \in Slot : Stacked(s)' => \A i \in Index : pte'[s][i] # NULL
    BY <1>2, <1>x DEF WindowInv
  <2>2. \A s \in Slot : ~(Stacked(s)') => \A i \in Index : pte'[s][i] = NULL
    BY <1>2, <1>x DEF WindowInv
  <2>3. ASSUME NEW e \in tlb'
        PROVE  LeftByUnwind(e)' \/ (Stacked(e[1])' /\ pte'[e[1]][e[2]] = e[3])
    <3>1. e \in tlb /\ e[1] # s0 /\ e[1] \in Slot /\ e[2] \in Index
      BY <1>g, Zenon DEF TypeOK
    <3>2. LeftByUnwind(e)' <=> LeftByUnwind(e)
      BY <3>1, <1>g, Zenon DEF LeftByUnwind
    <3>3. LeftByUnwind(e) \/ (Stacked(e[1]) /\ pte[e[1]][e[2]] = e[3])
      BY <3>1, Zenon DEF WindowInv
    <3>4. QED
      BY <3>1, <3>2, <3>3, <1>2, <1>x, Zenon
  <2>4. QED
    BY <2>1, <2>2, <2>3, Zenon DEF WindowInv
<1>7. QED
  BY <1>3, <1>4, <1>5, <1>6, Zenon

\* kstack_slot_free(): the slot has no owner any more.
LEMMA SlotFreeStep ==
    ASSUME IInv, NEW t \in Thread, kstack_slot_free(t) PROVE IInv'
<1> USE Constants DEF IInv
<1>g. /\ UNCHANGED <<pidmap, free, others, l2_kstack, pte, tlb, unwound, table, pid, slot, waiter>>
      /\ pc[t] = "slot_free" /\ pc' = [pc EXCEPT ![t] = "pid_free"]
      /\ kstack_slotmap' = kstack_slotmap \ {slot[t]}
  BY Zenon DEF kstack_slot_free, Go, memory, locals
<1>h. /\ HasSlot(t) /\ ~(HasSlot(t)')
      /\ \A u \in Thread : u # t => (HasSlot(u)' <=> HasSlot(u))
      /\ \A u \in Thread : (HasPid(u)' <=> HasPid(u)) /\ (HasStack(u)' <=> HasStack(u))
  BY <1>g, Zenon DEF TypeOK, HasPid, HasSlot, HasStack
<1>1. TypeOK' /\ PagesInv'
  BY <1>g DEF TypeOK, PagesInv
<1>2. PidsOwned'
  BY <1>g, <1>h, Zenon DEF PidsOwned
<1>3. SlotsOwned'
  BY <1>g, <1>h DEF SlotsOwned
<1>4. WindowInv'
  BY <1>g, <1>h DEF WindowInv, LeftByUnwind, Stacked
<1>5. QED
  BY <1>1, <1>2, <1>3, <1>4, Zenon

\* pid_free(): the pid has no owner any more, and it is not 0.
LEMMA PidFreeStep ==
    ASSUME IInv, NEW t \in Thread, pid_free(t) PROVE IInv'
<1> USE Constants DEF IInv
<1>g. /\ UNCHANGED <<kstack_slotmap, free, others, l2_kstack, pte, tlb, unwound, table>>
      /\ pc[t] = "pid_free" /\ pc' = [pc EXCEPT ![t] = "idle"]
      /\ pid' = [pid EXCEPT ![t] = 0] /\ slot' = [slot EXCEPT ![t] = 0]
      /\ pidmap' = pidmap \ {pid[t]} /\ waiter' = waiter \ {t}
  BY Zenon DEF pid_free, Return, Go, memory
<1>h. /\ HasPid(t) /\ ~(HasPid(t)') /\ ~HasSlot(t) /\ ~(HasSlot(t)')
      /\ ~HasStack(t) /\ ~(HasStack(t)')
      /\ \A u \in Thread : u # t => /\ HasPid(u)' <=> HasPid(u)
                                    /\ HasSlot(u)' <=> HasSlot(u)
                                    /\ HasStack(u)' <=> HasStack(u)
                                    /\ pid'[u] = pid[u] /\ slot'[u] = slot[u]
  BY <1>g, Zenon DEF TypeOK, HasPid, HasSlot, HasStack
<1>0. pid[t] # 0
  BY <1>h, Zenon DEF PidsOwned
<1>1. TypeOK' /\ PagesInv'
  BY <1>g, <1>0 DEF TypeOK, PagesInv
<1>2. PidsOwned'
  BY <1>g, <1>h, <1>0 DEF PidsOwned
<1>3. SlotsOwned'
  BY <1>g, <1>h DEF SlotsOwned
<1>4. \A s : Stacked(s)' <=> Stacked(s)
  BY <1>g, <1>h, Zenon DEF Stacked
<1>5. WindowInv'
  BY <1>g, <1>4, Zenon DEF WindowInv, LeftByUnwind
<1>6. QED
  BY <1>1, <1>2, <1>3, <1>5, Zenon

\* The rest of the kernel moves pages between the free list and itself.
LEMMA OthersStep == ASSUME IInv, OthersTake \/ OthersGive PROVE IInv'
<1> USE Constants DEF IInv
<1>g. UNCHANGED <<pidmap, kstack_slotmap, l2_kstack, pte, tlb, unwound, table, pc, pid, slot,
                waiter>>
  BY Zenon DEF OthersTake, OthersGive, locals
<1>1. \/ \E pg \in free : free' = free \ {pg} /\ others' = others \cup {pg}
      \/ \E pg \in others : free' = free \cup {pg} /\ others' = others \ {pg}
  BY Zenon DEF OthersTake, OthersGive
<1>2. TypeOK'
  BY <1>1, <1>g, Zenon DEF TypeOK
<1>3. PidsOwned' /\ SlotsOwned'
  BY <1>g DEF PidsOwned, SlotsOwned, HasPid, HasSlot
<1>4. PagesInv'
  <2>1. \A g : g \in free' \/ g \in others' <=> g \in free \/ g \in others
    BY <1>1
  <2>2. \A g \in free' : g \notin others'
    BY <1>1, Zenon DEF PagesInv
  <2>3. QED
    BY <1>g, <2>1, <2>2 DEF PagesInv
<1>5. WindowInv'
  BY <1>g DEF WindowInv, LeftByUnwind, Stacked, HasStack
<1>6. QED
  BY <1>2, <1>3, <1>4, <1>5, Zenon

----------------------------------------------------------------------------
\* The invariant holds in every reachable state.
THEOREM ProcAllocInvariant == Spec => []IInv
<1>1. IInv /\ [Next]_vars => IInv'
  <2> SUFFICES ASSUME IInv, [Next]_vars PROVE IInv'
    OBVIOUS
  <2>1. CASE UNCHANGED vars
    BY <2>1, Stutter
  <2>2. ASSUME NEW t \in Thread, pid_alloc(t) \/ kstack_slot_alloc(t) PROVE IInv'
    BY <2>2, PidAllocStep, SlotAllocStep
  <2>3. ASSUME NEW t \in Thread, kstack_alloc(t) \/ KstackNoTable(t) \/ KstackUnwind(t) PROVE IInv'
    BY <2>3, KstackAllocStep, NoTableStep, UnwindStep
  <2>4. ASSUME NEW t \in Thread, ObjectFails(t) \/ proc_activate(t) \/ Unlink(t) PROVE IInv'
    BY <2>4, ObjectFailsStep, ActivateStep, UnlinkStep
  <2>5. ASSUME NEW t \in Thread, kstack_free(t) \/ kstack_slot_free(t) \/ pid_free(t) PROVE IInv'
    BY <2>5, KstackFreeStep, SlotFreeStep, PidFreeStep
  <2>6. CASE OthersTake \/ OthersGive
    BY <2>6, OthersStep
  <2>7. QED
    BY <2>1, <2>2, <2>3, <2>4, <2>5, <2>6, Zenon DEF Next
<1>2. QED
  BY <1>1, InitIInv, PTL DEF Spec

\* No pid and no slot is lost or given to two owners, however many callers of
\* allocproc(), of its error paths and of freeproc() overlap.
THEOREM PidsAndSlotsOwnedOnce == Spec => []OwnedOnce
<1>1. IInv => OwnedOnce
  BY Zenon DEF IInv, PidsOwned, SlotsOwned, OwnedOnce
<1>2. QED
  BY <1>1, ProcAllocInvariant, PTL

\* No page is lost or used twice by the stack window, whatever the size of the
\* machine and wherever kstack_alloc() runs out of pages.
THEOREM PagesAreConserved == Spec => []PagesConserved
<1>1. IInv => PagesConserved
  <2> SUFFICES ASSUME IInv PROVE PagesConserved
    OBVIOUS
  <2> USE Constants DEF IInv
  <2>0. /\ DOMAIN l2_kstack = Spans /\ free \subseteq Page /\ others \subseteq Page
        /\ \A r \in Spans : l2_kstack[r] \in Page \cup {NULL}
        /\ \A s \in Slot, i \in Index : pte[s][i] \in Page \cup {NULL}
    BY DEF TypeOK, Spans
  <2>t. \A g : g \in TablePages <=> g # NULL /\ \E r \in Spans : l2_kstack[r] = g
    BY <2>0, Zenon DEF TablePages
  <2>s. \A g : g \in StackPages <=> g # NULL /\ \E s \in Slot, i \in Index : pte[s][i] = g
    BY <2>0 DEF StackPages
  <2>1. TablePages \subseteq Page /\ StackPages \subseteq Page
    BY <2>0, <2>t, <2>s
  <2>2. Page = free \cup others \cup TablePages \cup StackPages
    BY <2>0, <2>1, <2>t, <2>s DEF PagesInv
  <2>3. free \cap others = {}
    BY Zenon DEF PagesInv
  <2>4. (free \cup others) \cap (TablePages \cup StackPages) = {}
    BY <2>t, <2>s DEF PagesInv
  <2>5. TablePages \cap StackPages = {}
    BY <2>t, <2>s DEF PagesInv
  <2>6. QED
    BY <2>0, <2>2, <2>3, <2>4, <2>5, Zenon DEF PagesInv, PagesConserved
<1>2. QED
  BY <1>1, ProcAllocInvariant, PTL

\* Every process finds its own pages behind its stack on every CPU, but for what an
\* unwound kstack_alloc() left below the top page: what kstack_free() invalidates
\* suffices for any number of reuses of a slot, and nothing else needs to.
THEOREM StacksStaleOnlyFromUnwind == Spec => []StaleOnlyFromUnwind
<1>1. IInv => StaleOnlyFromUnwind
  <2> SUFFICES ASSUME IInv PROVE StaleOnlyFromUnwind
    OBVIOUS
  <2>1. ASSUME NEW s \in InUse
        PROVE  /\ \A i \in Index : pte[s][i] # NULL
               /\ \A e \in tlb : e[1] = s /\ (s \notin unwound \/ e[2] = KSTACK_PAGES)
                                => pte[s][e[2]] = e[3]
    <3>1. Stacked(s)
      BY DEF Stacked, InUse
    <3>2. s \in Slot
      BY DEF IInv, TypeOK, InUse
    <3>3. QED
      BY <3>1, <3>2, Zenon DEF IInv, WindowInv, LeftByUnwind
  <2>2. QED
    BY <2>1, Zenon DEF StaleOnlyFromUnwind
<1>2. QED
  BY <1>1, ProcAllocInvariant, PTL
=============================================================================

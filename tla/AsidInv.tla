------------------------------- MODULE AsidInv -------------------------------
(***************************************************************************)
(* The inductive invariant of Asid, and that the fast path of              *)
(* asid_switch(), the sweep of a rollover and exec() keep it.              *)
(***************************************************************************)
EXTENDS Asid, TLAPS

Context == Nat \X (0..(NumAsid - 1))
Entry == (0..(NumAsid - 1)) \X (Proc \cup {NULL})

TypeOK ==
    /\ asid_ctx \in [Proc -> Context]
    /\ asid_generation \in Nat \ {0} /\ asid_next \in Nat \ {0}
    /\ asid_bitmap \subseteq 0..(NumAsid - 1) /\ 0 \in asid_bitmap
    /\ tlb_pending \subseteq CPU /\ swept \subseteq CPU
    /\ asid_active \in [CPU -> Context] /\ asid_reserved \in [CPU -> Context]
    /\ asid_lock \in CPU \cup {NULL}
    /\ cur \in [CPU -> Proc \cup {NULL}]
    /\ pc \in [CPU -> Points]
    /\ ctx \in [CPU -> Context \cup {NULL}]
    /\ gen \in [CPU -> Nat \cup {NULL}] /\ old \in [CPU -> Context \cup {NULL}]
    /\ ttbr \in [CPU -> Entry] /\ tlb \in [CPU -> SUBSET Entry]

Running == {"install", "user", "exec"}

\* The lock is held where the code holds it; a process is on one CPU; its context
\* is the one that was read; locals are dropped.
PointInv ==
    /\ \A c \in CPU : pc[c] \in {"slow", "sweep"} <=> asid_lock = c
    /\ \A c \in CPU : pc[c] # "idle" <=> cur[c] \in Proc
    /\ \A c, d \in CPU : cur[c] = cur[d] /\ cur[c] \in Proc => c = d
    /\ \A c \in CPU : pc[c] \in {"switch", "install"} => ctx[c] = asid_ctx[cur[c]]
    /\ \A c \in CPU : pc[c] # "switch" => gen[c] = NULL

\* TTBR0 has the table of the running process under its ASID, and is parked otherwise.
TtbrInv ==
    \A c \in CPU :
        /\ pc[c] \in {"idle", "switch", "slow", "sweep", "install"} => ttbr[c] = Reserved
        /\ pc[c] \in {"user", "exec"} => ttbr[c] = <<Asid(asid_ctx[cur[c]]), cur[c]>>
        /\ pc[c] = "exiting" => ttbr[c][1] # 0 /\ ttbr[c][2] = NULL
        /\ pc[c] \in {"user", "exec", "exiting"} => ttbr[c] \in tlb[c]

\* A context has a number of the pool and a generation not after the current one, or
\* is NoCtx.
WellFormed(x) ==
    \/ x = NoCtx
    \/ Asid(x) # 0 /\ Generation(x) # 0 /\ Generation(x) <= asid_generation

\* Active slots are of the current generation, and owe no flush.  What a CPU read at
\* the head of asid_switch() is of this generation while its slot is not drained.
GenInv ==
    /\ \A p \in Proc : WellFormed(asid_ctx[p])
    /\ \A c \in CPU :
        /\ WellFormed(asid_active[c]) /\ WellFormed(asid_reserved[c])
        /\ asid_active[c] # NoCtx =>
            /\ Generation(asid_active[c]) = asid_generation
            /\ c \notin tlb_pending
            /\ pc[c] = "switch" => gen[c] \in {NULL, asid_generation}

\* A CPU runs under the context in its active slot, or in its reserved slot once a
\* rollover has drained that; of the current generation if it owes no flush.
RunInv ==
    \A c \in CPU : pc[c] \in Running =>
        /\ asid_ctx[cur[c]] # NoCtx
        /\ asid_ctx[cur[c]] = (IF asid_active[c] # NoCtx THEN asid_active[c]
                               ELSE asid_reserved[c])
        /\ c \notin tlb_pending => Generation(asid_ctx[cur[c]]) = asid_generation

\* The numbers that have been given out in this generation.
Issued(a) ==
    \/ \E p \in Proc : asid_ctx[p] = <<asid_generation, a>>
    \/ \E c \in CPU : asid_active[c] = <<asid_generation, a>>
    \/ \E c \in CPU \ tlb_pending : \E e \in tlb[c] : e[1] = a

Sweeping == \E c \in CPU : pc[c] = "sweep"

\* Contexts are distinct, reserved slots agree on a number, and a number that is
\* reserved for an older generation has not been given out in this one.  The bitmap
\* has what is reserved and what was given out; during a rollover, what the sweep has
\* carried over so far.
NumberInv ==
    /\ \A p, q \in Proc : asid_ctx[p] = asid_ctx[q] /\ asid_ctx[p] # NoCtx => p = q
    /\ \A c, d \in CPU : Asid(asid_reserved[c]) = Asid(asid_reserved[d]) =>
                            asid_reserved[c] = asid_reserved[d]
    /\ \A d \in CPU : asid_reserved[d] # NoCtx /\ Issued(Asid(asid_reserved[d])) =>
                            Generation(asid_reserved[d]) = asid_generation
    /\ ~Sweeping =>
        /\ \A d \in CPU : Asid(asid_reserved[d]) \in asid_bitmap
        /\ \A p \in Proc : Generation(asid_ctx[p]) = asid_generation =>
                            Asid(asid_ctx[p]) \in asid_bitmap
        /\ \A c \in CPU \ tlb_pending : \A e \in tlb[c] : e[1] \in asid_bitmap
    /\ Sweeping =>
        /\ asid_bitmap = {0} \cup {Asid(asid_reserved[d]) : d \in swept}
        /\ \A d \in swept : asid_active[d] = NoCtx

\* p replaces its table.
InExec(p) == \E c \in CPU : pc[c] = "exec" /\ cur[c] = p

\* A CPU that owes no flush has entries of current contexts only, and of tables that
\* are gone under numbers that nobody has in this generation, but for one that is in
\* exec() and will flush it.
CleanInv ==
    \A c \in CPU \ tlb_pending :
        /\ \A e \in tlb[c] :
            /\ e[1] # 0
            /\ e[2] \in Proc => asid_ctx[e[2]] = <<asid_generation, e[1]>>
            /\ e[2] = NULL => \A p \in Proc :
                                asid_ctx[p] = <<asid_generation, e[1]>> => InExec(p)
        /\ pc[c] = "exiting" =>
            \A p \in Proc : asid_ctx[p] # <<asid_generation, ttbr[c][1]>>

\* What a running process finds under its number is its own, or its replaced table
\* until exec() has flushed.
OwnInv ==
    \A c \in CPU : pc[c] \in Running =>
        \A e \in tlb[c] : e[1] = Asid(asid_ctx[cur[c]]) =>
            e[2] = cur[c] \/ (e[2] = NULL /\ pc[c] = "exec")

\* The inductive invariant.
IInv ==
    TypeOK /\ PointInv /\ TtbrInv /\ GenInv /\ RunInv /\ NumberInv /\ CleanInv /\ OwnInv

-----------------------------------------------------------------------------
\* There are numbers besides the reserved one.
LEMMA Constants ==
    /\ NumAsid \in Nat /\ NumAsid > 1
    /\ NULL \notin Proc /\ NULL \notin CPU /\ NULL \notin Nat
    /\ Reserved \in Entry /\ NoCtx \in Context
  BY AsidAssumption DEF Reserved, NoCtx, Context, Entry

\* Contexts and entries are pairs.
LEMMA Pairs ==
    /\ \A x \in Context : /\ x = <<Generation(x), Asid(x)>>
                          /\ Generation(x) \in Nat /\ Asid(x) \in 0..(NumAsid - 1)
    /\ \A e \in Entry : /\ e = <<e[1], e[2]>>
                        /\ e[1] \in 0..(NumAsid - 1) /\ e[2] \in Proc \cup {NULL}
  BY Constants DEF Context, Entry, Generation, Asid

-----------------------------------------------------------------------------
\* The initial state, asid_init() done, satisfies the invariant.
LEMMA InitIInv == Init => IInv
<1> SUFFICES ASSUME Init PROVE IInv
  OBVIOUS
<1> USE AsidAssumption DEF Init, NoCtx, Reserved, Generation, Asid
<1>0. NumAsid \in Nat /\ NumAsid > 0
  OBVIOUS
<1>1. TypeOK
  BY <1>0 DEF TypeOK, Context, Entry, Points
<1>2. PointInv /\ TtbrInv
  BY Zenon DEF PointInv, TtbrInv
<1>3. GenInv /\ RunInv
  BY Zenon DEF GenInv, WellFormed, RunInv, Running
<1>4. NumberInv
  BY <1>0, Zenon DEF NumberInv, Issued, Sweeping
<1>5. CleanInv /\ OwnInv
  BY Zenon DEF CleanInv, OwnInv, Running
<1>6. QED
  BY <1>1, <1>2, <1>3, <1>4, <1>5, Zenon DEF IInv
-----------------------------------------------------------------------------
\* A process of the current generation that is not in exec() finds only its own
\* entries under its number, on a CPU that owes no flush.
LEMMA CleanIsOwn ==
    ASSUME IInv, NEW c \in CPU \ tlb_pending, NEW p \in Proc,
           asid_ctx[p] # NoCtx, Generation(asid_ctx[p]) = asid_generation, ~InExec(p),
           NEW e \in tlb[c], e[1] = Asid(asid_ctx[p])
    PROVE  e[2] = p
<1>1. e \in Entry /\ asid_ctx[p] = <<asid_generation, e[1]>>
  BY Pairs, Zenon DEF IInv, TypeOK
<1>2. CASE e[2] \in Proc
  <2>1. asid_ctx[e[2]] = asid_ctx[p]
    BY <1>1, <1>2, Zenon DEF IInv, CleanInv
  <2>2. QED
    BY <1>2, <2>1, Zenon DEF IInv, NumberInv
<1>3. CASE e[2] = NULL
  BY <1>1, <1>3, Zenon DEF IInv, CleanInv
<1>4. QED
  BY <1>1, <1>2, <1>3, Pairs, Zenon

\* A context has one owner.
LEMMA OneOwner ==
    ASSUME IInv, NEW p \in Proc, NEW q \in Proc, asid_ctx[p] = asid_ctx[q], asid_ctx[p] # NoCtx
    PROVE  p = q
  BY Zenon DEF IInv, NumberInv

\* What is left of a TLB when the table of p is gone.
LEMMA OutdatedFacts ==
    ASSUME NEW S \in SUBSET Entry, NEW p \in Proc
    PROVE  /\ Outdated(S, p) \in SUBSET Entry
           /\ \A e \in Outdated(S, p) :
                /\ e[2] # p
                /\ \E f \in S : e[1] = f[1] /\ (e[2] = f[2] \/ (e[2] = NULL /\ f[2] = p))
           /\ \A e \in S : <<e[1], IF e[2] = p THEN NULL ELSE e[2]>> \in Outdated(S, p)
<1>1. \A e \in S : <<e[1], IF e[2] = p THEN NULL ELSE e[2]>> \in Entry
  BY Constants, Pairs, Zenon DEF Entry
<1>2. QED
  BY <1>1, Constants, Pairs DEF Outdated

\* A step that leaves the allocator and the TLBs alone, and that no CPU starts to run
\* or stops to sweep or exec() in, keeps what is said of those.
LEMMA Frame ==
    ASSUME IInv,
           UNCHANGED <<asid_ctx, asid_generation, asid_bitmap, tlb_pending, asid_active,
                       asid_reserved, swept, tlb>>,
           \A d \in CPU : pc'[d] \in Running \cup {"exiting", "sweep"} =>
                            pc'[d] = pc[d] /\ cur'[d] = cur[d] /\ ttbr'[d] = ttbr[d],
           \A d \in CPU : pc[d] \in {"exec", "sweep"} => pc'[d] = pc[d] /\ cur'[d] = cur[d]
    PROVE  RunInv' /\ NumberInv' /\ CleanInv' /\ OwnInv'
<1> USE DEF IInv
<1>1. RunInv'
  BY DEF RunInv
<1>2. OwnInv'
  BY DEF OwnInv, Running
<1>3. NumberInv'
  <2>1. Sweeping' <=> Sweeping
    BY Zenon DEF Sweeping
  <2>2. \A a : Issued(a)' <=> Issued(a)
    BY Zenon DEF Issued
  <2>3. QED
    BY <2>1, <2>2 DEF NumberInv
<1>4. CleanInv'
  <2>1. \A p \in Proc : InExec(p) => InExec(p)'
    BY Zenon DEF InExec
  <2>2. QED
    BY <2>1 DEF CleanInv
<1>5. QED
  BY <1>1, <1>2, <1>3, <1>4

\* A step that gives out no number, and only drops TLB entries, keeps NumberInv.
LEMMA NumberFrame ==
    ASSUME IInv,
           UNCHANGED <<asid_ctx, asid_generation, asid_bitmap, tlb_pending, asid_active,
                       asid_reserved, swept>>,
           \A a : Issued(a)' => Issued(a), Sweeping' <=> Sweeping,
           ~Sweeping => (\A b \in CPU \ tlb_pending : \A e \in tlb[b] : e[1] \in asid_bitmap)'
    PROVE  NumberInv'
  BY DEF IInv, NumberInv

-----------------------------------------------------------------------------
\* Dispatch keeps the invariant.
LEMMA DispatchStep ==
    ASSUME IInv, NEW c \in CPU, NEW p \in Proc, Dispatch(c, p)
    PROVE  IInv'
<1> USE Constants DEF IInv, Dispatch, Goto, allocVars, localVars, mmuVars
<1>1. TypeOK'
  BY Zenon DEF TypeOK, Points
<1>2. PointInv'
  BY DEF TypeOK, PointInv
<1>3. TtbrInv'
  BY DEF TypeOK, TtbrInv, PointInv
<1>4. GenInv'
  BY Zenon DEF TypeOK, GenInv, WellFormed, PointInv
<1>5. RunInv' /\ NumberInv' /\ CleanInv' /\ OwnInv'
  <2>1. \A d \in CPU : pc'[d] \in Running \cup {"exiting", "sweep"} =>
                          pc'[d] = pc[d] /\ cur'[d] = cur[d] /\ ttbr'[d] = ttbr[d]
    BY DEF TypeOK, Running
  <2>2. \A d \in CPU : pc[d] \in {"exec", "sweep"} => pc'[d] = pc[d] /\ cur'[d] = cur[d]
    BY DEF TypeOK
  <2>3. QED
    BY <2>1, <2>2, Frame, Zenon
<1>6. QED
  BY <1>1, <1>2, <1>3, <1>4, <1>5, Zenon DEF IInv

\* SwitchBack keeps the invariant.
LEMMA SwitchBackStep ==
    ASSUME IInv, NEW c \in CPU, SwitchBack(c)
    PROVE  IInv'
<1> USE Constants DEF IInv, SwitchBack, Reserved, Goto, allocVars, localVars, mmuVars
<1>1. TypeOK'
  BY Zenon DEF TypeOK, Points
<1>2. PointInv'
  BY DEF TypeOK, PointInv
<1>3. TtbrInv'
  BY DEF TypeOK, TtbrInv, PointInv
<1>4. GenInv'
  BY Zenon DEF TypeOK, GenInv, WellFormed, PointInv
<1>5. RunInv' /\ NumberInv' /\ CleanInv' /\ OwnInv'
  <2>1. \A d \in CPU : pc'[d] \in Running \cup {"exiting", "sweep"} =>
                          pc'[d] = pc[d] /\ cur'[d] = cur[d] /\ ttbr'[d] = ttbr[d]
    BY DEF TypeOK, Running
  <2>2. \A d \in CPU : pc[d] \in {"exec", "sweep"} => pc'[d] = pc[d] /\ cur'[d] = cur[d]
    BY DEF TypeOK
  <2>3. QED
    BY <2>1, <2>2, Frame, Zenon
<1>6. QED
  BY <1>1, <1>2, <1>3, <1>4, <1>5, Zenon DEF IInv

\* ReadGeneration keeps the invariant.
LEMMA ReadGenerationStep ==
    ASSUME IInv, NEW c \in CPU, ReadGeneration(c)
    PROVE  IInv'
<1> USE Constants DEF IInv, ReadGeneration, Goto, allocVars, localVars, mmuVars
<1>1. TypeOK'
  BY Zenon DEF TypeOK, Points
<1>2. PointInv'
  BY DEF TypeOK, PointInv
<1>3. TtbrInv'
  BY Zenon DEF TypeOK, TtbrInv, PointInv
<1>4. GenInv'
  BY DEF TypeOK, GenInv, WellFormed, PointInv
<1>5. RunInv' /\ NumberInv' /\ CleanInv' /\ OwnInv'
  <2>1. \A d \in CPU : pc'[d] \in Running \cup {"exiting", "sweep"} =>
                          pc'[d] = pc[d] /\ cur'[d] = cur[d] /\ ttbr'[d] = ttbr[d]
    BY DEF TypeOK, Running
  <2>2. \A d \in CPU : pc[d] \in {"exec", "sweep"} => pc'[d] = pc[d] /\ cur'[d] = cur[d]
    BY DEF TypeOK
  <2>3. QED
    BY <2>1, <2>2, Frame, Zenon
<1>6. QED
  BY <1>1, <1>2, <1>3, <1>4, <1>5, Zenon DEF IInv

\* ReadActive keeps the invariant.
LEMMA ReadActiveStep ==
    ASSUME IInv, NEW c \in CPU, ReadActive(c)
    PROVE  IInv'
<1> USE Constants DEF IInv, ReadActive, Goto, allocVars, localVars, mmuVars
<1>1. TypeOK'
  BY Zenon DEF TypeOK, Points
<1>2. PointInv'
  BY Zenon DEF TypeOK, PointInv
<1>3. TtbrInv'
  BY Zenon DEF TypeOK, TtbrInv, PointInv
<1>4. GenInv'
  BY Zenon DEF TypeOK, GenInv, WellFormed, PointInv
<1>5. RunInv' /\ NumberInv' /\ CleanInv' /\ OwnInv'
  <2>1. \A d \in CPU : pc'[d] \in Running \cup {"exiting", "sweep"} =>
                          pc'[d] = pc[d] /\ cur'[d] = cur[d] /\ ttbr'[d] = ttbr[d]
    BY DEF TypeOK, Running
  <2>2. \A d \in CPU : pc[d] \in {"exec", "sweep"} => pc'[d] = pc[d] /\ cur'[d] = cur[d]
    BY DEF TypeOK
  <2>3. QED
    BY <2>1, <2>2, Frame, Zenon
<1>6. QED
  BY <1>1, <1>2, <1>3, <1>4, <1>5, Zenon DEF IInv

\* FastPath keeps the invariant.
LEMMA FastPathStep ==
    ASSUME IInv, NEW c \in CPU, FastPath(c)
    PROVE  IInv'
<1> USE Constants DEF IInv, FastPath, HaveRead, MayTakeFastPath, Forget, Goto, localVars, mmuVars
<1>a. /\ cur[c] \in Proc /\ ctx[c] = asid_ctx[cur[c]] /\ ctx[c] \in Context
      /\ asid_active[c] # NoCtx
  BY DEF TypeOK, PointInv
<1>b. Generation(ctx[c]) = asid_generation /\ c \notin tlb_pending
  BY <1>a, Zenon DEF TypeOK, GenInv
<1>c. ctx[c] # NoCtx
  BY <1>b DEF TypeOK, NoCtx, Generation
<1>1. TypeOK'
  BY <1>a, Zenon DEF TypeOK, Points
<1>2. PointInv'
  BY DEF TypeOK, PointInv
<1>3. TtbrInv'
  BY DEF TypeOK, TtbrInv, PointInv
<1>4. GenInv'
  BY <1>a, <1>b DEF TypeOK, GenInv, WellFormed, PointInv
<1>5. RunInv'
  BY <1>a, <1>b, <1>c DEF TypeOK, RunInv, Running, PointInv
<1>6. NumberInv'
  <2>1. \A a : Issued(a)' => Issued(a)
    BY <1>a, Zenon DEF TypeOK, Issued
  <2>2. Sweeping' <=> Sweeping
    BY Zenon DEF TypeOK, Sweeping
  <2>3. QED
    BY <1>a, <2>1, <2>2 DEF TypeOK, NumberInv
<1>7. CleanInv'
  BY DEF TypeOK, CleanInv, InExec
<1>8. OwnInv'
  <2>1. ~InExec(cur[c])
    BY <1>a, Zenon DEF InExec, PointInv
  <2>2. \A e \in tlb[c] : e[1] = Asid(asid_ctx[cur[c]]) => e[2] = cur[c]
    BY <1>a, <1>b, <1>c, <2>1, CleanIsOwn, Zenon
  <2>3. QED
    BY <2>2 DEF TypeOK, OwnInv, Running, PointInv
<1>9. QED
  BY <1>1, <1>2, <1>3, <1>4, <1>5, <1>6, <1>7, <1>8, Zenon DEF IInv

\* SlowPath keeps the invariant.
LEMMA SlowPathStep ==
    ASSUME IInv, NEW c \in CPU, SlowPath(c)
    PROVE  IInv'
<1> USE Constants DEF IInv, SlowPath, HaveRead, Forget, Goto, allocVars, localVars, mmuVars
<1>1. TypeOK'
  BY Zenon DEF TypeOK, Points
<1>2. PointInv'
  BY DEF TypeOK, PointInv
<1>3. TtbrInv'
  BY DEF TypeOK, TtbrInv, PointInv
<1>4. GenInv'
  BY DEF TypeOK, GenInv, WellFormed, PointInv
<1>5. RunInv' /\ NumberInv' /\ CleanInv' /\ OwnInv'
  <2>1. \A d \in CPU : pc'[d] \in Running \cup {"exiting", "sweep"} =>
                          pc'[d] = pc[d] /\ cur'[d] = cur[d] /\ ttbr'[d] = ttbr[d]
    BY DEF TypeOK, Running
  <2>2. \A d \in CPU : pc[d] \in {"exec", "sweep"} => pc'[d] = pc[d] /\ cur'[d] = cur[d]
    BY DEF TypeOK
  <2>3. QED
    BY <2>1, <2>2, Frame, Zenon
<1>6. QED
  BY <1>1, <1>2, <1>3, <1>4, <1>5, Zenon DEF IInv

\* Rollover keeps the invariant.
LEMMA RolloverStep ==
    ASSUME IInv, NEW c \in CPU, Rollover(c)
    PROVE  IInv'
<1> USE Constants DEF IInv, Rollover, NeedsNew, Stale, Goto, allocVars, localVars, mmuVars
<1>1. TypeOK'
  BY Zenon DEF TypeOK, Points
<1>2. PointInv'
  BY DEF TypeOK, PointInv
<1>3. TtbrInv'
  BY DEF TypeOK, TtbrInv, PointInv
<1>4. GenInv'
  BY Zenon DEF TypeOK, GenInv, WellFormed, PointInv
<1>5. RunInv'
  BY DEF TypeOK, RunInv, Running, PointInv
<1>6. NumberInv'
  BY DEF TypeOK, NumberInv, Issued, Sweeping
<1>7. CleanInv'
  BY DEF TypeOK, CleanInv, InExec
<1>8. OwnInv'
  BY DEF TypeOK, OwnInv, Running, PointInv
<1>9. QED
  BY <1>1, <1>2, <1>3, <1>4, <1>5, <1>6, <1>7, <1>8, Zenon DEF IInv

\* Sweep keeps the invariant.
LEMMA SweepStep ==
    ASSUME IInv, NEW c \in CPU, NEW d \in CPU, Sweep(c, d)
    PROVE  IInv'
<1> DEFINE x == IF asid_active[d] = NoCtx THEN asid_reserved[d] ELSE asid_active[d]
<1> USE Constants DEF IInv, Sweep, localVars, mmuVars
<1>a. /\ x \in Context
      /\ asid_active' = [asid_active EXCEPT ![d] = NoCtx]
      /\ asid_reserved' = [asid_reserved EXCEPT ![d] = x]
      /\ asid_bitmap' = asid_bitmap \cup {Asid(x)}
  BY Zenon DEF TypeOK
<1>1. TypeOK'
  BY <1>a, Pairs DEF TypeOK, Points
<1>2. PointInv'
  BY Zenon DEF TypeOK, PointInv
<1>3. TtbrInv'
  BY Zenon DEF TypeOK, TtbrInv, PointInv
<1>4. GenInv'
  BY DEF TypeOK, GenInv, WellFormed, PointInv
<1>5. RunInv'
  BY DEF TypeOK, RunInv, Running, PointInv
<1>6. NumberInv'
  <2>1. \A a : Issued(a)' => Issued(a)
    <3>1. \A a : NoCtx # <<asid_generation, a>>
      BY Zenon DEF TypeOK, NoCtx
    <3>2. \A a, b : b \in CPU /\ asid_active'[b] = <<asid_generation, a>> =>
                        asid_active[b] = <<asid_generation, a>>
      BY <1>a, <3>1, Zenon DEF TypeOK
    <3>3. QED
      BY <3>2, Zenon DEF Issued
  <2>2. Sweeping /\ Sweeping'
    BY Zenon DEF TypeOK, Sweeping
  <2>3. asid_active[d] # NoCtx => x = <<asid_generation, Asid(x)>> /\ Issued(Asid(x))
    BY <1>a, Pairs, Zenon DEF TypeOK, GenInv, Issued
  <2>4. \A b \in CPU : Asid(asid_reserved[b]) = Asid(x) => asid_reserved[b] = x
    <3>1. CASE asid_active[d] = NoCtx
      BY <3>1, Zenon DEF NumberInv
    <3>2. CASE asid_active[d] # NoCtx
      <4>1. Asid(x) # 0
        BY <3>2, Zenon DEF GenInv, WellFormed
      <4>2. ASSUME NEW b \in CPU, Asid(asid_reserved[b]) = Asid(x)
            PROVE  asid_reserved[b] = x
        <5>1. asid_reserved[b] # NoCtx
          BY <4>1, <4>2 DEF NoCtx, Asid
        <5>2. Generation(asid_reserved[b]) = asid_generation
          BY <2>3, <3>2, <4>2, <5>1, Zenon DEF NumberInv
        <5>3. asid_reserved[b] = <<asid_generation, Asid(x)>>
          BY <4>2, <5>2, Pairs, Zenon DEF TypeOK
        <5>4. QED
          BY <2>3, <3>2, <5>3, Zenon
      <4>3. QED
        BY <4>2, Zenon
    <3>3. QED
      BY <3>1, <3>2, Zenon
  <2>5. (\A p, q \in Proc : asid_ctx[p] = asid_ctx[q] /\ asid_ctx[p] # NoCtx => p = q)'
    BY Zenon DEF NumberInv
  <2>6. (\A b, e \in CPU : Asid(asid_reserved[b]) = Asid(asid_reserved[e]) =>
                            asid_reserved[b] = asid_reserved[e])'
    BY <1>a, <2>4 DEF TypeOK, NumberInv
  <2>7. (\A b \in CPU : asid_reserved[b] # NoCtx /\ Issued(Asid(asid_reserved[b])) =>
                            Generation(asid_reserved[b]) = asid_generation)'
    BY <1>a, <2>1, <2>3 DEF TypeOK, NumberInv, Generation
  <2>8. (/\ asid_bitmap = {0} \cup {Asid(asid_reserved[b]) : b \in swept}
         /\ \A b \in swept : asid_active[b] = NoCtx)'
    <3>1. asid_bitmap = {0} \cup {Asid(asid_reserved[b]) : b \in swept}
      BY <2>2, Zenon DEF NumberInv
    <3>2. {Asid(asid_reserved'[b]) : b \in swept'} =
            {Asid(asid_reserved[b]) : b \in swept} \cup {Asid(x)}
      <4>1. swept' = swept \cup {d} /\ d \notin swept /\ asid_reserved'[d] = x
        BY <1>a, Zenon DEF TypeOK
      <4>2. \A b \in swept : asid_reserved'[b] = asid_reserved[b]
        BY <1>a, <4>1, Zenon DEF TypeOK
      <4> HIDE DEF x
      <4>3. QED
        BY <4>1, <4>2, Zenon
    <3>3. QED
      BY <1>a, <2>2, <3>1, <3>2 DEF TypeOK, NumberInv
  <2>9. QED
    BY <2>2, <2>5, <2>6, <2>7, <2>8, Zenon DEF NumberInv
<1>7. CleanInv'
  BY DEF TypeOK, CleanInv, InExec
<1>8. OwnInv'
  BY DEF TypeOK, OwnInv, Running, PointInv
<1>9. QED
  BY <1>1, <1>2, <1>3, <1>4, <1>5, <1>6, <1>7, <1>8, Zenon DEF IInv

\* Install keeps the invariant.
LEMMA InstallStep ==
    ASSUME IInv, NEW c \in CPU, Install(c)
    PROVE  IInv'
<1> DEFINE new == <<Asid(asid_ctx[cur[c]]), cur[c]>>
<1> USE Constants DEF IInv, Install, Goto, allocVars
<1>a. /\ cur[c] \in Proc /\ ctx[c] = asid_ctx[cur[c]] /\ new \in Entry
      /\ tlb' = [tlb EXCEPT ![c] = @ \cup {new}]
      /\ ttbr' = [ttbr EXCEPT ![c] = new]
  <2>1. cur[c] \in Proc /\ ctx[c] = asid_ctx[cur[c]]
    BY Zenon DEF TypeOK, PointInv
  <2>2. Asid(asid_ctx[cur[c]]) \in 0..(NumAsid - 1)
    BY <2>1, Pairs, Zenon DEF TypeOK
  <2>3. QED
    BY <2>1, <2>2, Zenon DEF Entry
<1>b. c \notin tlb_pending =>
        asid_ctx[cur[c]] = <<asid_generation, new[1]>> /\ new[1] # 0
  BY <1>a, Pairs DEF TypeOK, RunInv, Running, GenInv, WellFormed
<1>1. TypeOK'
  <2> HIDE DEF new
  <2>1. tlb' \in [CPU -> SUBSET Entry] /\ ttbr' \in [CPU -> Entry]
    BY <1>a DEF TypeOK
  <2>2. QED
    BY <2>1, Zenon DEF TypeOK, Points
<1>2. PointInv'
  BY DEF TypeOK, PointInv
<1>3. TtbrInv'
  BY DEF TypeOK, TtbrInv, PointInv
<1>4. GenInv'
  BY Zenon DEF TypeOK, GenInv, WellFormed, PointInv
<1>5. RunInv'
  BY DEF TypeOK, RunInv, Running, PointInv
<1>6. NumberInv'
  <2>1. \A a : Issued(a)' => Issued(a)
    <3> HIDE DEF new
    <3>1. \A b \in CPU : \A e \in tlb'[b] : e \in tlb[b] \/ (b = c /\ e = new)
      BY <1>a DEF TypeOK
    <3>2. \A a : Issued(a)' /\ (\E e \in tlb'[c] : c \notin tlb_pending /\ e = new /\ e[1] = a)
                  => Issued(a)
      BY <1>a, <1>b, Zenon DEF Issued
    <3>3. QED
      BY <3>1, <3>2 DEF Issued
  <2>2. Sweeping' <=> Sweeping
    BY Zenon DEF TypeOK, Sweeping
  <2>3. ~Sweeping =>
            (\A b \in CPU \ tlb_pending : \A e \in tlb[b] : e[1] \in asid_bitmap)'
    BY <1>a, <1>b DEF TypeOK, NumberInv, Generation, Asid
  <2>4. QED
    BY <2>1, <2>2, <2>3 DEF TypeOK, NumberInv
<1>7. CleanInv'
  <2>1. \A p \in Proc : InExec(p)' <=> InExec(p)
    BY Zenon DEF TypeOK, InExec
  <2>2. QED
    BY <1>a, <1>b, <2>1 DEF TypeOK, CleanInv
<1>8. OwnInv'
  BY DEF TypeOK, OwnInv, Running, PointInv
<1>9. QED
  BY <1>1, <1>2, <1>3, <1>4, <1>5, <1>6, <1>7, <1>8, Zenon DEF IInv

\* ExecSwitch keeps the invariant.
LEMMA ExecSwitchStep ==
    ASSUME IInv, NEW c \in CPU, ExecSwitch(c)
    PROVE  IInv'
<1> USE Constants DEF IInv
<1>u. /\ pc[c] = "user" /\ pc' = [pc EXCEPT ![c] = "exec"]
      /\ UNCHANGED <<asid_ctx, asid_generation, asid_next, asid_bitmap, tlb_pending, asid_active,
                     asid_reserved, asid_lock, swept, cur, ctx, gen, old, ttbr>>
  BY Zenon DEF ExecSwitch, Goto, allocVars, localVars
<1>t. \A d \in CPU : tlb'[d] = Outdated(tlb[d], cur[c]) \cup (IF d = c THEN {ttbr[c]} ELSE {})
  BY Zenon DEF ExecSwitch
<1>v. tlb' = [d \in CPU |-> tlb'[d]]
  BY Zenon DEF ExecSwitch
<1>a. cur[c] \in Proc /\ ttbr[c] = <<Asid(asid_ctx[cur[c]]), cur[c]>> /\ ttbr[c] \in tlb[c]
  BY <1>u, Zenon DEF TypeOK, PointInv, TtbrInv
<1>b. \A d \in CPU : /\ Outdated(tlb[d], cur[c]) \in SUBSET Entry
                     /\ \A e \in Outdated(tlb[d], cur[c]) :
                          /\ e[2] # cur[c]
                          /\ \E f \in tlb[d] :
                               e[1] = f[1] /\ (e[2] = f[2] \/ (e[2] = NULL /\ f[2] = cur[c]))
                     /\ \A e \in tlb[d] :
                          <<e[1], IF e[2] = cur[c] THEN NULL ELSE e[2]>>
                            \in Outdated(tlb[d], cur[c])
  BY <1>a, OutdatedFacts, Zenon DEF TypeOK
<1>c. \A d \in CPU : /\ tlb'[d] \in SUBSET Entry
                     /\ \A e \in tlb'[d] :
                          \/ d = c /\ e = ttbr[c]
                          \/ /\ e[2] # cur[c]
                             /\ \E f \in tlb[d] :
                                  e[1] = f[1] /\ (e[2] = f[2] \/ (e[2] = NULL /\ f[2] = cur[c]))
  <2>1. ttbr[c] \in Entry
    BY Zenon DEF TypeOK
  <2>2. ASSUME NEW d \in CPU, NEW e \in tlb'[d]
        PROVE  e \in Outdated(tlb[d], cur[c]) \/ (d = c /\ e = ttbr[c])
    BY <1>t, Zenon
  <2>3. QED
    BY <1>b, <2>1, <2>2, ZenonT(40)
<1>p. \A d \in CPU : pc'[d] = IF d = c THEN "exec" ELSE pc[d]
  BY <1>u, Zenon DEF TypeOK
<1>d. \A d \in CPU : \A e \in tlb'[d] : \E f \in tlb[d] : e[1] = f[1]
  BY <1>a, <1>c
<1>1. TypeOK'
  BY <1>u, <1>v, <1>c, Zenon DEF TypeOK, Points
<1>2. PointInv'
  BY <1>u DEF TypeOK, PointInv
<1>3. TtbrInv'
  <2>1. ASSUME NEW d \in CPU, d # c, pc[d] \in {"user", "exec", "exiting"}
        PROVE  ttbr[d] \in tlb'[d]
    <3>1. ttbr[d] \in tlb[d] /\ ttbr[d] = <<ttbr[d][1], ttbr[d][2]>> /\ ttbr[d][2] # cur[c]
      BY <1>a, <2>1, Pairs DEF TypeOK, TtbrInv, PointInv
    <3>2. ttbr[d] \in Outdated(tlb[d], cur[c])
      BY <1>b, <2>1, <3>1, Zenon
    <3>3. QED
      BY <1>t, <2>1, <3>2, Zenon
  <2>2. ttbr[c] \in tlb'[c]
    BY <1>t, Zenon
  <2>3. QED
    BY <1>u, <1>p, <1>a, <2>1, <2>2 DEF TtbrInv
<1>4. GenInv'
  BY <1>u, ZenonT(40) DEF TypeOK, GenInv, WellFormed, PointInv
<1>5. RunInv'
  BY <1>u, <1>p DEF RunInv, Running
<1>6. NumberInv'
  <2>1. \A a : Issued(a)' => Issued(a)
    BY <1>u, <1>d DEF Issued
  <2>2. Sweeping' <=> Sweeping
    BY <1>u, Zenon DEF TypeOK, Sweeping
  <2>3. ~Sweeping =>
            (\A b \in CPU \ tlb_pending : \A e \in tlb[b] : e[1] \in asid_bitmap)'
    BY <1>u, <1>d DEF NumberInv
  <2>4. QED
    BY <1>u, <2>1, <2>2, <2>3, NumberFrame, Zenon
<1>7. CleanInv'
  <2>1. \A p \in Proc : InExec(p) \/ p = cur[c] => InExec(p)'
    BY <1>u, Zenon DEF TypeOK, InExec
  <2>2. ASSUME NEW d \in CPU \ tlb_pending, NEW e \in tlb'[d]
        PROVE  /\ e[1] # 0
               /\ e[2] \in Proc => asid_ctx[e[2]] = <<asid_generation, e[1]>>
               /\ e[2] = NULL => \A p \in Proc :
                                asid_ctx[p] = <<asid_generation, e[1]>> => InExec(p)'
    <3>1. CASE d = c /\ e = ttbr[c]
      BY <1>a, <3>1 DEF CleanInv
    <3>2. CASE e[2] # cur[c] /\ \E f \in tlb[d] :
                  e[1] = f[1] /\ (e[2] = f[2] \/ (e[2] = NULL /\ f[2] = cur[c]))
      <4>1. PICK f \in tlb[d] : e[1] = f[1] /\ (e[2] = f[2] \/ (e[2] = NULL /\ f[2] = cur[c]))
        BY <3>2, Zenon
      <4>2. CASE e[2] = f[2]
        BY <2>1, <4>1, <4>2 DEF CleanInv
      <4>3. CASE e[2] = NULL /\ f[2] = cur[c]
        <5>1. asid_ctx[cur[c]] = <<asid_generation, e[1]>> /\ e[1] # 0
          BY <1>a, <4>1, <4>3, Zenon DEF CleanInv
        <5>2. asid_ctx[cur[c]] # NoCtx
          BY <5>1 DEF TypeOK, NoCtx
        <5>3. \A p \in Proc : asid_ctx[p] = <<asid_generation, e[1]>> => p = cur[c]
          BY <1>a, <5>1, <5>2, OneOwner, Zenon
        <5>4. QED
          BY <2>1, <4>3, <5>1, <5>3, Zenon
      <4>4. QED
        BY <4>1, <4>2, <4>3, Zenon
    <3>3. QED
      BY <1>c, <3>1, <3>2
  <2>3. \A d \in CPU : pc'[d] = "exiting" => pc[d] = "exiting"
    BY <1>u, Zenon DEF TypeOK
  <2>4. QED
    BY <1>u, <2>2, <2>3, ZenonT(40) DEF CleanInv
<1>8. OwnInv'
  <2>1. ASSUME NEW d \in CPU, pc'[d] \in Running, NEW e \in tlb'[d],
               e[1] = Asid(asid_ctx[cur[d]])
        PROVE  e[2] = cur[d] \/ (e[2] = NULL /\ pc'[d] = "exec")
    <3>1. pc[d] \in Running /\ cur[d] \in Proc /\ (d # c => pc'[d] = pc[d] /\ cur[d] # cur[c])
      BY <1>u, <1>a, <2>1 DEF TypeOK, Running, PointInv
    <3>2. \A f \in tlb[d] : f[1] = e[1] => f[2] = cur[d] \/ (f[2] = NULL /\ pc[d] = "exec")
      BY <2>1, <3>1, Zenon DEF OwnInv
    <3>3. CASE d = c
      BY <1>u, <1>a, <1>c, <2>1, <3>2, <3>3 DEF TypeOK
    <3>4. CASE d # c
      BY <1>u, <1>c, <2>1, <3>1, <3>2, <3>4
    <3>5. QED
      BY <3>3, <3>4, Zenon
  <2>2. QED
    BY <1>u, <2>1, Zenon DEF OwnInv
<1>9. QED
  BY <1>1, <1>2, <1>3, <1>4, <1>5, <1>6, <1>7, <1>8, Zenon DEF IInv

\* ExecFlush keeps the invariant.
LEMMA ExecFlushStep ==
    ASSUME IInv, NEW c \in CPU, ExecFlush(c)
    PROVE  IInv'
<1> DEFINE a == Asid(asid_ctx[cur[c]])
<1> USE Constants DEF IInv
<1>u. /\ pc[c] = "exec" /\ pc' = [pc EXCEPT ![c] = "user"]
      /\ UNCHANGED <<asid_ctx, asid_generation, asid_next, asid_bitmap, tlb_pending, asid_active,
                     asid_reserved, asid_lock, swept, cur, ctx, gen, old, ttbr>>
  BY Zenon DEF ExecFlush, Goto, allocVars, localVars
<1>a. cur[c] \in Proc /\ ttbr[c] = <<a, cur[c]>> /\ ttbr[c] \in tlb[c]
  BY <1>u, Zenon DEF TypeOK, PointInv, TtbrInv
<1>b. /\ tlb' \in [CPU -> SUBSET Entry]
      /\ \A d \in CPU : tlb'[d] = {e \in tlb[d] : e[1] # a} \cup ({ttbr[d]} \ {Reserved})
  BY DEF ExecFlush, TypeOK
<1> HIDE DEF a
<1>c. \A d \in CPU : tlb'[d] \subseteq tlb[d]
  <2>1. \A d \in CPU : ttbr[d] = Reserved \/ ttbr[d] \in tlb[d]
    BY Zenon DEF TypeOK, TtbrInv, Points
  <2>2. QED
    BY <1>b, <2>1
<1>p. \A d \in CPU : pc'[d] = IF d = c THEN "user" ELSE pc[d]
  BY <1>u, Zenon DEF TypeOK
<1>1. TypeOK'
  BY <1>u, <1>b, Zenon DEF TypeOK, Points
<1>2. PointInv'
  BY <1>u DEF TypeOK, PointInv
<1>3. TtbrInv'
  <2>1. \A d \in CPU : pc[d] \in {"user", "exec", "exiting"} => ttbr[d] # Reserved
    BY DEF TypeOK, TtbrInv, PointInv, Reserved
  <2>2. QED
    BY <1>u, <1>b, <2>1 DEF TypeOK, TtbrInv, PointInv
<1>4. GenInv'
  BY <1>u, ZenonT(40) DEF TypeOK, GenInv, WellFormed, PointInv
<1>5. RunInv'
  BY <1>u, <1>p, Zenon DEF RunInv, Running
<1>6. NumberInv'
  <2>1. \A b : Issued(b)' => Issued(b)
    BY <1>u, <1>c, Zenon DEF TypeOK, Issued
  <2>2. Sweeping' <=> Sweeping
    BY <1>u DEF TypeOK, Sweeping
  <2>3. ~Sweeping =>
            (\A b \in CPU \ tlb_pending : \A e \in tlb[b] : e[1] \in asid_bitmap)'
    BY <1>u, <1>c, Zenon DEF NumberInv
  <2>4. QED
    BY <1>u, <2>1, <2>2, <2>3, NumberFrame, Zenon
<1>7. CleanInv'
  <2>1. \A p \in Proc : p # cur[c] /\ InExec(p) => InExec(p)'
    BY <1>u, Zenon DEF TypeOK, InExec
  <2>2. ASSUME NEW d \in CPU \ tlb_pending, NEW e \in tlb'[d], e[2] = NULL,
               asid_ctx[cur[c]] = <<asid_generation, e[1]>>
        PROVE  FALSE
    <3>1. e[1] = a
      BY <2>2 DEF a, Asid
    <3>2. e = ttbr[d] /\ e \in tlb[d]
      BY <1>b, <1>c, <2>2, <3>1
    <3>3. pc[d] = "exiting"
      <4>1. ttbr[d] # Reserved /\ ttbr[d][2] = NULL
        <5>1. e[1] # 0
          BY <2>2, <3>2, Zenon DEF CleanInv
        <5>2. QED
          BY <2>2, <3>2, <5>1 DEF Reserved
      <4>2. pc[d] \in {"user", "exec", "exiting"}
        BY <4>1, Zenon DEF TypeOK, TtbrInv, Points
      <4>3. QED
        BY <4>1, <4>2 DEF TtbrInv, PointInv
    <3>4. QED
      BY <1>a, <2>2, <3>2, <3>3, Zenon DEF CleanInv
  <2>3. ASSUME NEW d \in CPU \ tlb_pending, NEW e \in tlb'[d]
        PROVE  /\ e[1] # 0
               /\ e[2] \in Proc => asid_ctx[e[2]] = <<asid_generation, e[1]>>
               /\ e[2] = NULL => \A p \in Proc :
                                asid_ctx[p] = <<asid_generation, e[1]>> => InExec(p)'
    BY <1>c, <2>1, <2>2, <2>3, Zenon DEF CleanInv
  <2>4. \A d \in CPU : pc'[d] = "exiting" => pc[d] = "exiting"
    BY <1>u, Zenon DEF TypeOK
  <2>5. QED
    BY <1>u, <2>3, <2>4, ZenonT(40) DEF CleanInv
<1>8. OwnInv'
  <2>1. \A e \in tlb'[c] : e[1] = a => e[2] = cur[c]
    BY <1>a, <1>b, Pairs DEF TypeOK
  <2>2. QED
    BY <1>u, <1>c, <2>1 DEF TypeOK, OwnInv, Running, PointInv, a
<1>9. QED
  BY <1>1, <1>2, <1>3, <1>4, <1>5, <1>6, <1>7, <1>8, Zenon DEF IInv

=============================================================================

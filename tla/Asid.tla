-------------------------------- MODULE Asid --------------------------------
(***************************************************************************)
(* The rolling-generation ASID allocator of src/arch/asid.c, with the TLB  *)
(* of each CPU.  asid_switch() has a lockless fast path that races with    *)
(* the rollover another CPU performs under asid_lock.                      *)
(*                                                                         *)
(* A context, generation | asid in one word, is the pair of the two;       *)
(* generations count by one instead of by asid_num_total.                  *)
(*                                                                         *)
(* The TLB is as full as it can be: the walker may fill in an entry of the *)
(* table in TTBR0 at any time, so it is taken to have done so.  An entry   *)
(* carries the ASID and the process whose table it came from, NULL for a   *)
(* table that was replaced or freed.                                       *)
(***************************************************************************)
EXTENDS Naturals

CONSTANTS
    CPU, Proc,
    NumAsid,    \* asid_num_total
    MaxGen,     \* bound: no process is dispatched after this many generations
    NULL

\* There are more numbers than CPUs: when each CPU has one, one is left.
ASSUME AsidAssumption ==
    /\ NumAsid \in Nat /\ NumAsid > 1
    /\ \A f \in [CPU -> 0..NumAsid - 1] : \E a \in 1..NumAsid - 1 : \A c \in CPU : f[c] # a
    /\ MaxGen \in Nat
    /\ NULL \notin Proc \cup CPU \cup Nat

VARIABLES
    asid_ctx,           \* struct proc
    asid_generation, asid_next, asid_bitmap, tlb_pending,
    asid_active, asid_reserved,     \* struct cpu
    asid_lock,          \* the CPU holding it, or NULL
    cur,                \* c->proc
    pc,
    ctx, gen, old,      \* locals of asid_switch(); NULL before they are read
    swept,              \* the CPUs flush_context() has passed
    ttbr,               \* TTBR0 of each CPU: <<asid, process>>
    tlb                 \* the entries each CPU may hold

allocVars == <<asid_ctx, asid_generation, asid_next, asid_bitmap, tlb_pending,
               asid_active, asid_reserved, asid_lock, swept>>
localVars == <<ctx, gen, old>>
mmuVars == <<ttbr, tlb>>
vars == <<allocVars, cur, pc, localVars, mmuVars>>

Points == {"idle", "switch", "slow", "sweep", "install", "user", "exec", "exiting"}

Reserved == <<0, NULL>>     \* ASID_RESERVED with the empty table

Generation(x) == x[1]
Asid(x) == x[2]
NoCtx == <<0, 0>>           \* the packed value 0: none yet, or drained

Init ==
    /\ asid_ctx = [p \in Proc |-> NoCtx]
    /\ asid_generation = 1
    /\ asid_next = 1
    /\ asid_bitmap = {0}
    /\ tlb_pending = {}
    /\ asid_active = [c \in CPU |-> NoCtx]
    /\ asid_reserved = [c \in CPU |-> NoCtx]
    /\ asid_lock = NULL
    /\ cur = [c \in CPU |-> NULL]
    /\ pc = [c \in CPU |-> "idle"]
    /\ ctx = [c \in CPU |-> NULL]
    /\ gen = [c \in CPU |-> NULL]
    /\ old = [c \in CPU |-> NULL]
    /\ swept = {}
    /\ ttbr = [c \in CPU |-> Reserved]
    /\ tlb = [c \in CPU |-> {}]

Goto(c, point) == pc' = [pc EXCEPT ![c] = point]

-----------------------------------------------------------------------------
(* The scheduler *)

\* A process is dispatched, by one CPU at a time: asid_switch() reads its context.
Dispatch(c, p) ==
    /\ pc[c] = "idle"
    /\ asid_generation <= MaxGen
    /\ \A d \in CPU : cur[d] # p
    /\ cur' = [cur EXCEPT ![c] = p]
    /\ ctx' = [ctx EXCEPT ![c] = asid_ctx[p]]
    /\ Goto(c, "switch")
    /\ UNCHANGED <<allocVars, gen, old, mmuVars>>

\* Nothing to run: wfi().
Idle(c) == pc[c] = "idle" /\ UNCHANGED vars

\* The process is switched away from: TTBR0 is parked on the empty table.
SwitchBack(c) ==
    /\ pc[c] \in {"user", "exiting"}
    /\ cur' = [cur EXCEPT ![c] = NULL]
    /\ ttbr' = [ttbr EXCEPT ![c] = Reserved]
    /\ Goto(c, "idle")
    /\ UNCHANGED <<allocVars, localVars, tlb>>

-----------------------------------------------------------------------------
(* asid_switch() *)

\* The relaxed loads of the generation and of the active slot, in either order.
ReadGeneration(c) ==
    /\ pc[c] = "switch" /\ gen[c] = NULL
    /\ gen' = [gen EXCEPT ![c] = asid_generation]
    /\ UNCHANGED <<allocVars, cur, pc, ctx, old, mmuVars>>

ReadActive(c) ==
    /\ pc[c] = "switch" /\ old[c] = NULL
    /\ old' = [old EXCEPT ![c] = asid_active[c]]
    /\ UNCHANGED <<allocVars, cur, pc, ctx, gen, mmuVars>>

HaveRead(c) == pc[c] = "switch" /\ gen[c] # NULL /\ old[c] # NULL

\* Mutant: the slot is written without comparing it.
MayTakeFastPathBlind(c) ==
    /\ old[c] # NoCtx
    /\ Generation(ctx[c]) = gen[c]

\* The condition of the fast path, the comparison of the cmpxchg included.
MayTakeFastPath(c) ==
    /\ old[c] # NoCtx
    /\ Generation(ctx[c]) = gen[c]
    /\ asid_active[c] = old[c]

Forget(c) == gen' = [gen EXCEPT ![c] = NULL] /\ old' = [old EXCEPT ![c] = NULL]

\* The cmpxchg succeeds.
FastPath(c) ==
    /\ HaveRead(c)
    /\ MayTakeFastPath(c)
    /\ asid_active' = [asid_active EXCEPT ![c] = ctx[c]]
    /\ Forget(c)
    /\ Goto(c, "install")
    /\ UNCHANGED <<asid_ctx, asid_generation, asid_next, asid_bitmap, tlb_pending,
                   asid_reserved, asid_lock, swept, cur, ctx, mmuVars>>

\* The slow path has asid_lock.
SlowPath(c) ==
    /\ HaveRead(c)
    /\ ~MayTakeFastPath(c)
    /\ asid_lock = NULL
    /\ asid_lock' = c
    /\ Forget(c)
    /\ Goto(c, "slow")
    /\ UNCHANGED <<asid_ctx, asid_generation, asid_next, asid_bitmap, tlb_pending,
                   asid_active, asid_reserved, swept, cur, ctx, mmuVars>>

\* The end of the slow path: the context is published and the lock dropped.
Leave(c, x) ==
    /\ ctx' = [ctx EXCEPT ![c] = x]
    /\ asid_ctx' = [asid_ctx EXCEPT ![cur[c]] = x]
    /\ asid_active' = [asid_active EXCEPT ![c] = x]
    /\ asid_lock' = NULL
    /\ Goto(c, "install")

\* Mutant: the flush is not owed any more, but not done.
FlushForgotten(c, pending) ==
    /\ tlb_pending' = pending \ {c}
    /\ UNCHANGED tlb

\* tlbi vmalle1, where it is owed; the entries of the table in TTBR0 may be back
\* at once.
FlushIfPending(c, pending) ==
    /\ tlb_pending' = pending \ {c}
    /\ tlb' = [tlb EXCEPT ![c] = IF c \in pending THEN {ttbr[c]} \ {Reserved} ELSE @]

\* bitmap_find_zero() returns asid_num_total.
Full(bitmap) == 1..NumAsid - 1 \subseteq bitmap

\* It returns `a': the first free number from start, or else from 1.
FindZero(bitmap, start, a) ==
    LET free == (1..NumAsid - 1) \ bitmap IN
        /\ a \in free
        /\ \A b \in free : IF a >= start THEN b < start \/ a <= b ELSE a <= b /\ b < start

\* The context is of the current generation after all.
SlowCurrent(c) ==
    /\ pc[c] = "slow"
    /\ Generation(asid_ctx[cur[c]]) = asid_generation
    /\ Leave(c, asid_ctx[cur[c]])
    /\ FlushIfPending(c, tlb_pending)
    /\ UNCHANGED <<asid_generation, asid_next, asid_bitmap, asid_reserved, swept,
                   cur, gen, old, ttbr>>

Stale(c) == pc[c] = "slow" /\ Generation(asid_ctx[cur[c]]) # asid_generation
Carried(x) == {d \in CPU : x # NoCtx /\ asid_reserved[d] = x}
Renewed(x) == <<asid_generation, Asid(x)>>

\* new_context(), path 1: the number was carried across the last rollover.
SlowCarried(c) ==
    /\ Stale(c)
    /\ LET x == asid_ctx[cur[c]] IN
         /\ Carried(x) # {}
         /\ asid_reserved' = [d \in CPU |-> IF d \in Carried(x) THEN Renewed(x)
                                            ELSE asid_reserved[d]]
         /\ Leave(c, Renewed(x))
    /\ FlushIfPending(c, tlb_pending)
    /\ UNCHANGED <<asid_generation, asid_next, asid_bitmap, swept, cur, gen, old, ttbr>>

\* The number was not carried over but is free in this generation.
Keepable(x) == x # NoCtx /\ Carried(x) = {} /\ Asid(x) \notin asid_bitmap

\* new_context(), path 2: the number is still free.
SlowKept(c) ==
    /\ Stale(c)
    /\ LET x == asid_ctx[cur[c]] IN
         /\ Keepable(x)
         /\ asid_bitmap' = asid_bitmap \cup {Asid(x)}
         /\ Leave(c, Renewed(x))
    /\ FlushIfPending(c, tlb_pending)
    /\ UNCHANGED <<asid_generation, asid_next, asid_reserved, swept, cur, gen, old, ttbr>>

NeedsNew(c) ==
    /\ Stale(c)
    /\ Carried(asid_ctx[cur[c]]) = {}
    /\ ~Keepable(asid_ctx[cur[c]])

\* new_context(): the next free number.
SlowNew(c) ==
    /\ NeedsNew(c)
    /\ \E a \in 1..NumAsid - 1 :
         /\ FindZero(asid_bitmap, asid_next, a)
         /\ asid_bitmap' = asid_bitmap \cup {a}
         /\ asid_next' = a + 1
         /\ Leave(c, <<asid_generation, a>>)
    /\ FlushIfPending(c, tlb_pending)
    /\ UNCHANGED <<asid_generation, asid_reserved, swept, cur, gen, old, ttbr>>

\* Mutant: the bitmap is not cleared.
RolloverKeepsBits(c) ==
    /\ NeedsNew(c)
    /\ Full(asid_bitmap)
    /\ swept' = {}
    /\ Goto(c, "sweep")
    /\ UNCHANGED <<asid_ctx, asid_generation, asid_next, asid_bitmap, tlb_pending,
                   asid_active, asid_reserved, asid_lock, cur, localVars, mmuVars>>

\* new_context(): none is left, flush_context() clears the bitmap.
Rollover(c) ==
    /\ NeedsNew(c)
    /\ Full(asid_bitmap)
    /\ asid_bitmap' = {0}
    /\ swept' = {}
    /\ Goto(c, "sweep")
    /\ UNCHANGED <<asid_ctx, asid_generation, asid_next, tlb_pending, asid_active,
                   asid_reserved, asid_lock, cur, localVars, mmuVars>>

\* flush_context(): the xchg of one CPU's active slot, in any order of CPUs.
Sweep(c, d) ==
    /\ pc[c] = "sweep"
    /\ d \notin swept
    /\ swept' = swept \cup {d}
    /\ LET x == IF asid_active[d] = NoCtx THEN asid_reserved[d] ELSE asid_active[d] IN
         /\ asid_active' = [asid_active EXCEPT ![d] = NoCtx]
         /\ asid_reserved' = [asid_reserved EXCEPT ![d] = x]
         /\ asid_bitmap' = asid_bitmap \cup {Asid(x)}
    /\ UNCHANGED <<asid_ctx, asid_generation, asid_next, tlb_pending, asid_lock, cur, pc,
                   localVars, mmuVars>>

\* The rest of flush_context() and of the slow path.
NewGeneration(c) ==
    /\ pc[c] = "sweep"
    /\ swept = CPU
    /\ \E a \in 1..NumAsid - 1 :
         /\ FindZero(asid_bitmap, 1, a)
         /\ asid_generation' = asid_generation + 1
         /\ asid_bitmap' = asid_bitmap \cup {a}
         /\ asid_next' = a + 1
         /\ Leave(c, <<asid_generation + 1, a>>)
    /\ FlushIfPending(c, CPU)
    /\ swept' = {}
    /\ UNCHANGED <<asid_reserved, cur, gen, old, ttbr>>

\* switchuvm(): the process runs.
Install(c) ==
    /\ pc[c] = "install"
    /\ ttbr' = [ttbr EXCEPT ![c] = <<Asid(ctx[c]), cur[c]>>]
    /\ tlb' = [tlb EXCEPT ![c] = @ \cup {<<Asid(ctx[c]), cur[c]>>}]
    /\ ctx' = [ctx EXCEPT ![c] = NULL]
    /\ Goto(c, "user")
    /\ UNCHANGED <<allocVars, cur, gen, old>>

-----------------------------------------------------------------------------
(* exec() and exit() *)

\* The entries that came from p's present table are stale from now on.
Outdated(entries, p) ==
    {<<e[1], IF e[2] = p THEN NULL ELSE e[2]>> : e \in entries}

\* exec(): the new table goes to TTBR0 under the same ASID.
ExecSwitch(c) ==
    /\ pc[c] = "user"
    /\ tlb' = [d \in CPU |->
                  Outdated(tlb[d], cur[c]) \cup (IF d = c THEN {ttbr[c]} ELSE {})]
    /\ Goto(c, "exec")
    /\ UNCHANGED <<allocVars, cur, localVars, ttbr>>

\* asid_flush(): tlbi aside1is on all CPUs, then the old table is freed.
ExecFlush(c) ==
    /\ pc[c] = "exec"
    /\ LET a == Asid(asid_ctx[cur[c]]) IN
         tlb' = [d \in CPU |->
                   {e \in tlb[d] : e[1] # a} \cup ({ttbr[d]} \ {Reserved})]
    /\ Goto(c, "user")
    /\ UNCHANGED <<allocVars, cur, localVars, ttbr>>

\* exit() frees the table while TTBR0 still has it.  The proc is reaped and
\* allocproc() starts its slot afresh, which nobody sees before it is dispatched.
Exit(c) ==
    /\ pc[c] = "user"
    /\ tlb' = [d \in CPU |-> Outdated(tlb[d], cur[c])]
    /\ ttbr' = [ttbr EXCEPT ![c] = <<@[1], NULL>>]
    /\ asid_ctx' = [asid_ctx EXCEPT ![cur[c]] = NoCtx]
    /\ Goto(c, "exiting")
    /\ UNCHANGED <<asid_generation, asid_next, asid_bitmap, tlb_pending, asid_active,
                   asid_reserved, asid_lock, swept, cur, localVars>>

-----------------------------------------------------------------------------
Step(c) ==
    \/ SwitchBack(c)
    \/ ReadGeneration(c) \/ ReadActive(c) \/ FastPath(c) \/ SlowPath(c)
    \/ SlowCurrent(c) \/ SlowCarried(c) \/ SlowKept(c) \/ SlowNew(c)
    \/ Rollover(c) \/ (\E d \in CPU : Sweep(c, d)) \/ NewGeneration(c)
    \/ Install(c)
    \/ ExecSwitch(c) \/ ExecFlush(c) \/ Exit(c)

Next == \E c \in CPU : (\E p \in Proc : Dispatch(c, p)) \/ Idle(c) \/ Step(c)

Spec == Init /\ [][Next]_vars

-----------------------------------------------------------------------------
(* Properties *)

\* What an ASID allocator is for: a process in user mode never meets a TLB entry
\* of another process's table, or of a table that was replaced or freed, through
\* rollovers, migrations, exec and exit on any CPU.
NoStaleTranslation ==
    \A c \in CPU : pc[c] = "user" =>
        \A e \in tlb[c] : e[1] = ttbr[c][1] => e[2] = cur[c]

\* CPUs that run different processes use different ASIDs, also where one was
\* dispatched before a rollover and the other after it: tlbi aside1is of one
\* never stands for the other, and a flush that is still owed does no harm.
RunningAsidsDistinct ==
    \A c, d \in CPU :
        /\ pc[c] \in {"user", "exec"} /\ pc[d] \in {"user", "exec"}
        /\ cur[c] # cur[d]
        => ttbr[c][1] # ttbr[d][1]

\* The KASSERT of new_context(): a rollover leaves a number for its caller.
RolloverFindsOne ==
    \A c \in CPU : pc[c] = "sweep" /\ swept = CPU => ~Full(asid_bitmap)
=============================================================================

-------------------------------- MODULE Intr --------------------------------
(***************************************************************************)
(* Interrupts from the GIC to the thread that serves them: trap_irq() of   *)
(* src/arch/trap.c, intr_dispatch() and ithread_loop() of src/kern/intr.c, *)
(* timer_tick() and the two filters, with preemption at the end of         *)
(* trap_irq() and the run queue of src/kern/proc.c.                        *)
(*                                                                         *)
(* Two kinds of sources: the UART, a shared interrupt routed to the boot   *)
(* CPU and served by an interrupt thread, and the timer, which every CPU   *)
(* has for itself and whose filter does all the work.  Both are level      *)
(* sensitive, and no interrupt preempts another (one priority for all).    *)
(*                                                                         *)
(* ithread_loop() holds ithread_lock from the test of pending into sleep() *)
(* (ipc is "sleep").  The sections of sleep(), wakeup() and yield() under  *)
(* the process locks are single steps: Proc is about those locks.          *)
(***************************************************************************)
EXTENDS Runq, FiniteSets

CONSTANTS
    CPU, Boot,
    User,           \* threads that only compute
    Ithread,        \* the interrupt thread of the UART
    NULL,
    FifoDepth,      \* external: receive FIFO
    DrainMax        \* CONSOLE_DRAIN_MAX

ASSUME IntrAssumption ==
    /\ Boot \in CPU /\ Ithread \notin User /\ IsFiniteSet(User)
    /\ CPU \cap (User \cup {Ithread}) = {} /\ NULL \notin CPU \cup User \cup {Ithread}
    /\ DrainMax \in Nat \ {0} /\ FifoDepth \in Nat \ {0}

Thread == User \cup {Ithread}

VARIABLES
    fifo, line,         \* external: characters received, and the UART's interrupt line
    ticking,            \* external: CPUs whose timer has run out
    uartActive,         \* GIC: the UART's interrupt is active
    timerActive,        \* GIC: the CPUs whose timer interrupt is
    running,            \* GIC: the interrupt whose priority a CPU runs at
    cur,                \* c->proc
    runq,
    need_resched,
    stage, irq, res,    \* a context's progress in trap_irq()
    ipc,                \* the progress of ithread_loop()
    drained,            \* local of console_intr()
    pending             \* src->pending

vars == <<fifo, line, ticking, uartActive, timerActive, running, cur, runq, need_resched,
          stage, irq, res, ipc, drained, pending>>
device == <<fifo, line, ticking>>
gic == <<uartActive, timerActive, running>>
sched == <<cur, runq>>
trap == <<stage, irq, res>>
ithread == <<ipc, drained, pending>>

\* A trap runs in the context it interrupts: a thread, or a CPU's scheduler.
Context == Thread \cup CPU
On(c) == IF cur[c] = NULL THEN c ELSE cur[c]

Init ==
    /\ fifo = 0 /\ line = FALSE /\ ticking = {}
    /\ uartActive = FALSE /\ timerActive = {}
    /\ running = [c \in CPU |-> NULL]
    /\ cur = [c \in CPU |-> NULL]
    /\ runq \in {q \in [1..Cardinality(Thread) -> Thread] : NoDuplicates(q)}
    /\ need_resched = {}
    /\ stage = [x \in Context |-> "none"]
    /\ irq = [x \in Context |-> NULL] /\ res = irq
    /\ ipc = "test" /\ drained = 0
    /\ pending = FALSE

-----------------------------------------------------------------------------
(* The devices and the GIC *)

Receive ==
    /\ fifo < FifoDepth
    /\ fifo' = fifo + 1
    /\ UNCHANGED <<line, ticking, gic, sched, need_resched, trap, ithread>>

\* The trigger level is crossed, or the receive timeout runs out.
Raise ==
    /\ fifo > 0 /\ ~line
    /\ line' = TRUE
    /\ UNCHANGED <<fifo, ticking, gic, sched, need_resched, trap, ithread>>

Tick(c) ==
    /\ c \notin ticking
    /\ ticking' = ticking \cup {c}
    /\ UNCHANGED <<fifo, line, gic, sched, need_resched, trap, ithread>>

\* Interrupts are on: outside of trap_irq(), and not where the interrupt thread holds
\* cons_lock, in console_intr(), or ithread_lock.
Unmasked(c) == stage[On(c)] = "none" /\ ~(cur[c] = Ithread /\ ipc \in {"drain", "sleep"})

Signalled(c, i) ==
    IF i = "timer" THEN c \in ticking \ timerActive
                   ELSE c = Boot /\ line /\ ~uartActive

-----------------------------------------------------------------------------
(* trap_irq() *)

Advance(x, to) == stage' = [stage EXCEPT ![x] = to]

\* gic_acknwlg()
Acknowledge(c, i) ==
    /\ Unmasked(c)
    /\ running[c] = NULL
    /\ Signalled(c, i)
    /\ running' = [running EXCEPT ![c] = i]
    /\ IF i = "timer" THEN timerActive' = timerActive \cup {c} /\ UNCHANGED uartActive
                      ELSE uartActive' = TRUE /\ UNCHANGED timerActive
    /\ Advance(On(c), "filter")
    /\ irq' = [irq EXCEPT ![On(c)] = i]
    /\ UNCHANGED <<device, sched, need_resched, res, ithread>>

\* Mutant: the clock filter switches threads itself.
TimerTickYields(c) ==
    /\ ticking' = ticking \ {c}
    /\ UNCHANGED need_resched
    /\ IF cur[c] = NULL THEN UNCHANGED sched
       ELSE runq' = Append(runq, cur[c]) /\ cur' = [cur EXCEPT ![c] = NULL]

\* timer_tick(): load the countdown, ask for a reschedule.
timer_tick(c) ==
    /\ ticking' = ticking \ {c}
    /\ need_resched' = need_resched \cup {c}
    /\ UNCHANGED sched

FilterTimer(c) ==
    /\ stage[On(c)] = "filter" /\ irq[On(c)] = "timer"
    /\ timer_tick(c)
    /\ Advance(On(c), "eoi")
    /\ res' = [res EXCEPT ![On(c)] = "HANDLED"]
    /\ UNCHANGED <<fifo, line, gic, irq, ithread>>

\* Mutant: pending is set without ithread_lock.
FilterUartUnlocked(c) ==
    /\ stage[On(c)] = "filter" /\ irq[On(c)] = "uart"
    /\ pending' = TRUE
    /\ Advance(On(c), "wakeup")
    /\ res' = [res EXCEPT ![On(c)] = "SCHEDULE_THREAD"]
    /\ UNCHANGED <<device, gic, sched, need_resched, irq, ipc, drained>>

\* console_filter(), then src->pending = 1 under ithread_lock.
FilterUart(c) ==
    /\ stage[On(c)] = "filter" /\ irq[On(c)] = "uart"
    /\ ipc # "sleep"
    /\ pending' = TRUE
    /\ Advance(On(c), "wakeup")
    /\ res' = [res EXCEPT ![On(c)] = "SCHEDULE_THREAD"]
    /\ UNCHANGED <<device, gic, sched, need_resched, irq, ipc, drained>>

\* wakeup(src), which passes over the caller itself.
Wakeup(c) ==
    /\ stage[On(c)] = "wakeup"
    /\ IF ipc = "asleep"
       THEN ipc' = "test" /\ runq' = Append(runq, Ithread)
       ELSE UNCHANGED <<ipc, runq>>
    /\ Advance(On(c), "eoi")
    /\ UNCHANGED <<device, gic, cur, need_resched, irq, res, drained, pending>>

\* Mutant: the hardware half deactivates whatever the filter said.
DeactivatesAlways(x) == TRUE

\* A source with work for its thread stays active.
Deactivates(x) == res[x] # "SCHEDULE_THREAD"

\* gic_eoi() drops this CPU's priority, gic_deactivate() follows unless it is left to
\* the thread.
Eoi(c) ==
    /\ stage[On(c)] = "eoi"
    /\ running' = [running EXCEPT ![c] = IF @ = irq[On(c)] THEN NULL ELSE @]
    /\ IF ~Deactivates(On(c)) THEN UNCHANGED <<uartActive, timerActive>>
       ELSE IF irq[On(c)] = "timer"
       THEN timerActive' = timerActive \ {c} /\ UNCHANGED uartActive
       ELSE uartActive' = FALSE /\ UNCHANGED timerActive
    /\ Advance(On(c), "preempt")
    /\ UNCHANGED <<device, sched, need_resched, irq, res, ithread>>

\* The preemption point.
Preempted(c) == c \in need_resched /\ cur[c] # NULL

\* trap_irq() ends, through yield() when the tick asked for it.  The context resumes
\* outside of the trap, perhaps on another CPU.
Preempt(c) ==
    /\ stage[On(c)] = "preempt"
    /\ stage' = [stage EXCEPT ![On(c)] = "none"]
    /\ irq' = [irq EXCEPT ![On(c)] = NULL]
    /\ res' = [res EXCEPT ![On(c)] = NULL]
    /\ IF Preempted(c)
       THEN /\ need_resched' = need_resched \ {c}
            /\ runq' = Append(runq, cur[c])
            /\ cur' = [cur EXCEPT ![c] = NULL]
       ELSE UNCHANGED <<need_resched, sched>>
    /\ UNCHANGED <<device, gic, ithread>>

-----------------------------------------------------------------------------
(* Threads *)

\* scheduler(): take the head of the run queue.
Dispatch(c) ==
    /\ cur[c] = NULL /\ stage[c] = "none"
    /\ runq # <<>>
    /\ cur' = [cur EXCEPT ![c] = Head(runq)]
    /\ runq' = Tail(runq)
    /\ UNCHANGED <<device, gic, need_resched, trap, ithread>>

Serving(c) == cur[c] = Ithread /\ stage[Ithread] = "none"

\* ithread_loop(): the test under ithread_lock.
IthreadTake(c) ==
    /\ Serving(c) /\ ipc = "test"
    /\ pending
    /\ pending' = FALSE
    /\ ipc' = "handler"
    /\ UNCHANGED <<device, gic, sched, need_resched, trap, drained>>

\* Nothing pending: ithread_lock is kept.
IthreadTest(c) ==
    /\ Serving(c) /\ ipc = "test"
    /\ ~pending
    /\ ipc' = "sleep"
    /\ UNCHANGED <<device, gic, sched, need_resched, trap, drained, pending>>

\* sleep(src, &ithread_lock) lets go of it and of the CPU.
IthreadSleep(c) ==
    /\ Serving(c) /\ ipc = "sleep"
    /\ ipc' = "asleep"
    /\ cur' = [cur EXCEPT ![c] = NULL]
    /\ UNCHANGED <<device, gic, runq, need_resched, trap, drained, pending>>

\* console_intr() takes cons_lock.
HandlerStart(c) ==
    /\ Serving(c) /\ ipc = "handler"
    /\ ipc' = "drain"
    /\ drained' = 0
    /\ UNCHANGED <<device, gic, sched, need_resched, trap, pending>>

\* One character.  External: the line falls when the FIFO is empty.
HandlerGetc(c) ==
    /\ Serving(c) /\ ipc = "drain"
    /\ fifo > 0 /\ drained < DrainMax
    /\ fifo' = fifo - 1
    /\ line' = (line /\ fifo' > 0)
    /\ drained' = drained + 1
    /\ UNCHANGED <<ticking, gic, sched, need_resched, trap, ipc, pending>>

\* The handler returns.
HandlerEnd(c) ==
    /\ Serving(c) /\ ipc = "drain"
    /\ fifo = 0 \/ drained = DrainMax
    /\ ipc' = "deactivate"
    /\ UNCHANGED <<device, gic, sched, need_resched, trap, drained, pending>>

\* gic_deactivate() after the handler.
IthreadDeactivate(c) ==
    /\ Serving(c) /\ ipc = "deactivate"
    /\ uartActive' = FALSE
    /\ ipc' = "test"
    /\ UNCHANGED <<device, timerActive, running, sched, need_resched, trap, drained, pending>>

-----------------------------------------------------------------------------
TrapStep(c) ==
    \/ FilterTimer(c) \/ FilterUart(c) \/ Wakeup(c)
    \/ Eoi(c) \/ Preempt(c)

IthreadStep(c) ==
    \/ IthreadTake(c) \/ IthreadTest(c) \/ IthreadSleep(c)
    \/ HandlerStart(c) \/ HandlerGetc(c) \/ HandlerEnd(c)
    \/ IthreadDeactivate(c)

Next ==
    \/ Receive \/ Raise
    \/ \E c \in CPU :
        \/ Tick(c)
        \/ \E i \in {"timer", "uart"} : Acknowledge(c, i)
        \/ TrapStep(c) \/ Dispatch(c) \/ IthreadStep(c)

Spec == Init /\ [][Next]_vars

\* The CPUs run on, and the timer interval is long enough that what was interrupted
\* over and over gets on at last; the timers keep ticking; an interrupt signalled over
\* and over is taken at last; the UART raises its line.
FairSpec ==
    /\ Spec
    /\ WF_vars(Raise) /\ SF_vars(Acknowledge(Boot, "uart"))
    /\ \A c \in CPU :
        /\ WF_vars(Tick(c)) /\ SF_vars(Acknowledge(c, "timer"))
        /\ WF_vars(TrapStep(c)) /\ SF_vars(Dispatch(c)) /\ SF_vars(IthreadStep(c))

-----------------------------------------------------------------------------
(* Properties *)

Stage == {"none", "filter", "wakeup", "eoi", "preempt"}

\* The GIC, the run queue and the threads are well formed.
TypeOK ==
    /\ fifo \in 0..FifoDepth /\ line \in BOOLEAN /\ ticking \subseteq CPU
    /\ uartActive \in BOOLEAN /\ timerActive \subseteq CPU
    /\ running \in [CPU -> {"timer", "uart", NULL}]
    /\ cur \in [CPU -> Thread \cup {NULL}]
    /\ need_resched \subseteq CPU
    /\ stage \in [Context -> Stage]
    /\ irq \in [Context -> {"timer", "uart", NULL}]
    /\ res \in [Context -> {"HANDLED", "SCHEDULE_THREAD", NULL}]
    /\ ipc \in {"test", "sleep", "asleep", "handler", "drain", "deactivate"}
    /\ drained \in 0..DrainMax /\ pending \in BOOLEAN
    /\ runq \in Seq(Thread)

\* What may owe the GIC a deactivation of the UART's interrupt beside pending: the
\* trap that took it until it hands over, and the thread in its handler.
TrapOwes(x) == irq[x] = "uart" /\ stage[x] = "filter"
ThreadOwes == ipc \in {"handler", "drain", "deactivate"}

\* An active interrupt has exactly one party that will deactivate it, and an
\* inactive one none: no handover is overwritten, the handler never overlaps a new
\* dispatch of its source, and no source stays masked for good.
OneOwesDeactivation ==
    /\ uartActive <=> pending \/ ThreadOwes \/ \E x \in Context : TrapOwes(x)
    /\ ~(pending /\ ThreadOwes)
    /\ \A x \in Context : TrapOwes(x) =>
        ~pending /\ ~ThreadOwes /\ \A y \in Context : TrapOwes(y) => x = y

\* A CPU runs at an interrupt's priority just while the trap that took it has yet to
\* reach gic_eoi() on that CPU, wherever threads move.
PriorityIsBalanced ==
    \A c \in CPU :
        running[c] = IF stage[On(c)] \in {"filter", "wakeup", "eoi"} THEN irq[On(c)] ELSE NULL

\* Input does not stay in the UART: whatever arrives, the FIFO is emptied or the
\* handler drains its whole quota again, also when every CPU is busy.
InputIsServed == fifo > 0 ~> ipc = "drain"

=============================================================================

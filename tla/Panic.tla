-------------------------------- MODULE Panic --------------------------------
(***************************************************************************)
(* panic() of src/kern/panic.c with the spinlocks of src/kern/spinlock.c   *)
(* and the start of the secondary CPUs in src/arch/smp.c.  One lock stands *)
(* for those the report needs (kmsg_lock, cons_out_lock), which any CPU    *)
(* may hold, or spin for, when a panic starts anywhere.                    *)
(*                                                                         *)
(* push_off() and pop_off() keep interrupts off inside acquire and         *)
(* release, and the boot CPU keeps them off until smp_init() is over: the  *)
(* panic SGI is taken outside of these.                                    *)
(***************************************************************************)
EXTENDS Naturals

CONSTANTS
    ncpus,
    NULL

CPU == 0..(ncpus - 1)
Boot == 0

ASSUME PanicAssumption == ncpus \in Nat \ {0} /\ NULL \notin Nat

VARIABLES
    pc,                     \* what a CPU is doing
    sp,                     \* where it is in acquire_spinlock() or release_spinlock()
    i,                      \* local of smp_init()
    online, halted,         \* struct cpu
    sgi,                    \* CPUs where IRQ_PANIC is pending and may be taken
    locked, owner,          \* struct spinlock: locked, cpu
    panic_cpu, panicking,
    nested,                 \* the owner has panicked again
    reported                \* the message is out

vars == <<pc, sp, i, online, halted, sgi, locked, owner, panic_cpu, panicking, nested, reported>>
smpVars == <<i, online>>
lockVars == <<locked, owner>>
panicVars == <<panic_cpu, panicking, nested, reported>>

Doing == {"smp_begin", "smp_on", "smp_wait", "smp_fail", "smp_end", "off", "boot", "boot_done",
          "run", "stop_others", "report", "report_done", "parked"}
LockStep == {"out", "swap", "check", "got", "in", "drop"}

\* main() in smp_init(), at its first printk(); only mpmain() ever sets online.
Init ==
    /\ pc = [c \in CPU |-> IF c = Boot THEN "smp_begin" ELSE "off"]
    /\ sp = [c \in CPU |-> IF c = Boot THEN "swap" ELSE "out"]
    /\ i = 1
    /\ online = {} /\ halted = {}
    /\ sgi = {}
    /\ locked = FALSE /\ owner = NULL
    /\ panic_cpu = NULL /\ panicking = FALSE
    /\ nested = FALSE
    /\ reported = FALSE

Goto(c, what, step) == pc' = [pc EXCEPT ![c] = what] /\ sp' = [sp EXCEPT ![c] = step]
At(c, what) == pc[c] = what /\ sp[c] = "out"
holding_spinlock(c) == locked /\ owner = c

\* panic_stop_self(), with interrupts off: an SGI pending here is never taken.
StopSelf(c) ==
    /\ halted' = halted \cup {c}
    /\ sgi' = sgi \ {c}
    /\ Goto(c, "parked", "out")

-----------------------------------------------------------------------------
(* spinlock.c *)

\* acquire_spinlock() up to its loop.
Acquire(c, what) == Goto(c, what, "swap")

\* One round of the loop: atomic_swap().
Swap(c) ==
    /\ sp[c] = "swap"
    /\ locked' = TRUE
    /\ Goto(c, pc[c], IF locked THEN "check" ELSE "got")
    /\ UNCHANGED <<smpVars, halted, sgi, owner, panicVars>>

\* It was taken: return without it when locking is off.
Check(c) ==
    /\ sp[c] = "check"
    /\ Goto(c, pc[c], IF panicking THEN "in" ELSE "swap")
    /\ UNCHANGED <<smpVars, halted, sgi, lockVars, panicVars>>

\* The owner is noted.
Own(c) ==
    /\ sp[c] = "got"
    /\ owner' = c
    /\ Goto(c, pc[c], "in")
    /\ UNCHANGED <<smpVars, halted, sgi, locked, panicVars>>

\* Mutant: the lock opens before its owner is gone.
ReleaseOpens(c) ==
    /\ sp[c] = "in"
    /\ locked' = FALSE /\ owner' = NULL
    /\ Goto(c, pc[c], "drop")
    /\ UNCHANGED <<smpVars, halted, sgi, panicVars>>

\* release_spinlock(): the owner goes.
Release(c) ==
    /\ sp[c] = "in"
    /\ owner' = NULL
    /\ Goto(c, pc[c], "drop")
    /\ UNCHANGED <<smpVars, halted, sgi, locked, panicVars>>

\* What follows on a printk() of smp_init(), mpmain() or panic().
After(what) ==
    IF what \in {"smp_begin", "smp_fail"} THEN "smp_on"
    ELSE IF what = "smp_end" THEN "run"
    ELSE IF what = "boot" THEN "boot_done"
    ELSE IF what = "report" THEN "report_done" ELSE what

\* The stlr, and pop_off().
Drop(c) ==
    /\ sp[c] = "drop"
    /\ locked' = FALSE
    /\ Goto(c, After(pc[c]), "out")
    /\ reported' = (reported \/ pc[c] = "report")
    /\ UNCHANGED <<smpVars, halted, sgi, owner, panic_cpu, panicking, nested>>

-----------------------------------------------------------------------------
(* smp.c *)

\* PSCI CPU_ON of CPU i succeeds: it starts in mpmain().
CpuOn ==
    /\ At(Boot, "smp_on") /\ i < ncpus
    /\ pc' = [pc EXCEPT ![Boot] = "smp_wait", ![i] = "boot"]
    /\ UNCHANGED <<sp, smpVars, halted, sgi, lockVars, panicVars>>

\* It fails: a warning, and on to the next.
CpuOnFails ==
    /\ At(Boot, "smp_on") /\ i < ncpus
    /\ i' = i + 1
    /\ Acquire(Boot, "smp_fail")
    /\ UNCHANGED <<online, halted, sgi, lockVars, panicVars>>

\* CPU i is online.
SmpOnline ==
    /\ pc[Boot] = "smp_wait" /\ i \in online
    /\ i' = i + 1
    /\ Goto(Boot, "smp_on", "out")
    /\ UNCHANGED <<online, halted, sgi, lockVars, panicVars>>

\* The deadline passes first; the CPU may still come up later.
SmpDeadline ==
    /\ pc[Boot] = "smp_wait" /\ i \notin online
    /\ i' = i + 1
    /\ Acquire(Boot, "smp_fail")
    /\ UNCHANGED <<online, halted, sgi, lockVars, panicVars>>

\* All have been asked: the last printk().
SmpEnd ==
    /\ At(Boot, "smp_on") /\ i = ncpus
    /\ Acquire(Boot, "smp_end")
    /\ UNCHANGED <<smpVars, halted, sgi, lockVars, panicVars>>

\* mpmain(): gic_inithart() and timer_inithart() are done, the printk() begins.
MpPrintk(c) ==
    /\ At(c, "boot")
    /\ Acquire(c, "boot")
    /\ UNCHANGED <<smpVars, halted, sgi, lockVars, panicVars>>

\* After it: online, and into the scheduler with interrupts on.
Online(c) ==
    /\ pc[c] = "boot_done"
    /\ c \notin online
    /\ online' = online \cup {c}
    /\ UNCHANGED <<pc, sp, i, halted, sgi, lockVars, panicVars>>

-----------------------------------------------------------------------------
(* Running CPUs *)

\* Code that prints or otherwise needs the lock.
Work(c) ==
    /\ At(c, "run")
    /\ Acquire(c, "run")
    /\ UNCHANGED <<smpVars, halted, sgi, lockVars, panicVars>>

\* The head of the scheduler's loop when nobody panics.
SchedulerRun(c) ==
    /\ pc[c] = "boot_done" /\ c \in online
    /\ panic_cpu = NULL
    /\ Goto(c, "run", "out")
    /\ UNCHANGED <<smpVars, halted, sgi, lockVars, panicVars>>

\* Mutant: the scheduler does not look whether somebody panics.
SchedulerIgnores(c) ==
    /\ pc[c] = "boot_done" /\ c \in online
    /\ panic_cpu # NULL
    /\ Goto(c, "run", "out")
    /\ UNCHANGED <<smpVars, halted, sgi, lockVars, panicVars>>

\* The head of the scheduler's loop, panic_in_progress().
SchedulerStop(c) ==
    /\ At(c, "run") \/ (pc[c] = "boot_done" /\ c \in online)
    /\ panic_cpu # NULL
    /\ StopSelf(c)
    /\ UNCHANGED <<smpVars, lockVars, panicVars>>

\* trap_irq() of IRQ_PANIC.
TakeSgi(c) ==
    /\ At(c, "run") \/ (pc[c] = "boot_done" /\ c \in online)
    /\ c \in sgi
    /\ StopSelf(c)
    /\ UNCHANGED <<smpVars, lockVars, panicVars>>

-----------------------------------------------------------------------------
(* panic() *)

\* Where the code may find out that something is wrong.
MayPanic(c) ==
    /\ pc[c] \notin {"off", "stop_others", "report", "report_done", "parked"}
    /\ sp[c] \in {"out", "in"}

\* gic_send_sgi_all() reaches the CPUs that have their GIC interface set up, and
\* those that do it just now perhaps.
SendSgi(c) ==
    \E late \in SUBSET {d \in CPU : At(d, "boot")} :
        sgi' = sgi \cup late \cup
               {d \in CPU \ {c} : pc[d] \notin {"off", "parked"} /\ ~At(d, "boot")}

\* The cmpxchg makes this CPU the owner.
PanicOwn(c) ==
    /\ MayPanic(c)
    /\ panic_cpu = NULL
    /\ panic_cpu' = c
    /\ SendSgi(c)
    /\ Goto(c, "stop_others", "out")
    /\ UNCHANGED <<smpVars, halted, lockVars, panicking, nested, reported>>

\* Mutant: the owner is not looked at.
PanicBoth(c) ==
    /\ MayPanic(c)
    /\ panic_cpu \notin {NULL, c}
    /\ SendSgi(c)
    /\ Goto(c, "stop_others", "out")
    /\ UNCHANGED <<smpVars, halted, lockVars, panicVars>>

\* Another CPU panics already.
PanicLose(c) ==
    /\ MayPanic(c)
    /\ panic_cpu \notin {NULL, c}
    /\ StopSelf(c)
    /\ UNCHANGED <<smpVars, lockVars, panicVars>>

\* The CPUs it waits for.
Awaited(c) == (online \ {c}) \ halted

\* panic_stop_others() sends the SGI again while somebody is awaited.
Rearm(c) ==
    /\ pc[c] = "stop_others"
    /\ Awaited(c) # {}
    /\ SendSgi(c)
    /\ UNCHANGED <<pc, sp, smpVars, halted, lockVars, panicVars>>

\* Everybody has stopped, or the deadline has passed: locking is off from here.
StopOthers(c) ==
    /\ pc[c] = "stop_others"
    /\ panicking' = TRUE
    /\ Goto(c, "report", "swap")
    /\ UNCHANGED <<smpVars, halted, sgi, lockVars, panic_cpu, nested, reported>>

\* The owner panics again, while it waits or while it reports; once.
PanicNested(c) ==
    /\ panic_cpu = c
    /\ pc[c] \in {"stop_others", "report"}
    /\ ~nested
    /\ nested' = TRUE
    /\ panicking' = TRUE
    /\ Goto(c, "report", "swap")
    /\ UNCHANGED <<smpVars, halted, sgi, lockVars, panic_cpu, reported>>

\* The end of panic().
ReportDone(c) ==
    /\ pc[c] = "report_done"
    /\ StopSelf(c)
    /\ UNCHANGED <<smpVars, lockVars, panicVars>>

-----------------------------------------------------------------------------
\* What a CPU does by itself; panicking and new work are choices.
Step(c) ==
    \/ Swap(c) \/ Check(c) \/ Own(c) \/ Release(c) \/ Drop(c)
    \/ MpPrintk(c) \/ Online(c) \/ SchedulerRun(c) \/ SchedulerStop(c) \/ TakeSgi(c)
    \/ StopOthers(c) \/ ReportDone(c)

SmpStep == CpuOn \/ CpuOnFails \/ SmpOnline \/ SmpDeadline \/ SmpEnd

Choice(c) ==
    Work(c) \/ PanicOwn(c) \/ PanicLose(c) \/ Rearm(c) \/ PanicNested(c)

\* wfi() in panic_stop_self().
Halted == halted = {c \in CPU : pc[c] # "off"} /\ UNCHANGED vars

Next == SmpStep \/ (\E c \in CPU : Step(c) \/ Choice(c)) \/ Halted

Spec == Init /\ [][Next]_vars

\* A CPU runs on.  It takes the SGI, or comes to the head of the scheduler, in one
\* of the stretches where its interrupts are on (SF); deadlines pass.
FairSpec ==
    /\ Spec
    /\ WF_vars(SmpStep)
    /\ \A c \in CPU : WF_vars(Step(c)) /\ SF_vars(SchedulerStop(c) \/ TakeSgi(c))

-----------------------------------------------------------------------------
(* Properties *)

\* Flags, locks and positions of the CPUs are well formed.
TypeOK ==
    /\ pc \in [CPU -> Doing] /\ sp \in [CPU -> LockStep]
    /\ i \in 1..ncpus
    /\ online \subseteq CPU /\ halted \subseteq CPU /\ sgi \subseteq CPU
    /\ locked \in BOOLEAN /\ owner \in CPU \cup {NULL}
    /\ panic_cpu \in CPU \cup {NULL} /\ panicking \in BOOLEAN
    /\ nested \in BOOLEAN /\ reported \in BOOLEAN

\* Until a panic turns locking off, the lock excludes: no two CPUs are inside, the
\* one that is has its name in the lock and the next to acquire has not, as the
\* KASSERTs of acquire_spinlock() and release_spinlock() demand, also when a CPU
\* that is inside parks or panics.
LockExcludes ==
    ~panicking =>
        /\ \A c, d \in CPU :
            sp[c] \in {"got", "in", "drop"} /\ sp[d] \in {"got", "in", "drop"} => c = d
        /\ \A c \in CPU :
            /\ sp[c] = "in" => holding_spinlock(c)
            /\ sp[c] = "out" /\ pc[c] \notin {"stop_others", "parked"} => ~holding_spinlock(c)

Reporting(c) == pc[c] \in {"stop_others", "report", "report_done"}

\* However many CPUs panic, one reports.
OneReporter == \A c, d \in CPU : Reporting(c) /\ Reporting(d) => c = d

\* A panic gets its message out, whoever holds the locks it needs, and every CPU
\* comes to rest, whether it was running, holding the lock, spinning for it, starting
\* up or panicking itself.
PanicEnds ==
    panic_cpu # NULL ~> reported /\ \A c \in CPU : pc[c] \in {"parked", "off"}
=============================================================================

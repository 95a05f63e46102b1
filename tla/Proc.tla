-------------------------------- MODULE Proc --------------------------------
(***************************************************************************)
(* The process table and the scheduler: src/kern/proc.c, with the two      *)
(* places in src/arch/trap.c where a process enters and leaves it.         *)
(*                                                                         *)
(* Every CPU runs either its scheduler() loop or the kernel code of one    *)
(* process.  A step runs from one lock acquisition to the next: acquiring  *)
(* wait_lock, ptable_lock or a p->lock is a step of its own, a release is  *)
(* part of the step before it.  runq_lock and pid_lock are leaf locks held *)
(* for one queue or bitmap operation, so that operation is one step.       *)
(*                                                                         *)
(* System calls run with IRQs masked from the exception entry to the eret  *)
(* (irq_enable() is called by scheduler() and by pop_off() only), so a     *)
(* process is preempted in user mode and nowhere else.                     *)
(***************************************************************************)
EXTENDS Runq, FiniteSets

CONSTANTS
    Cpu,        \* the CPUs that entered scheduler()
    Proc,       \* the struct proc objects proc_cache can hand out
    initproc,   \* the object userinit() took
    NULL

ASSUME InitprocAssumption == initproc \in Proc
ASSUME NullAssumption == NULL \notin Cpu \cup Proc

VARIABLES
    state,      \* p->state
    chan,       \* p->chan
    killed,     \* p->killed
    parent,     \* p->parent
    pagetable,  \* p->pagetable # NULL
    pc,         \* where p's kernel code continues
    arg,        \* the proc that code is working on: np, the victim, a channel
    todo,       \* procs its LIST_FOREACH over allproc has not visited yet
    allproc,    \* the published procs (allproc and pidhash)
    runq,       \* the FIFO of RUNNABLE procs
    cpuProc,    \* cpus[c].proc
    cand,       \* the variable p of scheduler() on CPU c
    ttbr,       \* the proc whose table TTBR0 of CPU c holds, NULL = reserved
    plock,      \* p->lock: the CPU holding it, or NULL
    waitLock,   \* wait_lock
    ptableLock  \* ptable_lock

procVars == <<state, chan, killed, parent, pagetable>>
codeVars == <<pc, arg, todo>>
cpuVars  == <<cpuProc, cand, ttbr>>
lockVars == <<plock, waitLock, ptableLock>>
vars == <<procVars, codeVars, cpuVars, lockVars, allproc, runq>>

States == {"UNUSED", "USED", "SLEEPING", "RUNNABLE", "RUNNING", "ZOMBIE"}

\* The points between two steps of a process's code.  The *_sched points are
\* inside sched(), before swtch(); the process has p->lock there.
SchedPoints == {"yield_sched", "sleep_sched", "exit_sched"}

\* The points at which swtch() returns into the process, with p->lock held.
ResumePoints == {"forkret", "yield_ret", "sleep_ret"}

Points == SchedPoints \cup ResumePoints \cup
    {"user", "trapret", "panic", "dead",
     "fork_wait", "fork_ptable", "fork_activate",
     "exit_wait", "exit_reparent", "exit_wakeup", "wakeup_scan", "exit_zombie",
     "wait_lock", "wait_ptable", "wait_scan", "wait_free", "wait_killed",
     "wait_sleep", "kill_lock"}

\* One type invariant for the module's state.
TypeOK ==
    /\ state \in [Proc -> States]
    /\ chan \in [Proc -> Proc \cup {NULL}]
    /\ killed \in [Proc -> BOOLEAN]
    /\ parent \in [Proc -> Proc \cup {NULL}]
    /\ pagetable \in [Proc -> BOOLEAN]
    /\ pc \in [Proc -> Points]
    /\ arg \in [Proc -> Proc \cup {NULL}]
    /\ todo \in [Proc -> SUBSET Proc]
    /\ allproc \in SUBSET Proc
    /\ runq \in Seq(Proc)
    /\ cpuProc \in [Cpu -> Proc \cup {NULL}]
    /\ cand \in [Cpu -> Proc \cup {NULL}]
    /\ ttbr \in [Cpu -> Proc \cup {NULL}]
    /\ plock \in [Proc -> Cpu \cup {NULL}]
    /\ waitLock \in Cpu \cup {NULL}
    /\ ptableLock \in Cpu \cup {NULL}

\* userinit() has published init and every CPU enters scheduler().
Init ==
    /\ state = [p \in Proc |-> IF p = initproc THEN "RUNNABLE" ELSE "UNUSED"]
    /\ chan = [p \in Proc |-> NULL]
    /\ killed = [p \in Proc |-> FALSE]
    /\ parent = [p \in Proc |-> NULL]
    /\ pagetable = [p \in Proc |-> p = initproc]
    /\ pc = [p \in Proc |-> IF p = initproc THEN "forkret" ELSE "dead"]
    /\ arg = [p \in Proc |-> NULL]
    /\ todo = [p \in Proc |-> {}]
    /\ allproc = {initproc}
    /\ runq = <<initproc>>
    /\ cpuProc = [c \in Cpu |-> NULL]
    /\ cand = [c \in Cpu |-> NULL]
    /\ ttbr = [c \in Cpu |-> NULL]
    /\ plock = [p \in Proc |-> NULL]
    /\ waitLock = NULL
    /\ ptableLock = NULL

-----------------------------------------------------------------------------
(* scheduler() *)

\* Mutant: the youngest entry is taken.
DequeueLast(c) ==
    /\ cand[c] = NULL
    /\ runq # <<>>
    /\ cand' = [cand EXCEPT ![c] = runq[Len(runq)]]
    /\ runq' = SubSeq(runq, 1, Len(runq) - 1)
    /\ UNCHANGED <<procVars, codeVars, cpuProc, ttbr, lockVars, allproc>>

\* runq_dequeue(); with an empty queue the CPU waits in wfi().
Dequeue(c) ==
    /\ cand[c] = NULL
    /\ runq # <<>>
    /\ cand' = [cand EXCEPT ![c] = Head(runq)]
    /\ runq' = Tail(runq)
    /\ UNCHANGED <<procVars, codeVars, cpuProc, ttbr, lockVars, allproc>>

\* Take p->lock, recheck the state and swtch() to the process, which goes on
\* with p->lock held.  A proc that is not RUNNABLE is dropped.
Dispatch(c) ==
    LET p == cand[c] IN
    /\ p # NULL
    /\ cpuProc[c] = NULL
    /\ plock[p] = NULL
    /\ IF state[p] = "RUNNABLE"
       THEN /\ state' = [state EXCEPT ![p] = "RUNNING"]
            /\ cpuProc' = [cpuProc EXCEPT ![c] = p]
            /\ ttbr' = [ttbr EXCEPT ![c] = IF pagetable[p] THEN p ELSE @]
            /\ plock' = [plock EXCEPT ![p] = c]
            /\ UNCHANGED cand
       ELSE /\ cand' = [cand EXCEPT ![c] = NULL]
            /\ UNCHANGED <<state, cpuProc, ttbr, plock>>
    /\ UNCHANGED <<chan, killed, parent, pagetable, codeVars, waitLock,
                   ptableLock, allproc, runq>>

\* The code after swtch() in a process that sched() left.
ResumePoint(point) ==
    IF point = "yield_sched" THEN "yield_ret"
    ELSE IF point = "sleep_sched" THEN "sleep_ret" ELSE "dead"

\* Mutant: a process that yielded is not requeued.
SwitchBackNoRequeue(c) ==
    LET p == cpuProc[c] IN
    /\ p # NULL
    /\ pc[p] \in SchedPoints
    /\ pc' = [pc EXCEPT ![p] = ResumePoint(pc[p])]
    /\ cpuProc' = [cpuProc EXCEPT ![c] = NULL]
    /\ cand' = [cand EXCEPT ![c] = NULL]
    /\ ttbr' = [ttbr EXCEPT ![c] = NULL]
    /\ plock' = [plock EXCEPT ![p] = NULL]
    /\ UNCHANGED <<procVars, arg, todo, waitLock, ptableLock, allproc, runq>>

\* swtch() returns into scheduler(): forget the process, put the reserved
\* table in TTBR0, requeue a process that yielded and drop its lock.
SwitchBack(c) ==
    LET p == cpuProc[c] IN
    /\ p # NULL
    /\ pc[p] \in SchedPoints
    /\ pc' = [pc EXCEPT ![p] = ResumePoint(pc[p])]
    /\ cpuProc' = [cpuProc EXCEPT ![c] = NULL]
    /\ cand' = [cand EXCEPT ![c] = NULL]
    /\ ttbr' = [ttbr EXCEPT ![c] = NULL]
    /\ runq' = IF state[p] = "RUNNABLE" THEN Append(runq, p) ELSE runq
    /\ plock' = [plock EXCEPT ![p] = NULL]
    /\ UNCHANGED <<procVars, arg, todo, waitLock, ptableLock, allproc>>

-----------------------------------------------------------------------------
(* Entering and leaving a process *)

\* CPU c runs process p, which has reached the point named.
At(c, p, point) == cpuProc[c] = p /\ pc[p] = point

Goto(p, point) == pc' = [pc EXCEPT ![p] = point]

\* forkret() of a new process: drop p->lock, usertrapret().
Forkret(c, p) ==
    /\ At(c, p, "forkret")
    /\ Goto(p, "user")
    /\ plock' = [plock EXCEPT ![p] = NULL]
    /\ UNCHANGED <<procVars, arg, todo, cpuVars, waitLock, ptableLock, allproc,
                   runq>>

\* trap_irq() from user mode with need_resched set: yield() up to sched().
Yield(c, p) ==
    /\ At(c, p, "user")
    /\ plock[p] = NULL
    /\ plock' = [plock EXCEPT ![p] = c]
    /\ state' = [state EXCEPT ![p] = "RUNNABLE"]
    /\ Goto(p, "yield_sched")
    /\ UNCHANGED <<chan, killed, parent, pagetable, arg, todo, cpuVars,
                   waitLock, ptableLock, allproc, runq>>

\* yield() after sched(), and the eret of the interrupted process.
YieldRet(c, p) ==
    /\ At(c, p, "yield_ret")
    /\ Goto(p, "user")
    /\ plock' = [plock EXCEPT ![p] = NULL]
    /\ UNCHANGED <<procVars, arg, todo, cpuVars, waitLock, ptableLock, allproc,
                   runq>>

\* exit() before its first lock: init panics, any other process frees its
\* page table.
ExitStart(p) ==
    IF p = initproc
    THEN Goto(p, "panic") /\ UNCHANGED pagetable
    ELSE Goto(p, "exit_wait") /\ pagetable' = [pagetable EXCEPT ![p] = FALSE]

\* panic("init exiting"): the CPU is parked for good.
Panicked(c, p) ==
    /\ At(c, p, "panic")
    /\ UNCHANGED vars

\* The end of usertrap_sync() after a system call: exit(-1) when killed(p).
TrapRet(c, p) ==
    /\ At(c, p, "trapret")
    /\ plock[p] = NULL
    /\ IF killed[p] THEN ExitStart(p) ELSE Goto(p, "user") /\ UNCHANGED pagetable
    /\ UNCHANGED <<state, chan, killed, parent, arg, todo, cpuVars, lockVars,
                   allproc, runq>>

-----------------------------------------------------------------------------
(* fork() *)

\* allocproc(), uvmcreate() and uvmcopy() succeed: a private proc object.
ForkAlloc(c, p) ==
    /\ At(c, p, "user")
    /\ \E np \in Proc :
        /\ state[np] = "UNUSED"
        /\ state' = [state EXCEPT ![np] = "USED"]
        /\ chan' = [chan EXCEPT ![np] = NULL]
        /\ killed' = [killed EXCEPT ![np] = FALSE]
        /\ parent' = [parent EXCEPT ![np] = NULL]
        /\ pagetable' = [pagetable EXCEPT ![np] = TRUE]
        /\ pc' = [pc EXCEPT ![np] = "forkret", ![p] = "fork_wait"]
        /\ arg' = [arg EXCEPT ![p] = np]
    /\ UNCHANGED <<todo, cpuVars, lockVars, allproc, runq>>

\* One of the allocations fails and what was taken is given back; the system
\* calls that leave the process table alone come and go the same way.
ForkFail(c, p) ==
    /\ At(c, p, "user")
    /\ Goto(p, "trapret")
    /\ UNCHANGED <<procVars, arg, todo, cpuVars, lockVars, allproc, runq>>

ForkWaitLock(c, p) ==
    /\ At(c, p, "fork_wait")
    /\ waitLock = NULL
    /\ waitLock' = c
    /\ Goto(p, "fork_ptable")
    /\ UNCHANGED <<procVars, arg, todo, cpuVars, plock, ptableLock, allproc,
                   runq>>

\* proc_activate(): ptable_lock.
ForkPtableLock(c, p) ==
    /\ At(c, p, "fork_ptable")
    /\ ptableLock = NULL
    /\ ptableLock' = c
    /\ Goto(p, "fork_activate")
    /\ UNCHANGED <<procVars, arg, todo, cpuVars, plock, waitLock, allproc, runq>>

\* proc_activate(): np->lock, publish np and make it RUNNABLE; drop the locks.
ForkActivate(c, p) ==
    LET np == arg[p] IN
    /\ At(c, p, "fork_activate")
    /\ plock[np] = NULL
    /\ allproc' = allproc \cup {np}
    /\ parent' = [parent EXCEPT ![np] = p]
    /\ state' = [state EXCEPT ![np] = "RUNNABLE"]
    /\ runq' = Append(runq, np)
    /\ arg' = [arg EXCEPT ![p] = NULL]
    /\ ptableLock' = NULL
    /\ waitLock' = NULL
    /\ Goto(p, "trapret")
    /\ UNCHANGED <<chan, killed, pagetable, todo, cpuVars, plock>>

-----------------------------------------------------------------------------
(* wakeup(), as exit() calls it *)

\* ptable_lock, then every published proc but the caller is visited.
WakeupStart(c, p) ==
    /\ At(c, p, "exit_wakeup")
    /\ ptableLock = NULL
    /\ ptableLock' = c
    /\ todo' = [todo EXCEPT ![p] = allproc \ {p}]
    /\ Goto(p, "wakeup_scan")
    /\ UNCHANGED <<procVars, arg, cpuVars, plock, waitLock, allproc, runq>>

\* Mutant: a proc whose lock is taken is passed over.
WakeupVisitTrylock(c, p) ==
    /\ At(c, p, "wakeup_scan")
    /\ \E q \in todo[p] :
        /\ todo' = [todo EXCEPT ![p] = @ \ {q}]
        /\ IF plock[q] = NULL /\ state[q] = "SLEEPING" /\ chan[q] = arg[p]
           THEN /\ state' = [state EXCEPT ![q] = "RUNNABLE"]
                /\ runq' = Append(runq, q)
           ELSE UNCHANGED <<state, runq>>
    /\ UNCHANGED <<chan, killed, parent, pagetable, pc, arg, cpuVars, lockVars,
                   allproc>>

\* q->lock; a proc SLEEPING on the channel becomes RUNNABLE and is queued.
WakeupVisit(c, p) ==
    /\ At(c, p, "wakeup_scan")
    /\ \E q \in todo[p] :
        /\ plock[q] = NULL
        /\ todo' = [todo EXCEPT ![p] = @ \ {q}]
        /\ IF state[q] = "SLEEPING" /\ chan[q] = arg[p]
           THEN /\ state' = [state EXCEPT ![q] = "RUNNABLE"]
                /\ runq' = Append(runq, q)
           ELSE UNCHANGED <<state, runq>>
    /\ UNCHANGED <<chan, killed, parent, pagetable, pc, arg, cpuVars, lockVars,
                   allproc>>

\* The walk is over.  exit() calls wakeup(initproc) first, then
\* wakeup(p->parent) unless the parent is NULL or init.
WakeupEnd(c, p) ==
    LET again == arg[p] = initproc /\ parent[p] \notin {NULL, initproc} IN
    /\ At(c, p, "wakeup_scan")
    /\ todo[p] = {}
    /\ ptableLock' = NULL
    /\ arg' = [arg EXCEPT ![p] = IF again THEN parent[p] ELSE NULL]
    /\ Goto(p, IF again THEN "exit_wakeup" ELSE "exit_zombie")
    /\ UNCHANGED <<procVars, todo, cpuVars, plock, waitLock, allproc, runq>>

-----------------------------------------------------------------------------
(* exit() *)

\* SYS_exit, or a fault in user mode.
ExitCall(c, p) ==
    /\ At(c, p, "user")
    /\ ExitStart(p)
    /\ UNCHANGED <<state, chan, killed, parent, arg, todo, cpuVars, lockVars,
                   allproc, runq>>

ExitWaitLock(c, p) ==
    /\ At(c, p, "exit_wait")
    /\ waitLock = NULL
    /\ waitLock' = c
    /\ Goto(p, "exit_reparent")
    /\ UNCHANGED <<procVars, arg, todo, cpuVars, plock, ptableLock, allproc,
                   runq>>

\* Under ptable_lock, give the children to init.
ExitReparent(c, p) ==
    /\ At(c, p, "exit_reparent")
    /\ ptableLock = NULL
    /\ parent' = [q \in Proc |->
                    IF q \in allproc /\ parent[q] = p THEN initproc ELSE parent[q]]
    /\ arg' = [arg EXCEPT ![p] = initproc]
    /\ Goto(p, "exit_wakeup")
    /\ UNCHANGED <<state, chan, killed, pagetable, todo, cpuVars, lockVars,
                   allproc, runq>>

\* Mutant: exit() enters sched() with wait_lock held.
ExitZombieKeepsWaitLock(c, p) ==
    /\ At(c, p, "exit_zombie")
    /\ plock[p] = NULL
    /\ plock' = [plock EXCEPT ![p] = c]
    /\ state' = [state EXCEPT ![p] = "ZOMBIE"]
    /\ Goto(p, "exit_sched")
    /\ UNCHANGED <<chan, killed, parent, pagetable, arg, todo, cpuVars,
                   waitLock, ptableLock, allproc, runq>>

\* p->lock, ZOMBIE, drop wait_lock and enter sched().
ExitZombie(c, p) ==
    /\ At(c, p, "exit_zombie")
    /\ plock[p] = NULL
    /\ plock' = [plock EXCEPT ![p] = c]
    /\ state' = [state EXCEPT ![p] = "ZOMBIE"]
    /\ waitLock' = NULL
    /\ Goto(p, "exit_sched")
    /\ UNCHANGED <<chan, killed, parent, pagetable, arg, todo, cpuVars,
                   ptableLock, allproc, runq>>

-----------------------------------------------------------------------------
(* wait() and sleep() *)

WaitLockFrom(c, p, point) ==
    /\ At(c, p, point)
    /\ waitLock = NULL
    /\ waitLock' = c
    /\ Goto(p, "wait_ptable")
    /\ UNCHANGED <<procVars, arg, todo, cpuVars, plock, ptableLock, allproc,
                   runq>>

\* wait() takes wait_lock.
WaitCall(c, p) == WaitLockFrom(c, p, "user")

\* sleep() takes wait_lock again for the woken process, which scans once more.
SleepRelock(c, p) == WaitLockFrom(c, p, "wait_lock")

\* ptable_lock; p->parent is stable under wait_lock, so the procs the walk
\* stops at are the children now.  Without children wait() returns -1.
WaitPtableLock(c, p) ==
    LET kids == {q \in allproc : parent[q] = p} IN
    /\ At(c, p, "wait_ptable")
    /\ ptableLock = NULL
    /\ IF kids = {}
       THEN /\ waitLock' = NULL
            /\ Goto(p, "trapret")
            /\ UNCHANGED <<todo, ptableLock>>
       ELSE /\ ptableLock' = c
            /\ todo' = [todo EXCEPT ![p] = kids]
            /\ Goto(p, "wait_scan")
            /\ UNCHANGED waitLock
    /\ UNCHANGED <<procVars, arg, cpuVars, plock, allproc, runq>>

\* np->lock of a child that is not a ZOMBIE.
WaitSkip(c, p) ==
    /\ At(c, p, "wait_scan")
    /\ \E np \in todo[p] :
        /\ plock[np] = NULL
        /\ state[np] # "ZOMBIE"
        /\ todo' = [todo EXCEPT ![p] = @ \ {np}]
    /\ UNCHANGED <<procVars, pc, arg, cpuVars, lockVars, allproc, runq>>

\* Mutant: the ZOMBIE is unlinked without waiting for np->lock.
WaitUnlinkUnlocked(c, p) ==
    /\ At(c, p, "wait_scan")
    /\ \E np \in todo[p] :
        /\ state[np] = "ZOMBIE"
        /\ allproc' = allproc \ {np}
        /\ arg' = [arg EXCEPT ![p] = np]
    /\ todo' = [todo EXCEPT ![p] = {}]
    /\ ptableLock' = NULL
    /\ Goto(p, "wait_free")
    /\ UNCHANGED <<procVars, cpuVars, plock, waitLock, runq>>

\* np->lock of a ZOMBIE: unlink it, drop np->lock and ptable_lock.
WaitUnlink(c, p) ==
    /\ At(c, p, "wait_scan")
    /\ \E np \in todo[p] :
        /\ plock[np] = NULL
        /\ state[np] = "ZOMBIE"
        /\ allproc' = allproc \ {np}
        /\ arg' = [arg EXCEPT ![p] = np]
    /\ todo' = [todo EXCEPT ![p] = {}]
    /\ ptableLock' = NULL
    /\ Goto(p, "wait_free")
    /\ UNCHANGED <<procVars, cpuVars, plock, waitLock, runq>>

\* The same, but copyout() of the status fails: return -1, nothing reaped.
WaitCopyoutFail(c, p) ==
    /\ At(c, p, "wait_scan")
    /\ \E np \in todo[p] : plock[np] = NULL /\ state[np] = "ZOMBIE"
    /\ todo' = [todo EXCEPT ![p] = {}]
    /\ ptableLock' = NULL
    /\ waitLock' = NULL
    /\ Goto(p, "trapret")
    /\ UNCHANGED <<procVars, arg, cpuVars, plock, allproc, runq>>

\* freeproc(np) and the return of its pid; the object is stale slab memory.
WaitFree(c, p) ==
    LET np == arg[p] IN
    /\ At(c, p, "wait_free")
    /\ state' = [state EXCEPT ![np] = "UNUSED"]
    /\ pagetable' = [pagetable EXCEPT ![np] = FALSE]
    /\ arg' = [arg EXCEPT ![p] = NULL]
    /\ waitLock' = NULL
    /\ Goto(p, "trapret")
    /\ UNCHANGED <<chan, killed, parent, todo, cpuVars, plock, ptableLock,
                   allproc, runq>>

\* No child was a ZOMBIE: drop ptable_lock.
WaitScanEnd(c, p) ==
    /\ At(c, p, "wait_scan")
    /\ todo[p] = {}
    /\ ptableLock' = NULL
    /\ Goto(p, "wait_killed")
    /\ UNCHANGED <<procVars, arg, todo, cpuVars, plock, waitLock, allproc, runq>>

\* Mutant: wait_lock is dropped before sleep() has p->lock.
WaitKilledDropsLock(c, p) ==
    /\ At(c, p, "wait_killed")
    /\ plock[p] = NULL
    /\ waitLock' = NULL
    /\ Goto(p, IF killed[p] THEN "trapret" ELSE "wait_sleep")
    /\ UNCHANGED <<procVars, arg, todo, cpuVars, plock, ptableLock, allproc,
                   runq>>

\* killed(p): take p->lock, read the flag, drop it; return -1 when set.
WaitKilled(c, p) ==
    /\ At(c, p, "wait_killed")
    /\ plock[p] = NULL
    /\ IF killed[p]
       THEN waitLock' = NULL /\ Goto(p, "trapret")
       ELSE Goto(p, "wait_sleep") /\ UNCHANGED waitLock
    /\ UNCHANGED <<procVars, arg, todo, cpuVars, plock, ptableLock, allproc,
                   runq>>

\* sleep(p, &wait_lock) up to sched(): p->lock first, then wait_lock is dropped.
Sleep(c, p) ==
    /\ At(c, p, "wait_sleep")
    /\ plock[p] = NULL
    /\ plock' = [plock EXCEPT ![p] = c]
    /\ waitLock' = NULL
    /\ chan' = [chan EXCEPT ![p] = p]
    /\ state' = [state EXCEPT ![p] = "SLEEPING"]
    /\ Goto(p, "sleep_sched")
    /\ UNCHANGED <<killed, parent, pagetable, arg, todo, cpuVars, ptableLock,
                   allproc, runq>>

\* Mutant: sleep() takes wait_lock again before it drops p->lock.
SleepRetKeepsLock(c, p) ==
    /\ At(c, p, "sleep_ret")
    /\ chan' = [chan EXCEPT ![p] = NULL]
    /\ Goto(p, "wait_lock")
    /\ UNCHANGED <<state, killed, parent, pagetable, arg, todo, cpuVars,
                   lockVars, allproc, runq>>

\* sleep() after sched(): clear the channel, drop p->lock.
SleepRet(c, p) ==
    /\ At(c, p, "sleep_ret")
    /\ chan' = [chan EXCEPT ![p] = NULL]
    /\ plock' = [plock EXCEPT ![p] = NULL]
    /\ Goto(p, "wait_lock")
    /\ UNCHANGED <<state, killed, parent, pagetable, arg, todo, cpuVars,
                   waitLock, ptableLock, allproc, runq>>

-----------------------------------------------------------------------------
(* kill() *)

\* ptable_lock and pid_lookup().
KillLookup(c, p) ==
    /\ At(c, p, "user")
    /\ ptableLock = NULL
    /\ \E q \in allproc : arg' = [arg EXCEPT ![p] = q]
    /\ ptableLock' = c
    /\ Goto(p, "kill_lock")
    /\ UNCHANGED <<procVars, todo, cpuVars, plock, waitLock, allproc, runq>>

\* pid_lookup() finds no such process: return -1.
KillNoSuch(c, p) ==
    /\ At(c, p, "user")
    /\ ptableLock = NULL
    /\ Goto(p, "trapret")
    /\ UNCHANGED <<procVars, arg, todo, cpuVars, lockVars, allproc, runq>>

\* Mutant: the victim is queued whatever its state.
KillAlwaysQueues(c, p) ==
    LET q == arg[p] IN
    /\ At(c, p, "kill_lock")
    /\ plock[q] = NULL
    /\ killed' = [killed EXCEPT ![q] = TRUE]
    /\ runq' = Append(runq, q)
    /\ state' = [state EXCEPT ![q] = "RUNNABLE"]
    /\ arg' = [arg EXCEPT ![p] = NULL]
    /\ ptableLock' = NULL
    /\ Goto(p, "trapret")
    /\ UNCHANGED <<chan, parent, pagetable, todo, cpuVars, plock, waitLock,
                   allproc>>

\* The victim's lock: flag it and wake it from any sleep; drop both locks.
Kill(c, p) ==
    LET q == arg[p] IN
    /\ At(c, p, "kill_lock")
    /\ plock[q] = NULL
    /\ killed' = [killed EXCEPT ![q] = TRUE]
    /\ IF state[q] = "SLEEPING"
       THEN /\ state' = [state EXCEPT ![q] = "RUNNABLE"]
            /\ runq' = Append(runq, q)
       ELSE UNCHANGED <<state, runq>>
    /\ arg' = [arg EXCEPT ![p] = NULL]
    /\ ptableLock' = NULL
    /\ Goto(p, "trapret")
    /\ UNCHANGED <<chan, parent, pagetable, todo, cpuVars, plock, waitLock,
                   allproc>>

-----------------------------------------------------------------------------
SchedulerStep(c) == Dequeue(c) \/ Dispatch(c) \/ SwitchBack(c)

\* What the process does whatever it is running: the way back from the kernel.
ReturnStep(c, p) ==
    Forkret(c, p) \/ YieldRet(c, p) \/ TrapRet(c, p) \/ Panicked(c, p)

ForkStep(c, p) ==
    ForkWaitLock(c, p) \/ ForkPtableLock(c, p) \/ ForkActivate(c, p)

ExitStep(c, p) ==
    \/ ExitWaitLock(c, p) \/ ExitReparent(c, p) \/ ExitZombie(c, p)
    \/ WakeupStart(c, p) \/ WakeupVisit(c, p) \/ WakeupEnd(c, p)

WaitStep(c, p) ==
    \/ WaitPtableLock(c, p) \/ WaitSkip(c, p) \/ WaitUnlink(c, p)
    \/ WaitCopyoutFail(c, p) \/ WaitFree(c, p) \/ WaitScanEnd(c, p)
    \/ WaitKilled(c, p) \/ Sleep(c, p) \/ SleepRet(c, p) \/ SleepRelock(c, p)

\* The kernel code of a process, once it was entered.
KernelStep(c, p) ==
    \/ ReturnStep(c, p) \/ ForkStep(c, p) \/ ExitStep(c, p) \/ WaitStep(c, p)
    \/ Kill(c, p)

\* What user code makes a process do.
UserStep(c, p) ==
    \/ ExitCall(c, p) \/ ForkAlloc(c, p) \/ ForkFail(c, p) \/ WaitCall(c, p)
    \/ KillLookup(c, p) \/ KillNoSuch(c, p)

ProcStep(c, p) == KernelStep(c, p) \/ UserStep(c, p) \/ Yield(c, p)

Next == \E c \in Cpu : SchedulerStep(c) \/ \E p \in Proc : ProcStep(c, p)

Spec == Init /\ [][Next]_vars

\* What CPU c does in the kernel; at any time it has at most one such step.
CpuStep(c) == SchedulerStep(c) \/ \E p \in Proc \cap {cpuProc[c]} : KernelStep(c, p)

Preempt(c) == \E p \in Proc \cap {cpuProc[c]} : Yield(c, p)

\* A CPU in the kernel keeps executing, and when it spins for a lock which is
\* free again and again it gets the lock in the end; the timer preempts user
\* code for ever.
Fairness ==
    \A c \in Cpu : SF_vars(CpuStep(c)) /\ SF_vars(Preempt(c))

FairSpec == Spec /\ Fairness

-----------------------------------------------------------------------------
(* Properties *)

\* The locks of the documented order that CPU c holds: wait_lock is 1,
\* ptable_lock 2 and any p->lock 3.
HeldRanks(c) ==
    {r \in 1..3 : \/ r = 1 /\ waitLock = c
                  \/ r = 2 /\ ptableLock = c
                  \/ r = 3 /\ \E p \in Proc : plock[p] = c}

\* The lock that CPU c spins for next, 4 when it is not about to take one.
WantedRank(c) ==
    LET p == cpuProc[c] IN
    IF p = NULL THEN IF cand[c] = NULL THEN 4 ELSE 3
    ELSE IF pc[p] \in {"fork_wait", "exit_wait", "wait_lock"} THEN 1
    ELSE IF pc[p] \in {"fork_ptable", "exit_reparent", "exit_wakeup",
                       "wait_ptable"} THEN 2
    ELSE IF pc[p] \in {"trapret", "fork_activate", "exit_zombie", "wait_killed",
                       "wait_sleep", "kill_lock", "wakeup_scan", "wait_scan"} THEN 3
    ELSE 4

\* The lock order at the head of proc.c, wait_lock -> ptable_lock -> p->lock,
\* is kept on every path: a CPU spinning for a lock holds only locks before it,
\* so no set of CPUs waits in a circle and none spins for a lock it has.
LockOrder == \A c \in Cpu : \A r \in HeldRanks(c) : r < WantedRank(c)

\* A process never runs on two CPUs, and a CPU that picked it from the run
\* queue is the only one that did: yield(), wakeup() and kill() may not hand
\* it to a second CPU while the first is still on its kernel stack.
RunsOnce ==
    \A c, d \in Cpu : cand[c] # NULL /\ cand[c] = cand[d] => c = d

\* The three places a process can be run from: the run queue, the hands of a
\* scheduler() that took it from there, and the sched() of its own yield().
InHand(p) == \E c \in Cpu : cand[c] = p /\ cpuProc[c] = NULL
Yielding(p) == \E c \in Cpu : At(c, p, "yield_sched")

\* A process is RUNNABLE exactly when it is in one of the three places, it is
\* in one of them only, and it is queued once.  So the recheck in scheduler()
\* ("only RUNNABLE procs are enqueued, be defensive") never drops a process,
\* and no wakeup() or kill() loses a process or queues it twice.
RunqExact ==
    /\ NoDuplicates(runq)
    /\ \A p \in Proc :
        /\ state[p] = "RUNNABLE" <=> OnQueue(runq, p) \/ InHand(p) \/ Yielding(p)
        /\ ~ (OnQueue(runq, p) /\ InHand(p))
        /\ ~ (OnQueue(runq, p) /\ Yielding(p))
        /\ ~ (InHand(p) /\ Yielding(p))

\* An object that freeproc() gave back, or that fork() has not published yet,
\* is not reachable: no CPU runs it, holds its lock or has its page table
\* installed, it is on no list and is nobody's parent.
FreeIsUnreachable ==
    \A p \in Proc : state[p] \in {"UNUSED", "USED"} =>
        /\ p \notin allproc
        /\ plock[p] = NULL
        /\ \A c \in Cpu : cand[c] # p /\ cpuProc[c] # p /\ ttbr[c] # p
        /\ \A i \in 1..Len(runq) : runq[i] # p
        /\ \A q \in allproc : parent[q] # p

\* The KASSERTs of sched(): the process holds its own p->lock and no other
\* (noff == 1), and it is not RUNNING any more.
SchedHoldsOnlyOwnLock ==
    \A c \in Cpu : \A p \in Proc :
        cpuProc[c] = p /\ pc[p] \in SchedPoints =>
            /\ {q \in Proc : plock[q] = c} = {p}
            /\ waitLock # c /\ ptableLock # c
            /\ state[p] # "RUNNING"

\* No wakeup is lost between exit() and wait(): while wait_lock is free, a
\* process asleep in wait() has a child and none of its children is a ZOMBIE.
NoLostExit ==
    \A p \in Proc :
        waitLock = NULL /\ state[p] = "SLEEPING" =>
            /\ \E q \in allproc : parent[q] = p
            /\ \A q \in allproc : parent[q] = p => state[q] # "ZOMBIE"

\* panic("init exiting") stops the machine, and every promise with it.
Halted == pc[initproc] = "panic"

\* A RUNNABLE process gets a CPU.
GetsCpu(p) == state[p] = "RUNNABLE" ~> state[p] = "RUNNING" \/ Halted

\* The points inside wait().
InWait(p) == pc[p] \in {"wait_lock", "wait_ptable", "wait_scan", "wait_free",
                        "wait_killed", "wait_sleep", "sleep_sched", "sleep_ret"}

\* A process in wait() with a child that is a ZOMBIE comes out of it.
LeavesWait(p) ==
    InWait(p) /\ (\E q \in allproc : parent[q] = p /\ state[q] = "ZOMBIE")
        ~> ~InWait(p) \/ Halted

=============================================================================

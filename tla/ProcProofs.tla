---------------------------- MODULE ProcProofs ------------------------------
(***************************************************************************)
(* Theorems about Proc for any number of CPUs and process objects: the     *)
(* remaining steps preserve the invariant, and what follows from it.       *)
(***************************************************************************)
EXTENDS ProcInv

\* Panicked keeps the invariant.
LEMMA PanickedStep ==
    ASSUME CoreInv, NEW c \in Cpu, NEW p \in Proc, Panicked(c, p)
    PROVE  CoreInv'
  BY Stutter DEF Panicked

\* WaitSkip keeps the invariant.
LEMMA WaitSkipStep ==
    ASSUME CoreInv, NEW c \in Cpu, NEW p \in Proc, WaitSkip(c, p)
    PROVE  CoreInv'
<1> USE NullAssumption
    DEF CoreInv, TypeOK, Points, SchedPoints, ResumePoints
<1>0. /\ cpuProc[c] = p /\ pc[p] = "wait_scan"
      /\ todo' \in [Proc -> SUBSET Proc]
      /\ UNCHANGED <<state, chan, killed, parent, pagetable, pc, arg, cpuProc,
                     cand, ttbr, plock, waitLock, ptableLock, allproc, runq>>
  BY DEF WaitSkip, At, procVars, cpuVars, lockVars
<1>1. TypeOK'
  BY <1>0, Zenon DEF States
<1>2. PlaceInv'
  <2>1. pc' = [pc EXCEPT ![p] = "wait_scan"]
    BY <1>0, Zenon
  <2>2. QED
    BY <1>0, <2>1, Move, Zenon DEF OwnLockPoints
<1>3. LocksInv'
  BY <1>0, Zenon DEF LocksInv, WaitLockInv, PtableLockInv, IdleInv
<1>4. ArgInv'
  BY <1>0, Zenon DEF ArgInv, ForkInv, ReapInv, KillInv
<1>5. QED
  BY <1>1, <1>2, <1>3, <1>4, Zenon DEF PlaceInv, LocksInv, ArgInv

\* WakeupVisit keeps the invariant.
LEMMA WakeupVisitStep ==
    ASSUME CoreInv, NEW c \in Cpu, NEW p \in Proc, WakeupVisit(c, p)
    PROVE  CoreInv'
<1> USE NullAssumption
    DEF CoreInv, TypeOK, Points, SchedPoints, ResumePoints
<1>0. /\ cpuProc[c] = p /\ pc[p] = "wakeup_scan"
      /\ todo' \in [Proc -> SUBSET Proc]
      /\ UNCHANGED <<chan, killed, parent, pagetable, pc, arg, cpuProc, cand, ttbr,
                     plock, waitLock, ptableLock, allproc>>
  BY DEF WakeupVisit, At, cpuVars, lockVars
<1>1. PICK q \in Proc :
        /\ plock[q] = NULL
        /\ \/ /\ state[q] = "SLEEPING"
              /\ state' = [state EXCEPT ![q] = "RUNNABLE"]
              /\ runq' = Append(runq, q)
           \/ UNCHANGED <<state, runq>>
  BY SMTT(20) DEF WakeupVisit
<1>2. CASE UNCHANGED <<state, runq>>
  <2>1. pc' = [pc EXCEPT ![p] = "wakeup_scan"]
    BY <1>0, Zenon
  <2>2. PlaceInv'
    BY <1>0, <1>2, <2>1, Move, Zenon DEF OwnLockPoints
  <2>3. QED
    BY <1>0, <1>2, <2>2, Zenon
       DEF PlaceInv, WaitLockInv, PtableLockInv, IdleInv, ForkInv, ReapInv,
           KillInv, States
<1>3. CASE /\ state[q] = "SLEEPING"
           /\ state' = [state EXCEPT ![q] = "RUNNABLE"]
           /\ runq' = Append(runq, q)
  <2>1. PlaceInv'
    <3>1. /\ pc' = [pc EXCEPT ![p] = "wakeup_scan"]
          /\ "wakeup_scan" \in Points \ OwnLockPoints
          /\ pc[p] \notin OwnLockPoints
      BY <1>0 DEF OwnLockPoints
    <3>2. plock[q] = NULL
      BY <1>1, Zenon
    <3>3. QED
      BY <1>0, <1>3, <3>1, <3>2, WakeSleeper, Zenon
  <2>2. TypeOK'
    <3>1. runq' \in Seq(Proc)
      BY <1>3, Enqueue, Zenon
    <3>2. QED
      BY <1>0, <1>3, <3>1, Zenon DEF States
  <2>3. LocksInv'
    BY <1>0, Zenon DEF LocksInv, WaitLockInv, PtableLockInv, IdleInv
  <2>4. ArgInv'
    BY <1>0, <1>3, Zenon DEF ArgInv, ForkInv, ReapInv, KillInv
  <2>5. QED
    BY <2>1, <2>2, <2>3, <2>4, Zenon DEF PlaceInv, LocksInv, ArgInv
<1>4. QED
  BY <1>1, <1>2, <1>3, Zenon

\* Kill keeps the invariant.
LEMMA KillStep ==
    ASSUME CoreInv, NEW c \in Cpu, NEW p \in Proc, Kill(c, p)
    PROVE  CoreInv'
<1> USE NullAssumption
    DEF CoreInv, TypeOK, Points, SchedPoints, ResumePoints
<1> DEFINE q == arg[p]
<1>0. /\ cpuProc[c] = p /\ pc[p] = "kill_lock" /\ plock[q] = NULL
      /\ pc' = [pc EXCEPT ![p] = "trapret"]
      /\ arg' = [arg EXCEPT ![p] = NULL]
      /\ ptableLock' = NULL
      /\ UNCHANGED <<chan, parent, pagetable, todo, cpuProc, cand, ttbr, plock,
                     waitLock, allproc>>
      /\ \/ /\ state[q] = "SLEEPING"
            /\ state' = [state EXCEPT ![q] = "RUNNABLE"]
            /\ runq' = Append(runq, q)
         \/ UNCHANGED <<state, runq>>
  BY Zenon DEF Kill, At, Goto, cpuVars
<1>1. q \in Proc
  BY <1>0, Zenon DEF KillInv
<1> HIDE DEF q
<1>2. killed' \in [Proc -> BOOLEAN]
  BY <1>1, Zenon DEF Kill, q
<1>3. TypeOK'
  <2>1. Append(runq, q) \in Seq(Proc)
    BY <1>1, Enqueue, Zenon
  <2>2. QED
    BY <1>0, <1>1, <1>2, <2>1, Zenon DEF States
<1>4. PlaceInv'
  <2>1. CASE UNCHANGED <<state, runq>>
    BY <1>0, <2>1, Move, Zenon DEF OwnLockPoints
  <2>2. CASE ~UNCHANGED <<state, runq>>
    <3>1. /\ state[q] = "SLEEPING"
          /\ state' = [state EXCEPT ![q] = "RUNNABLE"]
          /\ runq' = Append(runq, q)
      BY <1>0, <2>2, Zenon
    <3>2. QED
      BY <1>0, <1>1, <3>1, WakeSleeper, Zenon DEF OwnLockPoints
  <2>3. QED
    BY <2>1, <2>2, Zenon
<1>5. LocksInv'
  BY <1>0 DEF LocksInv, WaitLockInv, PtableLockInv, IdleInv, WaitLockPoints,
         PtableLockPoints, CpuInv, RunsOnce
<1>6. ArgInv'
  BY <1>0, <1>1 DEF ArgInv, ForkInv, ReapInv, KillInv, ForkPoints
<1>7. QED
  BY <1>3, <1>4, <1>5, <1>6, Zenon DEF PlaceInv, LocksInv, ArgInv

\* WaitFree keeps the invariant.
LEMMA WaitFreeStep ==
    ASSUME CoreInv, NEW c \in Cpu, NEW p \in Proc, WaitFree(c, p)
    PROVE  CoreInv'
<1> USE NullAssumption
    DEF CoreInv, TypeOK, Points, SchedPoints, ResumePoints
<1> DEFINE np == arg[p]
<1>0. /\ cpuProc[c] = p /\ pc[p] = "wait_free"
      /\ pc' = [pc EXCEPT ![p] = "trapret"]
      /\ state' = [state EXCEPT ![np] = "UNUSED"]
      /\ arg' = [arg EXCEPT ![p] = NULL]
      /\ waitLock' = NULL
      /\ UNCHANGED <<chan, killed, parent, todo, cpuProc, cand, ttbr, plock,
                     ptableLock, allproc, runq>>
  BY Zenon DEF WaitFree, At, Goto, cpuVars
<1>1. np \in Proc /\ state[np] = "ZOMBIE" /\ pc[np] = "dead"
  BY <1>0, Zenon DEF ReapInv
<1>2. TypeOK'
  BY <1>0, <1>1 DEF WaitFree, States
<1> HIDE DEF np
<1>3. ~Running(np) /\ np # p
  BY <1>0, <1>1, Zenon DEF OnCpuInv
<1>4. CpuInv' /\ PlockInv'
  BY <1>0 DEF CpuInv, RunsOnce, PlockInv, OwnLockPoints
<1>5. OnCpuInv'
  BY <1>0, <1>3 DEF OnCpuInv, Running
<1>6. OffCpuInv'
  BY <1>0, <1>1, <1>3 DEF OffCpuInv, Running
<1>7. RunqExact'
  <2>1. \A q \in Proc : /\ Yielding(q)' <=> Yielding(q)
                        /\ InHand(q)' <=> InHand(q)
    BY <1>0, Zenon DEF Yielding, At, InHand
  <2>2. \A q \in Proc : state'[q] = "RUNNABLE" <=> state[q] = "RUNNABLE"
    BY <1>0, <1>1, Zenon
  <2>3. QED
    BY <1>0, <2>1, <2>2, Zenon DEF RunqExact
<1>8. LocksInv'
  BY <1>0 DEF LocksInv, WaitLockInv, PtableLockInv, IdleInv, WaitLockPoints,
         PtableLockPoints, CpuInv, RunsOnce
<1>9. ArgInv'
  <2>1. ForkInv' /\ KillInv'
    BY <1>0, <1>1 DEF ForkInv, KillInv, ForkPoints
  <2>2. ASSUME NEW q \in Proc, q # p PROVE pc[q] # "wait_free"
    <3>1. CASE Running(q)
      BY <1>0, <2>2, <3>1 DEF Running, WaitLockInv, WaitLockPoints
    <3>2. CASE ~Running(q)
      BY <3>2, Zenon DEF OffCpuInv, States
    <3>3. QED
      BY <3>1, <3>2, Zenon
  <2>3. ReapInv'
    BY <1>0, <2>2, Zenon DEF ReapInv
  <2>4. QED
    BY <2>1, <2>3, Zenon DEF ArgInv
<1>10. QED
  BY <1>2, <1>4, <1>5, <1>6, <1>7, <1>8, <1>9, Zenon DEF LocksInv, ArgInv

\* ForkAlloc keeps the invariant.
LEMMA ForkAllocStep ==
    ASSUME CoreInv, NEW c \in Cpu, NEW p \in Proc, ForkAlloc(c, p)
    PROVE  CoreInv'
<1> USE NullAssumption
    DEF CoreInv, TypeOK, Points, SchedPoints, ResumePoints
<1>0. /\ cpuProc[c] = p /\ pc[p] = "user"
      /\ UNCHANGED <<todo, cpuProc, cand, ttbr, plock, waitLock, ptableLock,
                     allproc, runq>>
  BY Zenon DEF ForkAlloc, At, cpuVars, lockVars
<1>1. PICK np \in Proc :
        /\ state[np] = "UNUSED"
        /\ state' = [state EXCEPT ![np] = "USED"]
        /\ chan' = [chan EXCEPT ![np] = NULL]
        /\ killed' = [killed EXCEPT ![np] = FALSE]
        /\ parent' = [parent EXCEPT ![np] = NULL]
        /\ pagetable' = [pagetable EXCEPT ![np] = TRUE]
        /\ pc' = [pc EXCEPT ![np] = "forkret", ![p] = "fork_wait"]
        /\ arg' = [arg EXCEPT ![p] = np]
  BY Zenon DEF ForkAlloc
<1>2. ~Running(np) /\ pc[np] = "dead" /\ np # p
  <2>1. ~Running(np)
    BY <1>1, Zenon DEF OnCpuInv
  <2>2. QED
    BY <1>0, <1>1, <2>1, Zenon DEF OffCpuInv
<1>3. TypeOK'
  <2>1. killed' \in [Proc -> BOOLEAN] /\ pagetable' \in [Proc -> BOOLEAN]
    BY <1>1, Zenon
  <2>2. QED
    BY <1>0, <1>1, <2>1, Zenon DEF States
<1>4. CpuInv'
  BY <1>0, Zenon DEF CpuInv, RunsOnce
<1>5. PlockInv'
  BY <1>0, <1>1, <1>2 DEF PlockInv, OwnLockPoints, Running
<1>6. OnCpuInv'
  BY <1>0, <1>1, <1>2 DEF OnCpuInv, Running
<1>7. OffCpuInv'
  BY <1>0, <1>1, <1>2 DEF OffCpuInv, Running
<1>8. RunqExact'
  <2>1. \A q \in Proc : /\ Yielding(q)' <=> Yielding(q)
                        /\ InHand(q)' <=> InHand(q)
    BY <1>0, <1>1, <1>2, Zenon DEF Yielding, At, InHand, Running
  <2>2. \A q \in Proc : state'[q] = "RUNNABLE" <=> state[q] = "RUNNABLE"
    BY <1>1, Zenon
  <2>3. QED
    BY <1>0, <2>1, <2>2, Zenon DEF RunqExact
<1>9. LocksInv'
  BY <1>0, <1>1, <1>2 DEF LocksInv, WaitLockInv, PtableLockInv, IdleInv,
     WaitLockPoints, PtableLockPoints, Running
<1>10. ArgInv'
  <2>1. \A q \in Proc : q # p => arg'[q] = arg[q] /\ (pc'[q] # "forkret" => pc'[q] = pc[q])
    BY <1>1, Zenon
  <2>2. arg'[p] = np /\ pc'[p] = "fork_wait" /\ pc'[np] = "forkret"
    BY <1>1, <1>2, Zenon
  <2>3. ForkInv'
    BY <1>1, <2>1, <2>2 DEF ForkInv, ForkPoints
  <2>4. ReapInv'
    BY <1>0, <1>1, <1>2, <2>1, <2>2 DEF ReapInv
  <2>5. KillInv'
    BY <1>1, <2>1, <2>2, Zenon DEF KillInv
  <2>6. QED
    BY <2>3, <2>4, <2>5, Zenon DEF ArgInv
<1>11. QED
  BY <1>3, <1>4, <1>5, <1>6, <1>7, <1>8, <1>9, <1>10 DEF LocksInv, ArgInv

\* ForkActivate keeps the invariant.
LEMMA ForkActivateStep ==
    ASSUME CoreInv, NEW c \in Cpu, NEW p \in Proc, ForkActivate(c, p)
    PROVE  CoreInv'
<1> USE NullAssumption
    DEF CoreInv, TypeOK, Points, SchedPoints, ResumePoints
<1> DEFINE np == arg[p]
<1>0. /\ cpuProc[c] = p /\ pc[p] = "fork_activate"
      /\ allproc' = allproc \cup {np}
      /\ parent' = [parent EXCEPT ![np] = p]
      /\ state' = [state EXCEPT ![np] = "RUNNABLE"]
      /\ runq' = Append(runq, np)
      /\ pc' = [pc EXCEPT ![p] = "trapret"]
      /\ arg' = [arg EXCEPT ![p] = NULL]
      /\ ptableLock' = NULL
      /\ waitLock' = NULL
      /\ UNCHANGED <<chan, killed, pagetable, todo, cpuProc, cand, ttbr, plock>>
  BY Zenon DEF ForkActivate, At, Goto, cpuVars
<1>1. np \in Proc /\ state[np] = "USED"
  BY <1>0, Zenon DEF ForkInv, ForkPoints
<1> HIDE DEF np
<1>2. ~Running(np) /\ pc[np] = "forkret" /\ np # p
  <2>1. ~Running(np)
    BY <1>1, Zenon DEF OnCpuInv
  <2>2. QED
    BY <1>0, <1>1, <2>1, Zenon DEF OffCpuInv
<1>3. TypeOK'
  <2>1. Append(runq, np) \in Seq(Proc)
    BY <1>1, Enqueue, Zenon
  <2>2. QED
    BY <1>0, <1>1, <2>1, Zenon DEF States
<1>4. CpuInv' /\ PlockInv'
  BY <1>0 DEF CpuInv, RunsOnce, PlockInv, OwnLockPoints
<1>5. OnCpuInv'
  BY <1>0, <1>2 DEF OnCpuInv, Running
<1>6. OffCpuInv'
  BY <1>0, <1>1, <1>2 DEF OffCpuInv, Running
<1>7. RunqExact'
  <2>1. \A q \in Proc : /\ Yielding(q)' <=> Yielding(q)
                        /\ InHand(q)' <=> InHand(q)
    BY <1>0, Zenon DEF Yielding, At, InHand
  <2>2. ~OnQueue(runq, np) /\ ~InHand(np) /\ ~Yielding(np)
    BY <1>1, Zenon DEF RunqExact
  <2>3. /\ \A q \in Proc : OnQueue(runq', q) <=> OnQueue(runq, q) \/ q = np
        /\ NoDuplicates(runq')
    BY <1>0, <1>1, <2>2, Enqueue, Zenon DEF RunqExact
  <2>4. QED
    BY <1>0, <1>1, <2>1, <2>2, <2>3 DEF RunqExact
<1>8. LocksInv'
  BY <1>0 DEF LocksInv, WaitLockInv, PtableLockInv, IdleInv, WaitLockPoints,
         PtableLockPoints, CpuInv, RunsOnce
<1>9. ArgInv'
  <2>1. ForkInv'
    BY <1>0, <1>1 DEF ForkInv, ForkPoints, np
  <2>2. ReapInv' /\ KillInv'
    BY <1>0, <1>1 DEF ReapInv, KillInv
  <2>3. QED
    BY <2>1, <2>2, Zenon DEF ArgInv
<1>10. QED
  BY <1>3, <1>4, <1>5, <1>6, <1>7, <1>8, <1>9 DEF LocksInv, ArgInv

-----------------------------------------------------------------------------
\* Every step keeps the invariant.
LEMMA NextCoreInv == CoreInv /\ [Next]_vars => CoreInv'
<1> SUFFICES ASSUME CoreInv, [Next]_vars PROVE CoreInv'
  OBVIOUS
<1>1. CASE UNCHANGED vars
  BY <1>1, Stutter
<1>2. ASSUME NEW c \in Cpu, SchedulerStep(c) PROVE CoreInv'
  BY <1>2, DequeueStep, DispatchStep, SwitchBackStep DEF SchedulerStep
<1>3. ASSUME NEW c \in Cpu, NEW p \in Proc, KernelStep(c, p) PROVE CoreInv'
  <2>1. CASE ReturnStep(c, p)
    BY <2>1, ForkretStep, YieldRetStep, TrapRetStep, PanickedStep, Zenon DEF ReturnStep
  <2>2. CASE ForkStep(c, p)
    BY <2>2, ForkWaitLockStep, ForkPtableLockStep, ForkActivateStep DEF ForkStep
  <2>3. CASE ExitStep(c, p)
    BY <2>3, ExitWaitLockStep, ExitReparentStep, ExitZombieStep, WakeupStartStep, Zenon,
       WakeupVisitStep, WakeupEndStep DEF ExitStep
  <2>4. CASE WaitStep(c, p)
    BY <2>4, WaitPtableLockStep, WaitSkipStep, WaitUnlinkStep, Zenon,
       WaitCopyoutFailStep, WaitFreeStep, WaitScanEndStep, WaitKilledStep,
       SleepStep, SleepRetStep, SleepRelockStep DEF WaitStep
  <2>5. QED
    BY <1>3, <2>1, <2>2, <2>3, <2>4, KillStep, Zenon DEF KernelStep
<1>4. ASSUME NEW c \in Cpu, NEW p \in Proc, UserStep(c, p) PROVE CoreInv'
  BY <1>4, ExitCallStep, ForkAllocStep, ForkFailStep, WaitCallStep, Zenon,
     KillLookupStep, KillNoSuchStep DEF UserStep
<1>5. QED
  BY <1>1, <1>2, <1>3, <1>4, YieldStep DEF Next, ProcStep

\* The inductive invariant holds in every reachable state.
THEOREM CoreInvariant == Spec => []CoreInv
<1>1. QED
  BY InitCoreInv, NextCoreInv, PTL DEF Spec

\* Every variable of the process table keeps its type, for any number of CPUs
\* and process objects.
THEOREM TypeCorrect == Spec => []TypeOK
<1>1. CoreInv => TypeOK
  BY DEF CoreInv
<1>2. QED
  BY <1>1, CoreInvariant, PTL

\* No process runs on two CPUs: scheduler(), yield(), sleep(), wakeup() and
\* kill() keep a process on one kernel stack.
THEOREM OneCpuPerProcess == Spec => []RunsOnce
<1>1. CoreInv => RunsOnce
  BY DEF CoreInv, CpuInv
<1>2. QED
  BY <1>1, CoreInvariant, PTL

\* The run queue holds the RUNNABLE processes, each once: no wakeup(), kill(),
\* fork() or yield() loses a process or queues it twice.
THEOREM RunQueueExact == Spec => []RunqExact
<1>1. CoreInv => RunqExact
  BY DEF CoreInv
<1>2. QED
  BY <1>1, CoreInvariant, PTL

\* The KASSERTs of sched() hold: it is entered with p->lock and nothing else.
THEOREM SchedAssertions == Spec => []SchedHoldsOnlyOwnLock
<1>1. CoreInv => SchedHoldsOnlyOwnLock
  <2> SUFFICES ASSUME CoreInv, NEW c \in Cpu, NEW p \in Proc,
                      cpuProc[c] = p, pc[p] \in SchedPoints
               PROVE  /\ {q \in Proc : plock[q] = c} = {p}
                      /\ waitLock # c /\ ptableLock # c
                      /\ state[p] # "RUNNING"
    BY Zenon DEF SchedHoldsOnlyOwnLock
  <2>1. \A q \in Proc : plock[q] = c <=> q = p
    BY DEF CoreInv, PlockInv, OwnLockPoints
  <2>2. waitLock # c /\ ptableLock # c
    BY Zenon DEF CoreInv, WaitLockInv, PtableLockInv, WaitLockPoints,
           PtableLockPoints, SchedPoints
  <2>3. state[p] # "RUNNING"
    BY Zenon DEF CoreInv, OnCpuInv, Running, SchedPoints
  <2>4. QED
    BY <2>1, <2>2, <2>3
<1>2. QED
  BY <1>1, CoreInvariant, PTL

\* The documented lock order wait_lock -> ptable_lock -> p->lock is kept on every
\* path through scheduler(), fork(), exit(), wait(), sleep(), wakeup() and kill().
THEOREM LockOrderKept == Spec => []LockOrder
<1>1. CoreInv => LockOrder
  <2> SUFFICES ASSUME CoreInv, NEW c \in Cpu, NEW r \in HeldRanks(c)
               PROVE  r < WantedRank(c)
    BY DEF LockOrder
  <2> USE NullAssumption DEF CoreInv, TypeOK
  <2>1. r \in 1..3
    BY Zenon DEF HeldRanks
  <2>2. CASE cpuProc[c] = NULL
    <3>1. \A p \in Proc : plock[p] # c
      BY <2>2 DEF PlockInv
    <3>2. QED
      BY <2>2, <3>1, Zenon DEF IdleInv, HeldRanks
  <2>3. CASE cpuProc[c] # NULL
    <3> DEFINE p == cpuProc[c]
    <3>1. p \in Proc
      BY <2>3, Zenon
    <3>2. /\ r = 1 => pc[p] \in WaitLockPoints
          /\ r = 2 => pc[p] \in PtableLockPoints
      BY <3>1 DEF HeldRanks, WaitLockInv, PtableLockInv
    <3>3. r = 3 => pc[p] \in OwnLockPoints
      BY <3>1 DEF HeldRanks, PlockInv
    <3>4. QED
      BY <2>1, <2>3, <3>1, <3>2, <3>3
         DEF WantedRank, WaitLockPoints, PtableLockPoints, OwnLockPoints,
             SchedPoints, ResumePoints
  <2>4. QED
    BY <2>2, <2>3, Zenon
<1>2. QED
  BY <1>1, CoreInvariant, PTL

-----------------------------------------------------------------------------
(***************************************************************************)
(* The invariant of the process tree: who is published, who has children,  *)
(* and what wait() and exit() know of them while they hold wait_lock.      *)
(***************************************************************************)

\* Free, private to fork(), or past the reparenting of exit().
Childless(p) ==
    \/ state[p] \in {"UNUSED", "USED"}
    \/ pc[p] \in {"exit_wakeup", "wakeup_scan", "exit_zombie", "exit_sched", "dead"}

TableInv ==
    /\ \A p \in Proc :
        state[p] \in {"RUNNABLE", "RUNNING", "SLEEPING"} => p \in allproc
    /\ \A p \in allproc : state[p] \notin {"UNUSED", "USED"}
    /\ \A p \in Proc : pc[p] = "wait_free" => arg[p] \notin allproc
    /\ \A p \in Proc : Childless(p) => \A q \in allproc : parent[q] # p

\* init never gets past the panic of exit().
InitprocInv ==
    ~Childless(initproc) /\ pc[initproc] \notin {"exit_wait", "exit_reparent"}

\* A CPU has the reserved table in TTBR0, or that of the process it runs.
TtbrInv == \A c \in Cpu : ttbr[c] # NULL => ttbr[c] = cpuProc[c]

\* A wait() that has found children, and has wait_lock since.
ScanPoints == {"wait_scan", "wait_killed", "wait_sleep"}

Scanning(p) ==
    pc[p] \in ScanPoints =>
        /\ \E q \in allproc : parent[q] = p
        /\ pc[p] = "wait_scan" => \A q \in todo[p] : q \in allproc /\ parent[q] = p
        /\ \A q \in allproc : parent[q] = p /\ state[q] = "ZOMBIE" =>
            pc[p] = "wait_scan" /\ q \in todo[p]

\* An exit() that is waking init, or the parent after init.
WakePoints == {"exit_wakeup", "wakeup_scan"}

Waking(p) ==
    /\ pc[p] \in WakePoints =>
        /\ arg[p] \in Proc
        /\ arg[p] # initproc => arg[p] = parent[p] /\ state[initproc] # "SLEEPING"
    /\ pc[p] = "wakeup_scan" => (state[arg[p]] = "SLEEPING" => arg[p] \in todo[p])
    /\ pc[p] = "exit_zombie" => (parent[p] # NULL => state[parent[p]] # "SLEEPING")

WakingInit == \E p \in Proc : pc[p] \in WakePoints /\ arg[p] = initproc

\* Whoever sleeps in wait() has children.  A ZOMBIE among them is one that init
\* was given by an exit() which has not finished waking init.
SleepInv ==
    \A p \in Proc : state[p] = "SLEEPING" =>
        /\ chan[p] = p
        /\ \E q \in allproc : parent[q] = p
        /\ \A q \in allproc : parent[q] = p /\ state[q] = "ZOMBIE" =>
            p = initproc /\ WakingInit

FamilyInv ==
    /\ TableInv /\ InitprocInv /\ TtbrInv /\ SleepInv
    /\ \A p \in Proc : Scanning(p) /\ Waking(p)

\* The state userinit() leaves satisfies it.
LEMMA InitFamilyInv == Init => FamilyInv
<1> SUFFICES ASSUME Init PROVE FamilyInv
  OBVIOUS
<1> USE InitprocAssumption, NullAssumption DEF Init
<1>1. TableInv /\ InitprocInv /\ TtbrInv
  BY Zenon DEF TableInv, InitprocInv, TtbrInv, Childless
<1>2. SleepInv /\ \A p \in Proc : Scanning(p) /\ Waking(p)
  BY Zenon DEF Scanning, Waking, SleepInv, ScanPoints, WakePoints
<1>3. QED
  BY <1>1, <1>2, Zenon DEF FamilyInv

\* A CPU that runs a process at a point of exit() or wait() at which wait_lock is
\* held is the only one that does.
LEMMA OneHolder ==
    ASSUME CoreInv, NEW p \in Proc, NEW q \in Proc,
           pc[p] \in WaitLockPoints, pc[q] \in WaitLockPoints
    PROVE  p = q /\ Running(p) /\ waitLock # NULL
<1>1. ASSUME NEW r \in Proc, pc[r] \in WaitLockPoints
      PROVE  \E c \in Cpu : cpuProc[c] = r /\ waitLock = c
  <2>1. Running(r)
    BY <1>1, Zenon
       DEF CoreInv, TypeOK, States, OffCpuInv, WaitLockPoints, ResumePoints
  <2>2. QED
    BY <1>1, <2>1, Zenon DEF CoreInv, WaitLockInv, Running
<1>2. QED
  BY <1>1, NullAssumption, Zenon DEF Running

\* A step that publishes and hides nobody, and takes nobody past exit().
LEMMA TableFrame ==
    ASSUME FamilyInv, TypeOK, UNCHANGED <<parent, allproc>>,
           \A q \in Proc : Childless(q)' => Childless(q),
           \A q \in Proc : state'[q] \in {"RUNNABLE", "RUNNING", "SLEEPING"} =>
                            state[q] \in {"RUNNABLE", "RUNNING", "SLEEPING"},
           \A q \in Proc : state'[q] \in {"UNUSED", "USED"} =>
                            state'[q] = state[q] \/ q \notin allproc,
           \A q \in Proc : pc'[q] = "wait_free" =>
                            pc[q] = "wait_free" /\ arg'[q] = arg[q]
    PROVE  TableInv'
<1>0. allproc \in SUBSET Proc /\ allproc' = allproc /\ parent' = parent
  BY Zenon DEF TypeOK
<1>1. \A p \in Proc : state'[p] \in {"RUNNABLE", "RUNNING", "SLEEPING"} => p \in allproc'
  BY <1>0, Zenon DEF FamilyInv, TableInv
<1>2. \A p \in allproc' : state'[p] \notin {"UNUSED", "USED"}
  BY <1>0, Zenon DEF FamilyInv, TableInv
<1>3. \A p \in Proc : pc'[p] = "wait_free" => arg'[p] \notin allproc'
  BY <1>0, Zenon DEF FamilyInv, TableInv
<1>4. \A p \in Proc : Childless(p)' => \A q \in allproc' : parent'[q] # p
  BY <1>0, Zenon DEF FamilyInv, TableInv
<1>5. QED
  BY <1>1, <1>2, <1>3, <1>4, Zenon DEF TableInv

\* A step after which nobody sleeps who did not sleep before, with the same
\* children, of which none has become a ZOMBIE.
LEMMA SleepFrame ==
    ASSUME FamilyInv, WakingInit => WakingInit',
           \A p \in Proc : state'[p] = "SLEEPING" =>
                /\ state[p] = "SLEEPING" /\ chan'[p] = chan[p]
                /\ \A q : q \in allproc' /\ parent'[q] = p <=> q \in allproc /\ parent[q] = p
                /\ \A q \in allproc : parent[q] = p /\ state'[q] = "ZOMBIE" =>
                                        state[q] = "ZOMBIE"
    PROVE  SleepInv'
<1> SUFFICES ASSUME NEW p \in Proc, state'[p] = "SLEEPING"
             PROVE  /\ chan'[p] = p
                    /\ \E q \in allproc' : parent'[q] = p
                    /\ \A q \in allproc' : parent'[q] = p /\ state'[q] = "ZOMBIE" =>
                            p = initproc /\ WakingInit'
  BY Zenon DEF SleepInv, WakingInit
<1>1. /\ chan[p] = p
      /\ \E q \in allproc : parent[q] = p
      /\ \A q \in allproc : parent[q] = p /\ state[q] = "ZOMBIE" =>
            p = initproc /\ WakingInit
  BY Zenon DEF FamilyInv, SleepInv
<1>2. /\ \A q : q \in allproc' /\ parent'[q] = p <=> q \in allproc /\ parent[q] = p
      /\ \A q \in allproc : parent[q] = p /\ state'[q] = "ZOMBIE" => state[q] = "ZOMBIE"
  BY Zenon
<1>3. \E q \in allproc' : parent'[q] = p
  BY <1>1, <1>2, Zenon
<1>4. \A q \in allproc' : parent'[q] = p /\ state'[q] = "ZOMBIE" =>
        p = initproc /\ WakingInit'
  BY <1>1, <1>2, Zenon
<1>5. QED
  BY <1>1, <1>3, <1>4, Zenon

\* A step after which nobody is at a point of wait() or exit() that they have just
\* reached, nobody has fallen asleep, died or been taken, and the lists are as
\* they were.
Calm ==
    /\ UNCHANGED <<parent, allproc>>
    /\ \A q \in Proc :
        /\ state'[q] \in {"SLEEPING", "ZOMBIE", "UNUSED", "USED"} => state'[q] = state[q]
        /\ state[q] \in {"ZOMBIE", "UNUSED", "USED"} => state'[q] = state[q]
        /\ state'[q] = "SLEEPING" => chan'[q] = chan[q]
        /\ pc'[q] \in ScanPoints \cup {"wait_free", "exit_zombie"} =>
            pc'[q] = pc[q] /\ arg'[q] = arg[q] /\ todo'[q] = todo[q]
        /\ pc'[q] \in WakePoints \/ pc[q] \in WakePoints =>
            pc'[q] = pc[q] /\ arg'[q] = arg[q] /\ todo'[q] = todo[q]
        /\ pc'[q] \in {"exit_sched", "dead"} => pc[q] \in {"exit_sched", "dead"}

\* It keeps the invariant.
LEMMA CalmStep ==
    ASSUME CoreInv, FamilyInv, Calm,
           TtbrInv', pc'[initproc] \notin {"exit_wait", "exit_reparent"}
    PROVE  FamilyInv'
<1> USE InitprocAssumption
<1>0. /\ TypeOK /\ parent' = parent /\ allproc' = allproc
      /\ allproc \in SUBSET Proc
      /\ parent \in [Proc -> Proc \cup {NULL}]
      /\ \A p \in Proc : state[p] \in {"UNUSED", "USED", "ZOMBIE"}
                            \/ state[p] \in {"RUNNABLE", "RUNNING", "SLEEPING"}
  BY Zenon DEF Calm, CoreInv, TypeOK, States
<1>1. \A p \in Proc : Childless(p)' => Childless(p)
  BY Zenon DEF Calm, Childless, WakePoints
<1>2. TableInv'
  <2>1. \A q \in Proc :
          /\ state'[q] \in {"RUNNABLE", "RUNNING", "SLEEPING"} =>
                state[q] \in {"RUNNABLE", "RUNNING", "SLEEPING"}
          /\ state'[q] \in {"UNUSED", "USED"} => state'[q] = state[q]
          /\ pc'[q] = "wait_free" => pc[q] = "wait_free" /\ arg'[q] = arg[q]
    BY <1>0, Zenon DEF Calm
  <2>2. QED
    BY <1>0, <1>1, <2>1, TableFrame, Zenon
<1>3. InitprocInv'
  BY <1>1, Zenon DEF FamilyInv, InitprocInv
<1>4. ASSUME NEW p \in Proc PROVE Scanning(p)'
  <2>1. pc'[p] \in ScanPoints => pc'[p] = pc[p] /\ todo'[p] = todo[p]
    BY Zenon DEF Calm
  <2>2. \A q \in allproc : state'[q] = "ZOMBIE" => state[q] = "ZOMBIE"
    BY <1>0, Zenon DEF Calm
  <2>3. QED
    BY <1>0, <2>1, <2>2, ZenonT(60) DEF FamilyInv, Scanning
<1>5. ASSUME NEW p \in Proc PROVE Waking(p)'
  <2>1. pc'[p] \in WakePoints \cup {"exit_zombie"} =>
          pc'[p] = pc[p] /\ arg'[p] = arg[p] /\ todo'[p] = todo[p]
    BY Zenon DEF Calm
  <2>2. \A q \in Proc : state'[q] = "SLEEPING" => state[q] = "SLEEPING"
    BY Zenon DEF Calm
  <2>3. Waking(p) /\ "wakeup_scan" \in WakePoints
    BY Zenon DEF FamilyInv, WakePoints
  <2>4. QED
    BY <1>0, <2>1, <2>2, <2>3, Zenon DEF Waking
<1>6. SleepInv'
  <2>1. WakingInit => WakingInit'
    BY Zenon DEF Calm, WakingInit
  <2>2. \A p \in Proc : state'[p] = "SLEEPING" => state[p] = "SLEEPING" /\ chan'[p] = chan[p]
    BY Zenon DEF Calm
  <2>3. \A q \in allproc : state'[q] = "ZOMBIE" => state[q] = "ZOMBIE"
    BY <1>0, Zenon DEF Calm
  <2>4. QED
    BY <1>0, <2>1, <2>2, <2>3, SleepFrame, Zenon
<1>7. QED
  BY <1>2, <1>3, <1>4, <1>5, <1>6, Zenon DEF FamilyInv

\* A process moves on to a point at which it knows nothing of its family, and
\* wakes a sleeper at most.
QuietPoints ==
    Points \ (ScanPoints \cup WakePoints \cup
              {"wait_free", "exit_zombie", "exit_sched", "sleep_sched", "dead"})

LEMMA CalmMove ==
    ASSUME CoreInv, CoreInv', FamilyInv,
           NEW c \in Cpu, NEW p \in Proc, NEW x \in QuietPoints,
           cpuProc[c] = p, pc[p] \notin WakePoints,
           pc' = [pc EXCEPT ![p] = x],
           p = initproc => x \notin {"exit_wait", "exit_reparent"},
           UNCHANGED <<parent, allproc, ttbr, cpuProc>>,
           \A q \in Proc : q # p =>
                chan'[q] = chan[q] /\ arg'[q] = arg[q] /\ todo'[q] = todo[q],
           \A q \in Proc :
                \/ state'[q] = state[q]
                \/ state'[q] = "RUNNABLE" /\ state[q] \in {"SLEEPING", "RUNNING"}
    PROVE  FamilyInv'
<1> USE InitprocAssumption
<1>1. pc'[p] = x /\ \A q \in Proc : q # p => pc'[q] = pc[q]
  BY Zenon DEF CoreInv, TypeOK
<1>2. state'[p] # "SLEEPING"
  <2>1. Running(p)'
    BY Zenon DEF Running
  <2>2. QED
    BY <1>1, <2>1, Zenon DEF CoreInv, OnCpuInv, QuietPoints, SchedPoints
<1>3. Calm
  <2> SUFFICES ASSUME NEW q \in Proc
      PROVE
        /\ state'[q] \in {"SLEEPING", "ZOMBIE", "UNUSED", "USED"} => state'[q] = state[q]
        /\ state[q] \in {"ZOMBIE", "UNUSED", "USED"} => state'[q] = state[q]
        /\ state'[q] = "SLEEPING" => chan'[q] = chan[q]
        /\ pc'[q] \in ScanPoints \cup {"wait_free", "exit_zombie"} =>
            pc'[q] = pc[q] /\ arg'[q] = arg[q] /\ todo'[q] = todo[q]
        /\ pc'[q] \in WakePoints \/ pc[q] \in WakePoints =>
            pc'[q] = pc[q] /\ arg'[q] = arg[q] /\ todo'[q] = todo[q]
        /\ pc'[q] \in {"exit_sched", "dead"} => pc[q] \in {"exit_sched", "dead"}
    BY Zenon DEF Calm
  <2>1. /\ state'[q] \in {"SLEEPING", "ZOMBIE", "UNUSED", "USED"} => state'[q] = state[q]
        /\ state[q] \in {"ZOMBIE", "UNUSED", "USED"} => state'[q] = state[q]
    BY Zenon
  <2>2. CASE q = p
    <3>1. /\ x \notin ScanPoints \cup {"wait_free", "exit_zombie"}
          /\ x \notin WakePoints
          /\ x \notin {"exit_sched", "dead"}
      BY Zenon DEF QuietPoints
    <3>2. QED
      BY <1>1, <1>2, <2>1, <2>2, <3>1, ZenonT(60)
  <2>3. CASE q # p
    BY <1>1, <2>1, <2>3, Zenon
  <2>4. QED
    BY <2>2, <2>3, Zenon
<1>4. TtbrInv'
  BY Zenon DEF FamilyInv, TtbrInv
<1>5. pc'[initproc] \notin {"exit_wait", "exit_reparent"}
  BY <1>1, Zenon DEF FamilyInv, InitprocInv
<1>6. QED
  BY <1>3, <1>4, <1>5, CalmStep, Zenon

\* The steps of scheduler() keep the invariant of the tree.
LEMMA SchedulerFamily ==
    ASSUME CoreInv, CoreInv', FamilyInv, NEW c \in Cpu, SchedulerStep(c)
    PROVE  FamilyInv'
<1> USE InitprocAssumption, NullAssumption
<1>1. CASE Dequeue(c)
  <2>0. UNCHANGED <<state, chan, parent, pc, arg, todo, allproc, ttbr, cpuProc>>
    BY <1>1, Zenon DEF Dequeue, procVars, codeVars
  <2>1. Calm
    BY <2>0, Zenon DEF Calm
  <2>2. TtbrInv' /\ pc'[initproc] \notin {"exit_wait", "exit_reparent"}
    BY <2>0, Zenon DEF FamilyInv, TtbrInv, InitprocInv
  <2>3. QED
    BY <2>1, <2>2, CalmStep, Zenon
<1>2. CASE Dispatch(c)
  <2> DEFINE p == cand[c]
  <2>0. /\ p \in Proc /\ cpuProc[c] = NULL
        /\ UNCHANGED <<chan, parent, pc, arg, todo, allproc>>
    BY <1>2, Zenon DEF Dispatch, codeVars, CoreInv, TypeOK
  <2>1. state[p] = "RUNNABLE"
    <3>1. InHand(p)
      BY <2>0, Zenon DEF InHand
    <3>2. QED
      BY <2>0, <3>1, Zenon DEF CoreInv, RunqExact
  <2>2. /\ state' = [state EXCEPT ![p] = "RUNNING"]
        /\ cpuProc' = [cpuProc EXCEPT ![c] = p]
        /\ ttbr' = [ttbr EXCEPT ![c] = IF pagetable[p] THEN p ELSE @]
    BY <1>2, <2>1, Zenon DEF Dispatch
  <2> HIDE DEF p
  <2>3. Calm
    BY <2>0, <2>1, <2>2, Zenon DEF Calm, CoreInv, TypeOK
  <2>4. TtbrInv'
    BY <2>0, <2>2 DEF FamilyInv, TtbrInv, CoreInv, TypeOK
  <2>5. pc'[initproc] \notin {"exit_wait", "exit_reparent"}
    BY <2>0, Zenon DEF FamilyInv, InitprocInv
  <2>6. QED
    BY <2>3, <2>4, <2>5, CalmStep, Zenon
<1>3. CASE SwitchBack(c)
  <2> DEFINE p == cpuProc[c]
  <2>0. /\ p \in Proc /\ pc[p] \in SchedPoints
        /\ pc' = [pc EXCEPT ![p] = ResumePoint(pc[p])]
        /\ cpuProc' = [cpuProc EXCEPT ![c] = NULL]
        /\ ttbr' = [ttbr EXCEPT ![c] = NULL]
        /\ UNCHANGED <<state, chan, parent, arg, todo, allproc>>
    BY <1>3, Zenon DEF SwitchBack, procVars, CoreInv, TypeOK
  <2> HIDE DEF p
  <2>1. /\ pc'[p] = ResumePoint(pc[p])
        /\ \A q \in Proc : q # p => pc'[q] = pc[q]
    BY <2>0, Zenon DEF CoreInv, TypeOK
  <2>2. /\ pc'[p] \in {"yield_ret", "sleep_ret", "dead"}
        /\ pc'[p] = "dead" => pc[p] = "exit_sched"
    BY <2>0, <2>1 DEF ResumePoint, SchedPoints
  <2>3. Calm
    BY <2>0, <2>1, <2>2, Zenon DEF Calm, SchedPoints, ScanPoints, WakePoints
  <2>4. TtbrInv'
    BY <2>0, Zenon DEF FamilyInv, TtbrInv, CoreInv, TypeOK
  <2>5. pc'[initproc] \notin {"exit_wait", "exit_reparent"}
    BY <2>1, <2>2, Zenon DEF FamilyInv, InitprocInv
  <2>6. QED
    BY <2>3, <2>4, <2>5, CalmStep, Zenon
<1>4. QED
  BY <1>1, <1>2, <1>3, Zenon DEF SchedulerStep

\* The steps of a process that change nothing wait() or exit() rely on.
QuietStep(c, p) ==
    \/ Forkret(c, p) \/ YieldRet(c, p) \/ Yield(c, p) \/ SleepRet(c, p)
    \/ ForkFail(c, p) \/ ForkWaitLock(c, p) \/ ForkPtableLock(c, p)
    \/ WaitCall(c, p) \/ SleepRelock(c, p) \/ WaitCopyoutFail(c, p)
    \/ KillLookup(c, p) \/ KillNoSuch(c, p)

\* They keep the invariant of the tree.
LEMMA QuietFamily ==
    ASSUME CoreInv, CoreInv', FamilyInv, NEW c \in Cpu, NEW p \in Proc, QuietStep(c, p)
    PROVE  FamilyInv'
<1> DEFINE Effect(x) ==
        /\ cpuProc[c] = p /\ pc[p] \notin WakePoints
        /\ pc' = [pc EXCEPT ![p] = x]
        /\ UNCHANGED <<parent, allproc, ttbr, cpuProc>>
        /\ \A q \in Proc : q # p =>
                chan'[q] = chan[q] /\ arg'[q] = arg[q] /\ todo'[q] = todo[q]
        /\ \A q \in Proc :
                \/ state'[q] = state[q]
                \/ state'[q] = "RUNNABLE" /\ state[q] \in {"SLEEPING", "RUNNING"}
<1>t. /\ state \in [Proc -> States] /\ chan \in [Proc -> Proc \cup {NULL}]
      /\ arg \in [Proc -> Proc \cup {NULL}] /\ todo \in [Proc -> SUBSET Proc]
  BY Zenon DEF CoreInv, TypeOK
<1>q. ASSUME NEW x \in {"user", "yield_sched", "trapret", "fork_ptable", "fork_activate",
                        "wait_ptable", "wait_lock", "kill_lock"},
             Effect(x)
      PROVE  FamilyInv'
  <2>1. x \in QuietPoints /\ x \notin {"exit_wait", "exit_reparent"}
    BY <1>q DEF QuietPoints, Points, ScanPoints, WakePoints, SchedPoints, ResumePoints
  <2>2. QED
    BY <1>q, <2>1, CalmMove, Zenon
<1>1. CASE Forkret(c, p)
  <2>1. Effect("user")
    BY <1>t, <1>1, Zenon DEF Forkret, At, Goto, WakePoints, procVars, cpuVars
  <2>2. QED
    BY <2>1, <1>q, Zenon
<1>2. CASE YieldRet(c, p)
  <2>1. Effect("user")
    BY <1>t, <1>2, Zenon DEF YieldRet, At, Goto, WakePoints, procVars, cpuVars
  <2>2. QED
    BY <2>1, <1>q, Zenon
<1>3. CASE Yield(c, p)
  <2>1. state[p] = "RUNNING"
    BY <1>3, Zenon DEF Yield, At, CoreInv, OnCpuInv, Running, SchedPoints
  <2>2. Effect("yield_sched")
    BY <1>t, <1>3, <2>1, Zenon DEF Yield, At, Goto, WakePoints, cpuVars
  <2>3. QED
    BY <2>2, <1>q, Zenon
<1>4. CASE SleepRet(c, p)
  <2>1. Effect("wait_lock")
    BY <1>t, <1>4, Zenon DEF SleepRet, At, Goto, WakePoints, procVars, cpuVars
  <2>2. QED
    BY <2>1, <1>q, Zenon
<1>5. CASE ForkFail(c, p)
  <2>1. Effect("trapret")
    BY <1>t, <1>5, Zenon DEF ForkFail, At, Goto, WakePoints, procVars, cpuVars
  <2>2. QED
    BY <2>1, <1>q, Zenon
<1>6. CASE ForkWaitLock(c, p)
  <2>1. Effect("fork_ptable")
    BY <1>t, <1>6, Zenon DEF ForkWaitLock, At, Goto, WakePoints, procVars, cpuVars
  <2>2. QED
    BY <2>1, <1>q, Zenon
<1>7. CASE ForkPtableLock(c, p)
  <2>1. Effect("fork_activate")
    BY <1>t, <1>7, Zenon DEF ForkPtableLock, At, Goto, WakePoints, procVars, cpuVars
  <2>2. QED
    BY <2>1, <1>q, Zenon
<1>8. CASE WaitCall(c, p)
  <2>1. Effect("wait_ptable")
    BY <1>t, <1>8, Zenon DEF WaitCall, WaitLockFrom, At, Goto, WakePoints, procVars, cpuVars
  <2>2. QED
    BY <2>1, <1>q, Zenon
<1>9. CASE SleepRelock(c, p)
  <2>1. Effect("wait_ptable")
    BY <1>t, <1>9, Zenon DEF SleepRelock, WaitLockFrom, At, Goto, WakePoints, procVars, cpuVars
  <2>2. QED
    BY <2>1, <1>q, Zenon
<1>10. CASE WaitCopyoutFail(c, p)
  <2>1. Effect("trapret")
    BY <1>t, <1>10, Zenon DEF WaitCopyoutFail, At, Goto, WakePoints, procVars, cpuVars
  <2>2. QED
    BY <2>1, <1>q, Zenon
<1>11. CASE KillLookup(c, p)
  <2>1. Effect("kill_lock")
    BY <1>t, <1>11, Zenon DEF KillLookup, At, Goto, WakePoints, procVars, cpuVars
  <2>2. QED
    BY <2>1, <1>q, Zenon
<1>12. CASE KillNoSuch(c, p)
  <2>1. Effect("trapret")
    BY <1>t, <1>12, Zenon DEF KillNoSuch, At, Goto, WakePoints, procVars, cpuVars
  <2>2. QED
    BY <2>1, <1>q, Zenon
<1>13. QED
  BY <1>1, <1>2, <1>3, <1>4, <1>5, <1>6, <1>7, <1>8, <1>9, <1>10, <1>11, <1>12, Zenon
     DEF QuietStep

\* TrapRet keeps the invariant of the tree.
LEMMA TrapRetFamily ==
    ASSUME CoreInv, CoreInv', FamilyInv, NEW c \in Cpu, NEW p \in Proc, TrapRet(c, p)
    PROVE  FamilyInv'
<1>0. /\ cpuProc[c] = p /\ pc[p] = "trapret"
      /\ UNCHANGED <<state, chan, parent, arg, todo, allproc, ttbr, cpuProc>>
  BY Zenon DEF TrapRet, At, cpuVars
<1>1. PICK x \in {"user", "panic", "exit_wait"} :
        pc' = [pc EXCEPT ![p] = x] /\ (p = initproc => x # "exit_wait")
  BY Zenon DEF TrapRet, ExitStart, Goto
<1>2. x \in QuietPoints /\ x # "exit_reparent" /\ pc[p] \notin WakePoints
  BY <1>0, <1>1 DEF QuietPoints, Points, ScanPoints, WakePoints, SchedPoints, ResumePoints
<1>3. QED
  BY <1>0, <1>1, <1>2, CalmMove, Zenon

\* ExitCall keeps the invariant of the tree.
LEMMA ExitCallFamily ==
    ASSUME CoreInv, CoreInv', FamilyInv, NEW c \in Cpu, NEW p \in Proc, ExitCall(c, p)
    PROVE  FamilyInv'
<1>0. /\ cpuProc[c] = p /\ pc[p] = "user"
      /\ UNCHANGED <<state, chan, parent, arg, todo, allproc, ttbr, cpuProc>>
  BY Zenon DEF ExitCall, At, cpuVars
<1>1. PICK x \in {"panic", "exit_wait"} :
        pc' = [pc EXCEPT ![p] = x] /\ (p = initproc => x # "exit_wait")
  BY Zenon DEF ExitCall, ExitStart, Goto
<1>2. x \in QuietPoints /\ x # "exit_reparent" /\ pc[p] \notin WakePoints
  BY <1>0, <1>1 DEF QuietPoints, Points, ScanPoints, WakePoints, SchedPoints, ResumePoints
<1>3. QED
  BY <1>0, <1>1, <1>2, CalmMove, Zenon

\* ExitWaitLock keeps the invariant of the tree.
LEMMA ExitWaitLockFamily ==
    ASSUME CoreInv, CoreInv', FamilyInv, NEW c \in Cpu, NEW p \in Proc,
           ExitWaitLock(c, p)
    PROVE  FamilyInv'
<1>0. /\ cpuProc[c] = p /\ pc[p] = "exit_wait"
      /\ pc' = [pc EXCEPT ![p] = "exit_reparent"]
      /\ UNCHANGED <<state, chan, parent, arg, todo, allproc, ttbr, cpuProc>>
  BY Zenon DEF ExitWaitLock, At, Goto, procVars, cpuVars
<1>1. p # initproc
  BY <1>0, Zenon DEF FamilyInv, InitprocInv
<1>2. "exit_reparent" \in QuietPoints /\ pc[p] \notin WakePoints
  BY <1>0 DEF QuietPoints, Points, ScanPoints, WakePoints, SchedPoints, ResumePoints
<1>3. QED
  BY <1>0, <1>1, <1>2, CalmMove, Zenon

\* Kill keeps the invariant of the tree.
LEMMA KillFamily ==
    ASSUME CoreInv, CoreInv', FamilyInv, NEW c \in Cpu, NEW p \in Proc, Kill(c, p)
    PROVE  FamilyInv'
<1>0. /\ cpuProc[c] = p /\ pc[p] = "kill_lock"
      /\ pc' = [pc EXCEPT ![p] = "trapret"]
      /\ arg' = [arg EXCEPT ![p] = NULL]
      /\ UNCHANGED <<chan, parent, todo, allproc, ttbr, cpuProc>>
  BY Zenon DEF Kill, At, Goto, cpuVars
<1>1. \A q \in Proc :
        \/ state'[q] = state[q]
        \/ state'[q] = "RUNNABLE" /\ state[q] \in {"SLEEPING", "RUNNING"}
  <2>1. state \in [Proc -> States]
    BY Zenon DEF CoreInv, TypeOK
  <2>2. QED
    BY <2>1 DEF Kill
<1>2. \A q \in Proc : q # p => arg'[q] = arg[q]
  BY <1>0, Zenon DEF CoreInv, TypeOK
<1>3. /\ "trapret" \in QuietPoints \ {"exit_wait", "exit_reparent"}
      /\ pc[p] \notin WakePoints
  BY <1>0 DEF QuietPoints, Points, ScanPoints, WakePoints, SchedPoints, ResumePoints
<1>4. QED
  BY <1>0, <1>1, <1>2, <1>3, CalmMove, ZenonT(60)

\* A step of the process that has wait_lock: of the others, nobody is at a point
\* of wait() or exit() which the invariant speaks of.
LEMMA HolderStep ==
    ASSUME CoreInv, FamilyInv, NEW p \in Proc, NEW x, pc[p] \in WaitLockPoints,
           pc' = [pc EXCEPT ![p] = x],
           p = initproc => x \in QuietPoints \ {"exit_wait", "exit_reparent"}
                            \/ x \in ScanPoints \cup {"wait_free", "sleep_sched"},
           state'[initproc] \notin {"UNUSED", "USED"},
           UNCHANGED <<ttbr, cpuProc>>,
           TableInv', SleepInv', Scanning(p)', Waking(p)'
    PROVE  FamilyInv'
<1> USE InitprocAssumption
<1>0. pc'[p] = x /\ \A q \in Proc : q # p => pc'[q] = pc[q]
  BY Zenon DEF CoreInv, TypeOK
<1>1. \A q \in Proc : q # p => pc'[q] \notin WaitLockPoints
  BY <1>0, OneHolder, Zenon
<1>2. ASSUME NEW q \in Proc PROVE Scanning(q)' /\ Waking(q)'
  <2>1. CASE q = p
    BY <2>1, Zenon
  <2>2. CASE q # p
    <3>1. pc'[q] \notin ScanPoints \cup WakePoints \cup {"exit_zombie"}
      BY <1>1, <2>2, Zenon DEF WaitLockPoints, ScanPoints, WakePoints
    <3>2. QED
      BY <3>1, Zenon DEF Scanning, Waking, WakePoints
  <2>3. QED
    BY <2>1, <2>2, Zenon
<1>3. InitprocInv'
  <2>1. CASE p = initproc
    BY <1>0, <2>1, Zenon DEF InitprocInv, Childless, QuietPoints, ScanPoints, WakePoints
  <2>2. CASE p # initproc
    BY <1>0, <2>2, Zenon DEF FamilyInv, InitprocInv, Childless
  <2>3. QED
    BY <2>1, <2>2, Zenon
<1>4. TtbrInv'
  BY Zenon DEF FamilyInv, TtbrInv
<1>5. QED
  BY <1>2, <1>3, <1>4, Zenon DEF FamilyInv

\* WakeupStart keeps the invariant of the tree.
LEMMA WakeupStartFamily ==
    ASSUME CoreInv, FamilyInv, NEW c \in Cpu, NEW p \in Proc, WakeupStart(c, p)
    PROVE  FamilyInv'
<1> USE InitprocAssumption
<1>0. /\ cpuProc[c] = p /\ pc[p] = "exit_wakeup"
      /\ pc' = [pc EXCEPT ![p] = "wakeup_scan"]
      /\ todo' = [todo EXCEPT ![p] = allproc \ {p}]
      /\ UNCHANGED <<state, chan, parent, arg, allproc, ttbr, cpuProc>>
  BY Zenon DEF WakeupStart, At, Goto, procVars, cpuVars
<1>1. /\ pc'[p] = "wakeup_scan" /\ \A q \in Proc : q # p => pc'[q] = pc[q]
      /\ todo'[p] = allproc \ {p}
      /\ TypeOK
  BY <1>0, Zenon DEF CoreInv, TypeOK
<1>2. p # initproc
  BY <1>0, Zenon DEF FamilyInv, InitprocInv, Childless
<1>3. state[p] = "RUNNING"
  BY <1>0, Zenon DEF CoreInv, OnCpuInv, Running, SchedPoints
<1>4. TableInv'
  <2>1. \A q \in Proc : Childless(q)' => Childless(q)
    BY <1>0, <1>1, Zenon DEF Childless
  <2>2. QED
    BY <1>0, <1>1, <2>1, TableFrame, Zenon
<1>5. SleepInv'
  <2>1. WakingInit => WakingInit'
    BY <1>0, <1>1, Zenon DEF WakingInit, WakePoints
  <2>2. QED
    BY <1>0, <2>1, SleepFrame, Zenon
<1>6. Waking(p)'
  <2>1. /\ arg[p] \in Proc
        /\ arg[p] # initproc => arg[p] = parent[p] /\ state[initproc] # "SLEEPING"
    BY <1>0, Zenon DEF FamilyInv, Waking, WakePoints
  <2>2. state[arg[p]] = "SLEEPING" => arg[p] \in allproc \ {p}
    BY <1>3, <2>1, Zenon DEF FamilyInv, TableInv
  <2>3. QED
    BY <1>0, <1>1, <2>1, <2>2, Zenon DEF Waking
<1>7. Scanning(p)'
  BY <1>1, Zenon DEF Scanning, ScanPoints
<1>8. state'[initproc] \notin {"UNUSED", "USED"}
  BY <1>0, Zenon DEF FamilyInv, InitprocInv, Childless
<1>9. QED
  BY <1>0, <1>2, <1>4, <1>5, <1>6, <1>7, <1>8, HolderStep, Zenon DEF WaitLockPoints

\* WakeupVisit keeps the invariant of the tree: the sleeper the exit() is for
\* sleeps on the channel it looks for, and is woken.
LEMMA WakeupVisitFamily ==
    ASSUME CoreInv, FamilyInv, NEW c \in Cpu, NEW p \in Proc, WakeupVisit(c, p)
    PROVE  FamilyInv'
<1> USE InitprocAssumption
<1>0. /\ cpuProc[c] = p /\ pc[p] = "wakeup_scan"
      /\ UNCHANGED <<chan, parent, pc, arg, allproc, ttbr, cpuProc>>
  BY Zenon DEF WakeupVisit, At, cpuVars
<1>t. /\ TypeOK /\ state \in [Proc -> States] /\ todo \in [Proc -> SUBSET Proc]
      /\ pc \in [Proc -> Points]
  BY Zenon DEF CoreInv, TypeOK
<1>1. PICK q \in todo[p] :
        /\ todo' = [todo EXCEPT ![p] = @ \ {q}]
        /\ IF state[q] = "SLEEPING" /\ chan[q] = arg[p]
           THEN state' = [state EXCEPT ![q] = "RUNNABLE"]
           ELSE state' = state
  BY Zenon DEF WakeupVisit
<1>2. /\ \A r \in Proc : r # q => state'[r] = state[r]
      /\ \/ state'[q] = state[q]
         \/ state'[q] = "RUNNABLE" /\ state[q] = "SLEEPING"
      /\ chan[q] = arg[p] => state'[q] # "SLEEPING"
      /\ q \in Proc
      /\ todo'[p] = todo[p] \ {q}
  <2>1. q \in Proc /\ todo'[p] = todo[p] \ {q}
    BY <1>1, <1>t, Zenon
  <2>2. CASE state[q] = "SLEEPING" /\ chan[q] = arg[p]
    BY <1>1, <1>t, <2>1, <2>2, Zenon
  <2>3. CASE ~(state[q] = "SLEEPING" /\ chan[q] = arg[p])
    BY <1>1, <2>1, <2>3, Zenon
  <2>4. QED
    BY <2>2, <2>3, Zenon
<1>3. p # initproc
  BY <1>0, Zenon DEF FamilyInv, InitprocInv, Childless
<1>4. TableInv'
  <2>1. \A r \in Proc : Childless(r)' => Childless(r)
    BY <1>0, <1>2, Zenon DEF Childless
  <2>2. QED
    BY <1>0, <1>t, <1>2, <2>1, TableFrame, Zenon
<1>5. SleepInv'
  <2>1. WakingInit => WakingInit'
    BY <1>0, Zenon DEF WakingInit
  <2>2. allproc \in SUBSET Proc
    BY <1>t, Zenon DEF TypeOK
  <2>3. \A r \in Proc : /\ state'[r] = "SLEEPING" => state[r] = "SLEEPING"
                        /\ state'[r] = "ZOMBIE" => state[r] = "ZOMBIE"
    BY <1>2, Zenon
  <2>4. QED
    BY <1>0, <2>1, <2>2, <2>3, SleepFrame, Zenon
<1>6. Waking(p)'
  <2>1. /\ arg[p] \in Proc
        /\ arg[p] # initproc => arg[p] = parent[p] /\ state[initproc] # "SLEEPING"
        /\ state[arg[p]] = "SLEEPING" => arg[p] \in todo[p]
    BY <1>0, Zenon DEF FamilyInv, Waking, WakePoints
  <2>2. state'[arg[p]] = "SLEEPING" => arg[p] \in todo'[p]
    <3> SUFFICES ASSUME state'[arg[p]] = "SLEEPING" PROVE arg[p] \in todo'[p]
      OBVIOUS
    <3>1. state[arg[p]] = "SLEEPING"
      BY <1>2, <2>1, Zenon
    <3>2. chan[arg[p]] = arg[p]
      BY <2>1, <3>1, Zenon DEF FamilyInv, SleepInv
    <3>3. arg[p] # q
      BY <1>2, <3>2, Zenon
    <3>4. QED
      BY <1>2, <2>1, <3>1, <3>3, Zenon
  <2>3. state[initproc] # "SLEEPING" => state'[initproc] # "SLEEPING"
    BY <1>2, Zenon
  <2>4. QED
    BY <1>0, <2>1, <2>2, <2>3, Zenon DEF Waking
<1>7. Scanning(p)'
  BY <1>0, Zenon DEF Scanning, ScanPoints
<1>8. state'[initproc] \notin {"UNUSED", "USED"}
  BY <1>2, Zenon DEF FamilyInv, InitprocInv, Childless
<1>9. pc' = [pc EXCEPT ![p] = "wakeup_scan"]
  BY <1>0, <1>t, Zenon
<1>10. QED
  BY <1>0, <1>3, <1>4, <1>5, <1>6, <1>7, <1>8, <1>9, HolderStep, Zenon
     DEF WaitLockPoints

\* WakeupEnd keeps the invariant of the tree: the walk has visited the sleeper.
LEMMA WakeupEndFamily ==
    ASSUME CoreInv, FamilyInv, NEW c \in Cpu, NEW p \in Proc, WakeupEnd(c, p)
    PROVE  FamilyInv'
<1> USE InitprocAssumption, NullAssumption
<1> DEFINE again == arg[p] = initproc /\ parent[p] \notin {NULL, initproc}
           x == IF again THEN "exit_wakeup" ELSE "exit_zombie"
<1>0. /\ cpuProc[c] = p /\ pc[p] = "wakeup_scan" /\ todo[p] = {}
      /\ pc' = [pc EXCEPT ![p] = x]
      /\ arg' = [arg EXCEPT ![p] = IF again THEN parent[p] ELSE NULL]
      /\ UNCHANGED <<state, chan, parent, todo, allproc, ttbr, cpuProc>>
  BY Zenon DEF WakeupEnd, At, Goto, procVars, cpuVars
<1>1. /\ pc'[p] = x /\ \A q \in Proc : q # p => pc'[q] = pc[q]
      /\ arg'[p] = IF again THEN parent[p] ELSE NULL
      /\ TypeOK /\ parent[p] \in Proc \cup {NULL}
  BY <1>0, Zenon DEF CoreInv, TypeOK
<1>2. /\ state[initproc] # "SLEEPING"
      /\ arg[p] \in Proc /\ state[arg[p]] # "SLEEPING"
      /\ arg[p] # initproc => arg[p] = parent[p]
  BY <1>0, Zenon DEF FamilyInv, Waking, WakePoints
<1>3. p # initproc
  BY <1>0, Zenon DEF FamilyInv, InitprocInv, Childless
<1>4. x \in {"exit_wakeup", "exit_zombie"} /\ (x = "exit_wakeup" <=> again)
  BY Zenon
<1>5. Waking(p)'
  <2>1. CASE again
    <3>1. pc'[p] = "exit_wakeup" /\ arg'[p] = parent[p] /\ parent[p] \in Proc
      BY <1>1, <2>1, Zenon
    <3>2. QED
      BY <1>0, <1>2, <3>1, Zenon DEF Waking
  <2>2. CASE ~again
    <3>1. parent[p] # NULL => state[parent[p]] # "SLEEPING"
      BY <1>2, <2>2, Zenon
    <3>2. pc'[p] = "exit_zombie"
      BY <1>1, <2>2, Zenon
    <3>3. QED
      BY <1>0, <3>1, <3>2, Zenon DEF Waking, WakePoints
  <2>3. QED
    BY <2>1, <2>2, Zenon
<1> HIDE DEF x, again
<1>6. TableInv'
  <2>1. \A q \in Proc : Childless(q)' => Childless(q)
    BY <1>0, <1>1, Zenon DEF Childless
  <2>2. \A q \in Proc : pc'[q] = "wait_free" => pc[q] = "wait_free" /\ arg'[q] = arg[q]
    BY <1>0, <1>1, <1>4, Zenon DEF TypeOK
  <2>3. QED
    BY <1>0, <1>1, <2>1, <2>2, TableFrame, Zenon
<1>7. SleepInv'
  <2>1. \A q \in Proc : state[q] = "SLEEPING" => q # initproc
    BY <1>2, Zenon
  <2>2. QED
    BY <1>0, <2>1, Zenon DEF FamilyInv, SleepInv
<1>8. Scanning(p)'
  BY <1>1, <1>4, Zenon DEF Scanning, ScanPoints
<1>9. state'[initproc] \notin {"UNUSED", "USED"}
  BY <1>0, Zenon DEF FamilyInv, InitprocInv, Childless
<1>10. QED
  <2>1. pc[p] \in WaitLockPoints
    BY <1>0, Zenon DEF WaitLockPoints
  <2>2. QED
    BY <1>0, <1>3, <1>5, <1>6, <1>7, <1>8, <1>9, <2>1, HolderStep, Zenon

\* ExitReparent keeps the invariant of the tree: init, which is past no exit(), is
\* given the children.
LEMMA ExitReparentFamily ==
    ASSUME CoreInv, FamilyInv, NEW c \in Cpu, NEW p \in Proc, ExitReparent(c, p)
    PROVE  FamilyInv'
<1> USE InitprocAssumption, NullAssumption
<1>0. /\ cpuProc[c] = p /\ pc[p] = "exit_reparent"
      /\ pc' = [pc EXCEPT ![p] = "exit_wakeup"]
      /\ arg' = [arg EXCEPT ![p] = initproc]
      /\ parent' = [q \in Proc |->
                     IF q \in allproc /\ parent[q] = p THEN initproc ELSE parent[q]]
      /\ UNCHANGED <<state, chan, todo, allproc, ttbr, cpuProc>>
  BY Zenon DEF ExitReparent, At, Goto, cpuVars
<1>t. /\ allproc \in SUBSET Proc /\ pc \in [Proc -> Points]
      /\ arg \in [Proc -> Proc \cup {NULL}]
  BY Zenon DEF CoreInv, TypeOK
<1>1. /\ pc'[p] = "exit_wakeup" /\ \A q \in Proc : q # p => pc'[q] = pc[q]
      /\ arg'[p] = initproc /\ \A q \in Proc : q # p => arg'[q] = arg[q]
      /\ \A q \in allproc : parent'[q] = IF parent[q] = p THEN initproc ELSE parent[q]
  BY <1>0, <1>t, Zenon
<1>2. p # initproc /\ ~Childless(initproc)
  BY <1>0, Zenon DEF FamilyInv, InitprocInv
<1>3. state[p] = "RUNNING"
  BY <1>0, Zenon DEF CoreInv, OnCpuInv, Running, SchedPoints
<1>4. TableInv'
  <2>1. \A q \in Proc : q # p => (Childless(q)' => Childless(q))
    BY <1>0, <1>1, Zenon DEF Childless
  <2>2. ASSUME NEW q \in Proc, Childless(q)', NEW r \in allproc PROVE parent'[r] # q
    <3>1. CASE q = p
      BY <1>1, <1>2, <3>1, Zenon
    <3>2. CASE q # p
      <4>1. Childless(q)
        BY <2>1, <2>2, <3>2, Zenon
      <4>2. parent[r] # q /\ q # initproc
        BY <1>2, <4>1, Zenon DEF FamilyInv, TableInv
      <4>3. QED
        BY <1>1, <4>2, Zenon
    <3>3. QED
      BY <3>1, <3>2, Zenon
  <2>3. \A q \in Proc : pc'[q] = "wait_free" => arg'[q] \notin allproc
    BY <1>1, Zenon DEF FamilyInv, TableInv
  <2>4. QED
    BY <1>0, <2>2, <2>3, Zenon DEF FamilyInv, TableInv
<1>5. SleepInv'
  <2> SUFFICES ASSUME NEW q \in Proc, state[q] = "SLEEPING"
               PROVE  /\ chan[q] = q
                      /\ \E r \in allproc : parent'[r] = q
                      /\ \A r \in allproc : parent'[r] = q /\ state[r] = "ZOMBIE" =>
                            q = initproc /\ WakingInit'
    BY <1>0, ZenonT(60) DEF SleepInv, WakingInit
  <2>1. q # p
    BY <1>3, Zenon
  <2>2. /\ chan[q] = q
        /\ \E r \in allproc : parent[r] = q
        /\ \A r \in allproc : parent[r] = q /\ state[r] = "ZOMBIE" => q = initproc
    BY Zenon DEF FamilyInv, SleepInv
  <2>3. WakingInit'
    BY <1>1, Zenon DEF WakingInit, WakePoints
  <2>4. \A r \in allproc : /\ parent[r] = q => parent'[r] = q
                           /\ parent'[r] = q => parent[r] = q \/ q = initproc
    BY <1>1, <2>1, Zenon
  <2>5. QED
    BY <2>2, <2>3, <2>4, Zenon
<1>6. Waking(p)' /\ Scanning(p)'
  BY <1>1, Zenon DEF Waking, Scanning, ScanPoints
<1>7. state'[initproc] \notin {"UNUSED", "USED"}
  BY <1>0, <1>2, Zenon DEF Childless
<1>8. QED
  BY <1>0, <1>2, <1>4, <1>5, <1>6, <1>7, HolderStep, Zenon DEF WaitLockPoints

\* ExitZombie keeps the invariant of the tree: the parent is awake.
LEMMA ExitZombieFamily ==
    ASSUME CoreInv, FamilyInv, NEW c \in Cpu, NEW p \in Proc, ExitZombie(c, p)
    PROVE  FamilyInv'
<1> USE InitprocAssumption, NullAssumption
<1>0. /\ cpuProc[c] = p /\ pc[p] = "exit_zombie"
      /\ pc' = [pc EXCEPT ![p] = "exit_sched"]
      /\ state' = [state EXCEPT ![p] = "ZOMBIE"]
      /\ UNCHANGED <<chan, parent, arg, todo, allproc, ttbr, cpuProc>>
  BY Zenon DEF ExitZombie, At, Goto, cpuVars
<1>1. /\ pc'[p] = "exit_sched" /\ \A q \in Proc : q # p => pc'[q] = pc[q]
      /\ state'[p] = "ZOMBIE" /\ \A q \in Proc : q # p => state'[q] = state[q]
      /\ TypeOK /\ allproc \in SUBSET Proc
  BY <1>0, Zenon DEF CoreInv, TypeOK
<1>2. p # initproc
  BY <1>0, Zenon DEF FamilyInv, InitprocInv, Childless
<1>3. TableInv'
  <2>1. \A q \in Proc : Childless(q)' => Childless(q)
    BY <1>0, <1>1, Zenon DEF Childless
  <2>2. QED
    BY <1>0, <1>1, <2>1, TableFrame, Zenon
<1>4. SleepInv'
  <2>1. WakingInit => WakingInit'
    BY <1>0, <1>1, Zenon DEF WakingInit, WakePoints
  <2>2. parent[p] # NULL => state[parent[p]] # "SLEEPING"
    BY <1>0, Zenon DEF FamilyInv, Waking
  <2>3. ASSUME NEW q \in Proc, state'[q] = "SLEEPING"
        PROVE  /\ state[q] = "SLEEPING"
               /\ \A r \in allproc : parent[r] = q /\ state'[r] = "ZOMBIE" =>
                                        state[r] = "ZOMBIE"
    BY <1>1, <2>2, <2>3, Zenon
  <2>4. QED
    BY <1>0, <2>1, <2>3, SleepFrame, Zenon
<1>5. Waking(p)' /\ Scanning(p)'
  BY <1>1, Zenon DEF Waking, Scanning, ScanPoints, WakePoints
<1>6. state'[initproc] \notin {"UNUSED", "USED"}
  BY <1>1, <1>2, Zenon DEF FamilyInv, InitprocInv, Childless
<1>7. QED
  <2>1. pc[p] \in WaitLockPoints
    BY <1>0, Zenon DEF WaitLockPoints
  <2>2. QED
    BY <1>0, <1>2, <1>3, <1>4, <1>5, <1>6, <2>1, HolderStep, Zenon

\* A step of wait() that leaves every process and the lists alone.
LEMMA ScanStep ==
    ASSUME CoreInv, FamilyInv, NEW p \in Proc, NEW x \in ScanPoints,
           pc[p] \in WaitLockPoints \ (WakePoints \cup {"wait_free"}),
           pc' = [pc EXCEPT ![p] = x],
           UNCHANGED <<state, chan, parent, arg, allproc, ttbr, cpuProc>>,
           Scanning(p)'
    PROVE  FamilyInv'
<1> USE InitprocAssumption
<1>1. /\ pc'[p] = x /\ \A q \in Proc : q # p => pc'[q] = pc[q]
      /\ TypeOK
  BY Zenon DEF CoreInv, TypeOK
<1>2. TableInv'
  <2>1. \A q \in Proc : Childless(q)' => Childless(q)
    BY <1>1, Zenon DEF Childless, ScanPoints
  <2>2. \A q \in Proc : pc'[q] = "wait_free" => pc[q] = "wait_free"
    BY <1>1, Zenon DEF ScanPoints
  <2>3. QED
    BY <1>1, <2>1, <2>2, TableFrame, Zenon
<1>3. SleepInv'
  <2>1. WakingInit => WakingInit'
    BY <1>1, Zenon DEF WakingInit
  <2>2. QED
    BY <2>1, SleepFrame, Zenon
<1>4. Waking(p)'
  BY <1>1, Zenon DEF Waking, ScanPoints, WakePoints
<1>5. state'[initproc] \notin {"UNUSED", "USED"}
  BY Zenon DEF FamilyInv, InitprocInv, Childless
<1>6. QED
  BY <1>2, <1>3, <1>4, <1>5, HolderStep, Zenon

\* WaitPtableLock keeps the invariant of the tree.
LEMMA WaitPtableLockFamily ==
    ASSUME CoreInv, CoreInv', FamilyInv, NEW c \in Cpu, NEW p \in Proc,
           WaitPtableLock(c, p)
    PROVE  FamilyInv'
<1> DEFINE kids == {q \in allproc : parent[q] = p}
<1>0. /\ cpuProc[c] = p /\ pc[p] = "wait_ptable"
      /\ UNCHANGED <<state, chan, parent, arg, allproc, ttbr, cpuProc>>
  BY Zenon DEF WaitPtableLock, At, procVars, cpuVars
<1>1. CASE kids = {}
  <2>1. pc' = [pc EXCEPT ![p] = "trapret"] /\ todo' = todo
    BY <1>1, Zenon DEF WaitPtableLock, Goto
  <2>2. /\ "trapret" \in QuietPoints \ {"exit_wait", "exit_reparent"}
        /\ pc[p] \notin WakePoints
    BY <1>0 DEF QuietPoints, Points, ScanPoints, WakePoints, SchedPoints, ResumePoints
  <2>3. QED
    BY <1>0, <2>1, <2>2, CalmMove, Zenon
<1>2. CASE kids # {}
  <2>1. /\ pc' = [pc EXCEPT ![p] = "wait_scan"]
        /\ todo' = [todo EXCEPT ![p] = kids]
    BY <1>2, Zenon DEF WaitPtableLock, Goto
  <2>2. pc'[p] = "wait_scan" /\ todo'[p] = kids
    BY <2>1, Zenon DEF CoreInv, TypeOK
  <2>3. Scanning(p)'
    BY <1>0, <1>2, <2>2, Zenon DEF Scanning
  <2>4. /\ pc[p] \in WaitLockPoints \ (WakePoints \cup {"wait_free"})
        /\ "wait_scan" \in ScanPoints
    BY <1>0, Zenon DEF WaitLockPoints, WakePoints, ScanPoints
  <2>5. QED
    BY <1>0, <2>1, <2>3, <2>4, ScanStep, Zenon
<1>3. QED
  BY <1>1, <1>2, Zenon

\* WaitSkip keeps the invariant of the tree.
LEMMA WaitSkipFamily ==
    ASSUME CoreInv, FamilyInv, NEW c \in Cpu, NEW p \in Proc, WaitSkip(c, p)
    PROVE  FamilyInv'
<1>0. /\ cpuProc[c] = p /\ pc[p] = "wait_scan"
      /\ UNCHANGED <<state, chan, parent, pc, arg, allproc, ttbr, cpuProc>>
  BY Zenon DEF WaitSkip, At, procVars, cpuVars
<1>1. PICK np \in todo[p] : /\ state[np] # "ZOMBIE"
                           /\ todo' = [todo EXCEPT ![p] = @ \ {np}]
  BY Zenon DEF WaitSkip
<1>2. todo'[p] = todo[p] \ {np} /\ pc' = [pc EXCEPT ![p] = "wait_scan"]
  BY <1>0, <1>1, Zenon DEF CoreInv, TypeOK
<1>3. /\ pc[p] \in WaitLockPoints \ (WakePoints \cup {"wait_free"})
      /\ "wait_scan" \in ScanPoints
  BY <1>0, Zenon DEF WaitLockPoints, WakePoints, ScanPoints
<1>4. Scanning(p)'
  <2>1. Scanning(p)
    BY Zenon DEF FamilyInv
  <2>2. QED
    BY <1>0, <1>1, <1>2, <1>3, <2>1, Zenon DEF Scanning
<1>5. QED
  BY <1>0, <1>2, <1>3, <1>4, ScanStep, Zenon

\* WaitScanEnd keeps the invariant of the tree.
LEMMA WaitScanEndFamily ==
    ASSUME CoreInv, FamilyInv, NEW c \in Cpu, NEW p \in Proc, WaitScanEnd(c, p)
    PROVE  FamilyInv'
<1>0. /\ cpuProc[c] = p /\ pc[p] = "wait_scan" /\ todo[p] = {}
      /\ pc' = [pc EXCEPT ![p] = "wait_killed"]
      /\ UNCHANGED <<state, chan, parent, arg, todo, allproc, ttbr, cpuProc>>
  BY Zenon DEF WaitScanEnd, At, Goto, procVars, cpuVars
<1>1. pc'[p] = "wait_killed"
  BY <1>0, Zenon DEF CoreInv, TypeOK
<1>2. /\ pc[p] \in WaitLockPoints \ (WakePoints \cup {"wait_free"})
      /\ pc[p] \in ScanPoints /\ "wait_killed" \in ScanPoints
  BY <1>0, Zenon DEF WaitLockPoints, WakePoints, ScanPoints
<1>3. Scanning(p)'
  <2>1. Scanning(p)
    BY Zenon DEF FamilyInv
  <2>2. QED
    BY <1>0, <1>1, <1>2, <2>1, Zenon DEF Scanning
<1>4. QED
  BY <1>0, <1>2, <1>3, ScanStep, Zenon

\* WaitKilled keeps the invariant of the tree.
LEMMA WaitKilledFamily ==
    ASSUME CoreInv, CoreInv', FamilyInv, NEW c \in Cpu, NEW p \in Proc,
           WaitKilled(c, p)
    PROVE  FamilyInv'
<1>0. /\ cpuProc[c] = p /\ pc[p] = "wait_killed"
      /\ UNCHANGED <<state, chan, parent, arg, todo, allproc, ttbr, cpuProc>>
  BY Zenon DEF WaitKilled, At, procVars, cpuVars
<1>1. CASE killed[p]
  <2>1. pc' = [pc EXCEPT ![p] = "trapret"]
    BY <1>1, Zenon DEF WaitKilled, Goto
  <2>2. /\ "trapret" \in QuietPoints \ {"exit_wait", "exit_reparent"}
        /\ pc[p] \notin WakePoints
    BY <1>0 DEF QuietPoints, Points, ScanPoints, WakePoints, SchedPoints, ResumePoints
  <2>3. QED
    BY <1>0, <2>1, <2>2, CalmMove, Zenon
<1>2. CASE ~killed[p]
  <2>1. pc' = [pc EXCEPT ![p] = "wait_sleep"]
    BY <1>2, Zenon DEF WaitKilled, Goto
  <2>2. pc'[p] = "wait_sleep"
    BY <2>1, Zenon DEF CoreInv, TypeOK
  <2>3. /\ pc[p] \in WaitLockPoints \ (WakePoints \cup {"wait_free"})
        /\ pc[p] \in ScanPoints /\ "wait_sleep" \in ScanPoints
    BY <1>0, Zenon DEF WaitLockPoints, WakePoints, ScanPoints
  <2>4. Scanning(p)'
    <3>1. Scanning(p)
      BY Zenon DEF FamilyInv
    <3>2. QED
      BY <1>0, <2>2, <2>3, <3>1, Zenon DEF Scanning
  <2>5. QED
    BY <1>0, <2>1, <2>3, <2>4, ScanStep, Zenon
<1>3. QED
  BY <1>1, <1>2, Zenon

\* WaitUnlink keeps the invariant of the tree: what is unlinked is a child of the
\* caller's and nobody's parent.
LEMMA WaitUnlinkFamily ==
    ASSUME CoreInv, FamilyInv, NEW c \in Cpu, NEW p \in Proc, WaitUnlink(c, p)
    PROVE  FamilyInv'
<1> USE InitprocAssumption, NullAssumption
<1>0. /\ cpuProc[c] = p /\ pc[p] = "wait_scan"
      /\ pc' = [pc EXCEPT ![p] = "wait_free"]
      /\ UNCHANGED <<state, chan, parent, ttbr, cpuProc>>
  BY Zenon DEF WaitUnlink, At, Goto, procVars, cpuVars
<1>1. PICK np \in todo[p] : /\ state[np] = "ZOMBIE"
                           /\ allproc' = allproc \ {np}
                           /\ arg' = [arg EXCEPT ![p] = np]
  BY Zenon DEF WaitUnlink
<1>2. /\ pc'[p] = "wait_free" /\ \A q \in Proc : q # p => pc'[q] = pc[q]
      /\ arg'[p] = np /\ \A q \in Proc : q # p => arg'[q] = arg[q]
      /\ allproc \in SUBSET Proc
  BY <1>0, <1>1, Zenon DEF CoreInv, TypeOK
<1>3. parent[np] = p
  <2>1. Scanning(p)
    BY Zenon DEF FamilyInv
  <2>2. QED
    BY <1>0, <1>1, <2>1, Zenon DEF Scanning, ScanPoints
<1>4. state[p] = "RUNNING"
  BY <1>0, Zenon DEF CoreInv, OnCpuInv, Running, SchedPoints
<1>5. TableInv'
  <2>1. \A q \in Proc : Childless(q)' => Childless(q)
    BY <1>0, <1>2, Zenon DEF Childless
  <2>2. ASSUME NEW q \in Proc, pc'[q] = "wait_free" PROVE arg'[q] \notin allproc'
    <3>1. \A r : r \in allproc' => r \in allproc /\ r # np
      BY <1>1, Zenon
    <3>2. CASE q = p
      BY <1>2, <3>1, <3>2, Zenon
    <3>3. CASE q # p
      <4>1. pc[q] = "wait_free" /\ arg'[q] = arg[q]
        BY <1>2, <2>2, <3>3, Zenon
      <4>2. arg[q] \notin allproc
        BY <4>1, Zenon DEF FamilyInv, TableInv
      <4>3. QED
        BY <3>1, <4>1, <4>2, Zenon
    <3>4. QED
      BY <3>2, <3>3, Zenon
  <2>3. \A q \in Proc : state'[q] \in {"RUNNABLE", "RUNNING", "SLEEPING"} => q \in allproc'
    BY <1>0, <1>1, Zenon DEF FamilyInv, TableInv
  <2>4. /\ \A q \in allproc' : state'[q] \notin {"UNUSED", "USED"}
        /\ \A q \in Proc : Childless(q)' => \A r \in allproc' : parent'[r] # q
    BY <1>0, <1>1, <2>1, Zenon DEF FamilyInv, TableInv
  <2>5. QED
    BY <2>2, <2>3, <2>4, Zenon DEF TableInv
<1>6. SleepInv'
  <2>1. WakingInit => WakingInit'
    BY <1>0, <1>2, Zenon DEF WakingInit, WakePoints
  <2>2. \A q \in Proc : state[q] = "SLEEPING" =>
          \A r : r \in allproc' /\ parent[r] = q <=> r \in allproc /\ parent[r] = q
    BY <1>1, <1>3, <1>4, Zenon
  <2>3. QED
    BY <1>0, <2>1, <2>2, SleepFrame, Zenon
<1>7. Waking(p)' /\ Scanning(p)'
  BY <1>2, Zenon DEF Waking, Scanning, ScanPoints, WakePoints
<1>8. state'[initproc] \notin {"UNUSED", "USED"}
  BY <1>0, Zenon DEF FamilyInv, InitprocInv, Childless
<1>9. pc[p] \in WaitLockPoints
  BY <1>0, Zenon DEF WaitLockPoints
<1>10. QED
  BY <1>0, <1>5, <1>6, <1>7, <1>8, <1>9, HolderStep, Zenon

\* WaitFree keeps the invariant of the tree: the object is off the list already.
LEMMA WaitFreeFamily ==
    ASSUME CoreInv, FamilyInv, NEW c \in Cpu, NEW p \in Proc, WaitFree(c, p)
    PROVE  FamilyInv'
<1> USE InitprocAssumption, NullAssumption
<1> DEFINE np == arg[p]
<1>0. /\ cpuProc[c] = p /\ pc[p] = "wait_free"
      /\ pc' = [pc EXCEPT ![p] = "trapret"]
      /\ state' = [state EXCEPT ![np] = "UNUSED"]
      /\ arg' = [arg EXCEPT ![p] = NULL]
      /\ UNCHANGED <<chan, parent, todo, allproc, ttbr, cpuProc>>
  BY Zenon DEF WaitFree, At, Goto, cpuVars
<1>1. np \in Proc /\ state[np] = "ZOMBIE" /\ pc[np] = "dead" /\ np \notin allproc
  BY <1>0, Zenon DEF CoreInv, ReapInv, FamilyInv, TableInv
<1> HIDE DEF np
<1>2. /\ pc'[p] = "trapret" /\ \A q \in Proc : q # p => pc'[q] = pc[q]
      /\ state'[np] = "UNUSED" /\ \A q \in Proc : q # np => state'[q] = state[q]
      /\ \A q \in Proc : q # p => arg'[q] = arg[q]
      /\ TypeOK /\ allproc \in SUBSET Proc
  BY <1>0, <1>1, Zenon DEF CoreInv, TypeOK
<1>3. np # initproc
  BY <1>1, Zenon DEF FamilyInv, InitprocInv, Childless
<1>4. TableInv'
  <2>1. \A q \in Proc : Childless(q)' => Childless(q)
    BY <1>0, <1>1, <1>2, Zenon DEF Childless
  <2>2. \A q \in Proc : pc'[q] = "wait_free" => pc[q] = "wait_free" /\ arg'[q] = arg[q]
    BY <1>2, Zenon
  <2>3. QED
    BY <1>0, <1>1, <1>2, <2>1, <2>2, TableFrame, Zenon
<1>5. SleepInv'
  <2>1. WakingInit => WakingInit'
    BY <1>0, <1>2, Zenon DEF WakingInit, WakePoints
  <2>2. \A q \in Proc : /\ state'[q] = "SLEEPING" => state[q] = "SLEEPING"
                        /\ state'[q] = "ZOMBIE" => state[q] = "ZOMBIE"
    BY <1>2, Zenon
  <2>3. QED
    BY <1>0, <1>2, <2>1, <2>2, SleepFrame, Zenon
<1>6. Waking(p)' /\ Scanning(p)'
  BY <1>2, Zenon DEF Waking, Scanning, ScanPoints, WakePoints
<1>7. state'[initproc] \notin {"UNUSED", "USED"}
  BY <1>2, <1>3, Zenon DEF FamilyInv, InitprocInv, Childless
<1>8. /\ pc[p] \in WaitLockPoints
      /\ "trapret" \in QuietPoints \ {"exit_wait", "exit_reparent"}
  BY <1>0 DEF WaitLockPoints, QuietPoints, Points, ScanPoints, WakePoints, SchedPoints,
              ResumePoints
<1>9. QED
  BY <1>0, <1>4, <1>5, <1>6, <1>7, <1>8, HolderStep, Zenon

\* Sleep keeps the invariant of the tree: with wait_lock since the scan, the
\* process has children and none of them is a ZOMBIE.
LEMMA SleepFamily ==
    ASSUME CoreInv, FamilyInv, NEW c \in Cpu, NEW p \in Proc, Sleep(c, p)
    PROVE  FamilyInv'
<1> USE InitprocAssumption, NullAssumption
<1>0. /\ cpuProc[c] = p /\ pc[p] = "wait_sleep"
      /\ pc' = [pc EXCEPT ![p] = "sleep_sched"]
      /\ state' = [state EXCEPT ![p] = "SLEEPING"]
      /\ chan' = [chan EXCEPT ![p] = p]
      /\ UNCHANGED <<parent, arg, todo, allproc, ttbr, cpuProc>>
  BY Zenon DEF Sleep, At, Goto, cpuVars
<1>1. /\ pc'[p] = "sleep_sched" /\ \A q \in Proc : q # p => pc'[q] = pc[q]
      /\ state'[p] = "SLEEPING" /\ \A q \in Proc : q # p => state'[q] = state[q]
      /\ chan'[p] = p /\ \A q \in Proc : q # p => chan'[q] = chan[q]
      /\ TypeOK /\ allproc \in SUBSET Proc
  BY <1>0, Zenon DEF CoreInv, TypeOK
<1>2. /\ \E q \in allproc : parent[q] = p
      /\ \A q \in allproc : parent[q] = p => state[q] # "ZOMBIE"
  <2>1. Scanning(p)
    BY Zenon DEF FamilyInv
  <2>2. QED
    BY <1>0, <2>1, Zenon DEF Scanning, ScanPoints
<1>3. state[p] = "RUNNING"
  BY <1>0, Zenon DEF CoreInv, OnCpuInv, Running, SchedPoints
<1>4. TableInv'
  <2>1. \A q \in Proc : Childless(q)' => Childless(q)
    BY <1>0, <1>1, Zenon DEF Childless
  <2>2. QED
    BY <1>0, <1>1, <1>3, <2>1, TableFrame, Zenon
<1>5. SleepInv'
  <2> SUFFICES ASSUME NEW q \in Proc, state'[q] = "SLEEPING"
               PROVE  /\ chan'[q] = q
                      /\ \E r \in allproc : parent[r] = q
                      /\ \A r \in allproc : parent[r] = q /\ state'[r] = "ZOMBIE" =>
                            q = initproc /\ WakingInit'
    BY <1>0, ZenonT(60) DEF SleepInv, WakingInit
  <2>1. \A r \in allproc : state'[r] = "ZOMBIE" => state[r] = "ZOMBIE"
    BY <1>1, Zenon
  <2>2. CASE q = p
    BY <1>1, <1>2, <2>1, <2>2, Zenon
  <2>3. CASE q # p
    <3>1. WakingInit => WakingInit'
      BY <1>0, <1>1, Zenon DEF WakingInit, WakePoints
    <3>2. /\ chan[q] = q
          /\ \E r \in allproc : parent[r] = q
          /\ \A r \in allproc : parent[r] = q /\ state[r] = "ZOMBIE" =>
                q = initproc /\ WakingInit
      BY <1>1, <2>3, Zenon DEF FamilyInv, SleepInv
    <3>3. QED
      BY <1>1, <2>1, <2>3, <3>1, <3>2, Zenon
  <2>4. QED
    BY <2>2, <2>3, Zenon
<1>6. Waking(p)' /\ Scanning(p)'
  BY <1>1, Zenon DEF Waking, Scanning, ScanPoints, WakePoints
<1>7. state'[initproc] \notin {"UNUSED", "USED"}
  BY <1>1, Zenon DEF FamilyInv, InitprocInv, Childless
<1>8. pc[p] \in WaitLockPoints
  BY <1>0, Zenon DEF WaitLockPoints
<1>9. QED
  BY <1>0, <1>4, <1>5, <1>6, <1>7, <1>8, HolderStep, Zenon

\* ForkActivate keeps the invariant of the tree: the object was on no list, and
\* its new parent is in fork().
LEMMA ForkActivateFamily ==
    ASSUME CoreInv, FamilyInv, NEW c \in Cpu, NEW p \in Proc, ForkActivate(c, p)
    PROVE  FamilyInv'
<1> USE InitprocAssumption, NullAssumption
<1> DEFINE np == arg[p]
<1>0. /\ cpuProc[c] = p /\ pc[p] = "fork_activate"
      /\ allproc' = allproc \cup {np}
      /\ parent' = [parent EXCEPT ![np] = p]
      /\ state' = [state EXCEPT ![np] = "RUNNABLE"]
      /\ pc' = [pc EXCEPT ![p] = "trapret"]
      /\ arg' = [arg EXCEPT ![p] = NULL]
      /\ UNCHANGED <<chan, todo, ttbr, cpuProc>>
  BY Zenon DEF ForkActivate, At, Goto, cpuVars
<1>1. np \in Proc /\ state[np] = "USED" /\ np \notin allproc
  BY <1>0, Zenon DEF CoreInv, ForkInv, ForkPoints, FamilyInv, TableInv
<1> HIDE DEF np
<1>2. /\ pc'[p] = "trapret" /\ \A q \in Proc : q # p => pc'[q] = pc[q]
      /\ state'[np] = "RUNNABLE" /\ \A q \in Proc : q # np => state'[q] = state[q]
      /\ parent'[np] = p /\ \A q \in Proc : q # np => parent'[q] = parent[q]
      /\ allproc \in SUBSET Proc
  BY <1>0, <1>1, Zenon DEF CoreInv, TypeOK
<1>3. state[p] = "RUNNING" /\ p # np
  BY <1>0, <1>1, Zenon DEF CoreInv, OnCpuInv, Running, SchedPoints
<1>4. TableInv'
  <2>1. \A q \in Proc : q # np => (Childless(q)' => Childless(q))
    BY <1>0, <1>2, Zenon DEF Childless
  <2>2. Childless(np) /\ ~Childless(p)'
    BY <1>1, <1>2, <1>3, Zenon DEF Childless
  <2>3. \A q \in Proc : state'[q] \in {"RUNNABLE", "RUNNING", "SLEEPING"} => q \in allproc'
    BY <1>0, <1>2, Zenon DEF FamilyInv, TableInv
  <2>4. \A q \in allproc' : state'[q] \notin {"UNUSED", "USED"}
    BY <1>0, <1>1, <1>2, Zenon DEF FamilyInv, TableInv
  <2>5. \A q \in Proc : pc'[q] # "wait_free"
    <3>1. \A q \in Proc : pc[q] \in WaitLockPoints => q = p
      BY <1>0, OneHolder, Zenon DEF WaitLockPoints
    <3>2. QED
      BY <1>2, <3>1, Zenon DEF WaitLockPoints
  <2>6. ASSUME NEW q \in Proc, Childless(q)', NEW r \in allproc' PROVE parent'[r] # q
    <3>1. CASE r = np
      BY <1>2, <2>2, <2>6, <3>1, Zenon
    <3>2. CASE r # np
      <4>1. r \in allproc /\ r \in Proc /\ parent'[r] = parent[r]
        BY <1>0, <1>2, <2>6, <3>2, Zenon
      <4>2. Childless(q)
        BY <2>1, <2>2, <2>6, Zenon
      <4>3. QED
        BY <4>1, <4>2, Zenon DEF FamilyInv, TableInv
    <3>3. QED
      BY <3>1, <3>2, Zenon
  <2>7. QED
    BY <2>3, <2>4, <2>5, <2>6, Zenon DEF TableInv
<1>5. SleepInv'
  <2>1. WakingInit => WakingInit'
    <3>1. \A q \in Proc : pc[q] \in WakePoints => pc[q] \in WaitLockPoints /\ q # p
      BY <1>0, Zenon DEF WakePoints, WaitLockPoints
    <3>2. ~WakingInit
      BY <1>0, <3>1, OneHolder, Zenon DEF WakingInit, WaitLockPoints
    <3>3. QED
      BY <3>2, Zenon
  <2>2. ASSUME NEW q \in Proc, state'[q] = "SLEEPING"
        PROVE  /\ state[q] = "SLEEPING"
               /\ \A r : r \in allproc' /\ parent'[r] = q <=> r \in allproc /\ parent[r] = q
    <3>1. q # np /\ q # p /\ state[q] = "SLEEPING"
      BY <1>2, <1>3, <2>2, Zenon
    <3>2. QED
      BY <1>0, <1>1, <1>2, <3>1, Zenon
  <2>3. \A r \in allproc : state'[r] = "ZOMBIE" => state[r] = "ZOMBIE"
    BY <1>2, Zenon
  <2>4. QED
    BY <1>0, <2>1, <2>2, <2>3, SleepFrame, Zenon
<1>6. Waking(p)' /\ Scanning(p)'
  BY <1>2, Zenon DEF Waking, Scanning, ScanPoints, WakePoints
<1>7. state'[initproc] \notin {"UNUSED", "USED"}
  BY <1>2, Zenon DEF FamilyInv, InitprocInv, Childless
<1>8. /\ pc[p] \in WaitLockPoints
      /\ "trapret" \in QuietPoints \ {"exit_wait", "exit_reparent"}
  BY <1>0 DEF WaitLockPoints, QuietPoints, Points, ScanPoints, WakePoints, SchedPoints,
              ResumePoints
<1>9. QED
  BY <1>0, <1>4, <1>5, <1>6, <1>7, <1>8, HolderStep, Zenon

\* ForkAlloc keeps the invariant of the tree: a free object is on no list.
LEMMA ForkAllocFamily ==
    ASSUME CoreInv, FamilyInv, NEW c \in Cpu, NEW p \in Proc, ForkAlloc(c, p)
    PROVE  FamilyInv'
<1> USE InitprocAssumption, NullAssumption
<1>0. /\ cpuProc[c] = p /\ pc[p] = "user"
      /\ UNCHANGED <<todo, allproc, ttbr, cpuProc>>
  BY Zenon DEF ForkAlloc, At, cpuVars
<1>1. PICK np \in Proc :
        /\ state[np] = "UNUSED"
        /\ state' = [state EXCEPT ![np] = "USED"]
        /\ chan' = [chan EXCEPT ![np] = NULL]
        /\ parent' = [parent EXCEPT ![np] = NULL]
        /\ pc' = [pc EXCEPT ![np] = "forkret", ![p] = "fork_wait"]
        /\ arg' = [arg EXCEPT ![p] = np]
  BY Zenon DEF ForkAlloc
<1>2. np \notin allproc /\ p # np /\ state[p] = "RUNNING" /\ np # initproc
  BY <1>0, <1>1, Zenon
     DEF CoreInv, OnCpuInv, Running, SchedPoints, FamilyInv, TableInv, InitprocInv, Childless
<1>3. /\ pc'[p] = "fork_wait" /\ pc'[np] = "forkret"
      /\ \A q \in Proc : q # p /\ q # np => pc'[q] = pc[q]
      /\ state'[np] = "USED" /\ \A q \in Proc : q # np => state'[q] = state[q]
      /\ parent'[np] = NULL /\ \A q \in Proc : q # np => parent'[q] = parent[q]
      /\ \A q \in Proc : q # np => chan'[q] = chan[q]
      /\ \A q \in Proc : q # p => arg'[q] = arg[q]
      /\ allproc \in SUBSET Proc
      /\ \A q \in Proc : parent[q] \in Proc \cup {NULL}
  BY <1>0, <1>1, <1>2, Zenon DEF CoreInv, TypeOK
<1>4. TableInv'
  <2>1. \A q \in Proc : Childless(q)' => Childless(q)
    BY <1>0, <1>1, <1>3, Zenon DEF Childless
  <2>2. \A q \in Proc : pc'[q] = "wait_free" => arg'[q] \notin allproc'
    BY <1>0, <1>3, Zenon DEF FamilyInv, TableInv
  <2>3. \A q \in Proc : state'[q] \in {"RUNNABLE", "RUNNING", "SLEEPING"} => q \in allproc'
    BY <1>0, <1>3, Zenon DEF FamilyInv, TableInv
  <2>4. \A q \in allproc' : state'[q] \notin {"UNUSED", "USED"}
    BY <1>0, <1>2, <1>3, Zenon DEF FamilyInv, TableInv
  <2>5. \A q \in Proc : Childless(q)' => \A r \in allproc' : parent'[r] # q
    <3>1. \A r \in allproc : parent'[r] = parent[r]
      BY <1>2, <1>3, Zenon
    <3>2. QED
      BY <1>0, <2>1, <3>1, Zenon DEF FamilyInv, TableInv
  <2>6. QED
    BY <2>2, <2>3, <2>4, <2>5, Zenon DEF TableInv
<1>5. SleepInv'
  <2>1. WakingInit => WakingInit'
    <3>1. \A q \in Proc : pc[q] \in WakePoints => q # p /\ q # np
      <4>1. pc[np] \notin WakePoints
        BY <1>1, Zenon DEF CoreInv, OnCpuInv, OffCpuInv, WakePoints, SchedPoints
      <4>2. QED
        BY <1>0, <4>1, Zenon DEF WakePoints
    <3>2. QED
      BY <1>3, <3>1, Zenon DEF WakingInit
  <2>2. ASSUME NEW q \in Proc, state'[q] = "SLEEPING"
        PROVE  /\ state[q] = "SLEEPING" /\ chan'[q] = chan[q]
               /\ \A r : r \in allproc' /\ parent'[r] = q <=> r \in allproc /\ parent[r] = q
    <3>1. q # np
      BY <1>3, <2>2, Zenon
    <3>2. QED
      BY <1>0, <1>2, <1>3, <2>2, <3>1, Zenon
  <2>3. \A r \in allproc : state'[r] = "ZOMBIE" => state[r] = "ZOMBIE"
    BY <1>3, Zenon
  <2>4. QED
    BY <1>0, <2>1, <2>2, <2>3, SleepFrame, Zenon
<1>6. ASSUME NEW q \in Proc PROVE Scanning(q)' /\ Waking(q)'
  <2>1. CASE q = p \/ q = np
    BY <1>3, <2>1, Zenon DEF Scanning, Waking, ScanPoints, WakePoints
  <2>2. CASE q # p /\ q # np
    <3>1. /\ pc'[q] = pc[q] /\ arg'[q] = arg[q] /\ todo'[q] = todo[q]
          /\ parent'[q] = parent[q]
          /\ \A r \in allproc : parent'[r] = parent[r] /\ state'[r] = state[r]
          /\ \A r \in Proc : state'[r] = "SLEEPING" => state[r] = "SLEEPING"
          /\ parent[q] \in Proc \cup {NULL}
      BY <1>0, <1>2, <1>3, <2>2, Zenon
    <3>2. Scanning(q) /\ Waking(q)
      BY Zenon DEF FamilyInv
    <3>3. Scanning(q)'
      BY <1>0, <3>1, <3>2, Zenon DEF Scanning
    <3>4. Waking(q)'
      <4>1. /\ pc[q] \in WakePoints =>
                /\ arg[q] \in Proc
                /\ arg[q] # initproc =>
                    arg[q] = parent[q] /\ state'[initproc] # "SLEEPING"
            /\ pc[q] = "exit_zombie" =>
                (parent[q] # NULL => state'[parent[q]] # "SLEEPING")
        BY <3>1, <3>2, Zenon DEF Waking
      <4>2. pc[q] = "wakeup_scan" => (state'[arg[q]] = "SLEEPING" => arg[q] \in todo[q])
        BY <3>1, <3>2, <4>1, Zenon DEF Waking, WakePoints
      <4>3. QED
        BY <3>1, <4>1, <4>2, Zenon DEF Waking
    <3>5. QED
      BY <3>3, <3>4, Zenon
  <2>3. QED
    BY <2>1, <2>2, Zenon
<1>7. InitprocInv'
  BY <1>0, <1>2, <1>3, Zenon DEF FamilyInv, InitprocInv, Childless
<1>8. TtbrInv'
  BY <1>0, Zenon DEF FamilyInv, TtbrInv
<1>9. QED
  BY <1>4, <1>5, <1>6, <1>7, <1>8, Zenon DEF FamilyInv

-----------------------------------------------------------------------------
\* Every step keeps the invariant of the tree.
LEMMA NextFamilyInv ==
    ASSUME CoreInv, CoreInv', FamilyInv, [Next]_vars
    PROVE  FamilyInv'
<1>1. CASE UNCHANGED vars
  <2>1. UNCHANGED <<state, chan, parent, pc, arg, todo, allproc, ttbr, cpuProc>>
    BY <1>1, Zenon DEF vars, procVars, codeVars, cpuVars
  <2>2. Calm
    BY <2>1, Zenon DEF Calm
  <2>3. TtbrInv' /\ pc'[initproc] \notin {"exit_wait", "exit_reparent"}
    BY <2>1, Zenon DEF FamilyInv, TtbrInv, InitprocInv
  <2>4. QED
    BY <2>2, <2>3, CalmStep, Zenon
<1>2. ASSUME NEW c \in Cpu, NEW p \in Proc, KernelStep(c, p) PROVE FamilyInv'
  <2>1. CASE ReturnStep(c, p)
    BY <1>1, <2>1, QuietFamily, TrapRetFamily, Zenon DEF ReturnStep, QuietStep, Panicked
  <2>2. CASE ForkStep(c, p)
    BY <2>2, QuietFamily, ForkActivateFamily, Zenon DEF ForkStep, QuietStep
  <2>3. CASE ExitStep(c, p)
    BY <2>3, ExitWaitLockFamily, ExitReparentFamily, ExitZombieFamily, Zenon,
       WakeupStartFamily, WakeupVisitFamily, WakeupEndFamily DEF ExitStep
  <2>4. CASE WaitStep(c, p)
    BY <2>4, QuietFamily, WaitPtableLockFamily, WaitSkipFamily, WaitUnlinkFamily,
       WaitFreeFamily, WaitScanEndFamily, WaitKilledFamily, SleepFamily, Zenon
       DEF WaitStep, QuietStep
  <2>5. QED
    BY <1>2, <2>1, <2>2, <2>3, <2>4, KillFamily, Zenon DEF KernelStep
<1>3. ASSUME NEW c \in Cpu, NEW p \in Proc, UserStep(c, p) PROVE FamilyInv'
  BY <1>3, QuietFamily, ExitCallFamily, ForkAllocFamily, Zenon DEF UserStep, QuietStep
<1>4. ASSUME NEW c \in Cpu, NEW p \in Proc, Yield(c, p) PROVE FamilyInv'
  BY <1>4, QuietFamily, Zenon DEF QuietStep
<1>5. QED
  BY <1>1, <1>2, <1>3, <1>4, SchedulerFamily, Zenon DEF Next, ProcStep

\* The invariant of the process tree holds in every reachable state.
THEOREM FamilyInvariant == Spec => []FamilyInv
<1>1. QED
  BY InitFamilyInv, NextFamilyInv, CoreInvariant, PTL DEF Spec

\* The object that freeproc() gives back, and the one fork() has not published,
\* is out of everybody's reach: a use after the free of a struct proc, through a
\* list, a CPU, a page table or a parent pointer, is impossible.
THEOREM FreedIsUnreachable == Spec => []FreeIsUnreachable
<1>1. CoreInv /\ FamilyInv => FreeIsUnreachable
  <2> SUFFICES ASSUME CoreInv, FamilyInv, NEW p \in Proc, state[p] \in {"UNUSED", "USED"}
               PROVE  /\ p \notin allproc
                      /\ plock[p] = NULL
                      /\ \A c \in Cpu : cand[c] # p /\ cpuProc[c] # p /\ ttbr[c] # p
                      /\ \A i \in 1..Len(runq) : runq[i] # p
                      /\ \A q \in allproc : parent[q] # p
    BY Zenon DEF FreeIsUnreachable
  <2> USE NullAssumption
  <2>1. p \notin allproc /\ \A q \in allproc : parent[q] # p
    BY Zenon DEF FamilyInv, TableInv, Childless
  <2>2. \A c \in Cpu : cpuProc[c] # p
    BY Zenon DEF CoreInv, OnCpuInv, Running, SchedPoints
  <2>3. plock[p] = NULL
    <3>1. plock[p] \in Cpu \cup {NULL}
      BY Zenon DEF CoreInv, TypeOK
    <3>2. \A c \in Cpu : plock[p] # c
      BY <2>2, Zenon DEF CoreInv, PlockInv
    <3>3. QED
      BY <3>1, <3>2, Zenon
  <2>4. ~OnQueue(runq, p) /\ ~InHand(p)
    BY Zenon DEF CoreInv, RunqExact
  <2>5. \A c \in Cpu : cand[c] # p
    BY <2>2, <2>4, Zenon DEF CoreInv, CpuInv, InHand
  <2>6. \A c \in Cpu : ttbr[c] # p
    BY <2>2, Zenon DEF FamilyInv, TtbrInv
  <2>7. QED
    BY <2>1, <2>2, <2>3, <2>4, <2>5, <2>6, Zenon DEF OnQueue
<1>2. QED
  BY <1>1, CoreInvariant, FamilyInvariant, PTL

\* No wakeup is lost between exit() and wait(), whatever the number of processes
\* and CPUs: when wait_lock is free, who sleeps in wait() has a child that lives,
\* and none that waits to be reaped.
THEOREM NoExitIsLost == Spec => []NoLostExit
<1>1. CoreInv /\ FamilyInv => NoLostExit
  <2> SUFFICES ASSUME CoreInv, FamilyInv, NEW p \in Proc,
                      waitLock = NULL, state[p] = "SLEEPING"
               PROVE  /\ \E q \in allproc : parent[q] = p
                      /\ \A q \in allproc : parent[q] = p => state[q] # "ZOMBIE"
    BY Zenon DEF NoLostExit
  <2>1. /\ \E q \in allproc : parent[q] = p
        /\ \A q \in allproc : parent[q] = p /\ state[q] = "ZOMBIE" => WakingInit
    BY Zenon DEF FamilyInv, SleepInv
  <2>2. ~WakingInit
    BY OneHolder, Zenon DEF WakingInit, WakePoints, WaitLockPoints
  <2>3. QED
    BY <2>1, <2>2, Zenon
<1>2. QED
  BY <1>1, CoreInvariant, FamilyInvariant, PTL
=============================================================================

---------------------------- MODULE PanicProofs -----------------------------
(***************************************************************************)
(* Theorems about Panic for any number of CPUs: the lock excludes until    *)
(* locking is turned off, and one CPU reports.                             *)
(***************************************************************************)
EXTENDS Panic, TLAPS

\* A CPU that has not been started, waits or has left for good is in no lock operation.
RestInv ==
    \A c \in CPU :
        pc[c] \in {"off", "smp_wait", "boot_done", "stop_others", "parked"} => sp[c] = "out"

\* smp_init() has not started the CPUs from i on, except for the one it waits for.
SmpInv ==
    /\ pc[Boot] = "smp_wait" => i < ncpus
    /\ \A c \in CPU :
        c > i \/ (c = i /\ pc[Boot] \in {"smp_begin", "smp_on", "smp_fail"}) => pc[c] = "off"

\* Whoever reports is the owner of the panic.
PanicInv == \A c \in CPU : Reporting(c) => panic_cpu = c

Inside(c) == sp[c] \in {"got", "in", "drop"}

\* While locking is on: the lock word is set when a CPU is inside or is the noted
\* owner; the name is in the lock just while its CPU is in the section or has parked
\* or panicked there.
LockInv ==
    ~panicking =>
        /\ \A c, d \in CPU : Inside(c) /\ Inside(d) => c = d
        /\ \A c \in CPU :
            /\ Inside(c) \/ owner = c => locked
            /\ owner = c => sp[c] = "in" \/ pc[c] \in {"stop_others", "parked"}
            /\ sp[c] = "in" => owner = c
            /\ sp[c] \in {"got", "drop"} => owner = NULL

\* The inductive invariant.
IInv == TypeOK /\ RestInv /\ SmpInv /\ PanicInv /\ LockInv

-----------------------------------------------------------------------------
\* The boot CPU is one of them.
LEMMA BootIsCpu == Boot \in CPU /\ CPU \subseteq Nat
  BY PanicAssumption DEF Boot, CPU

\* The initial state, main() in smp_init(), satisfies the invariant.
LEMMA InitIInv == Init => IInv
<1> SUFFICES ASSUME Init PROVE IInv
  OBVIOUS
<1> USE PanicAssumption, BootIsCpu DEF Init
<1>1. TypeOK
  <2>1. pc \in [CPU -> Doing] /\ sp \in [CPU -> LockStep]
    BY Zenon DEF Doing, LockStep
  <2>2. i \in 1..ncpus
    OBVIOUS
  <2>3. QED
    BY <2>1, <2>2, Zenon DEF TypeOK
<1>2. RestInv
  BY Zenon DEF RestInv
<1>3. SmpInv
  BY DEF SmpInv, CPU, Boot
<1>4. PanicInv
  BY Zenon DEF PanicInv, Reporting
<1>5. LockInv
  BY Zenon DEF LockInv, Inside, CPU
<1>6. QED
  BY <1>1, <1>2, <1>3, <1>4, <1>5, Zenon DEF IInv

\* Swap keeps the invariant.
LEMMA SwapStep ==
    ASSUME IInv, NEW c \in CPU, Swap(c)
    PROVE  IInv'
<1> USE PanicAssumption, BootIsCpu DEF IInv, TypeOK, Swap, Goto, At, Acquire, StopSelf, smpVars, lockVars, panicVars
<1>1. TypeOK'
  BY Zenon DEF Doing, LockStep
<1>2. RestInv'
  BY Zenon DEF RestInv
<1>3. SmpInv'
  BY Zenon DEF SmpInv, Boot
<1>4. PanicInv'
  BY Zenon DEF PanicInv, Reporting
<1>5. LockInv'
  BY DEF LockInv, Inside, RestInv
<1>6. QED
  BY <1>1, <1>2, <1>3, <1>4, <1>5, Zenon

\* Check keeps the invariant.
LEMMA CheckStep ==
    ASSUME IInv, NEW c \in CPU, Check(c)
    PROVE  IInv'
<1> USE PanicAssumption, BootIsCpu DEF IInv, TypeOK, Check, Goto, At, Acquire, StopSelf, smpVars, lockVars, panicVars
<1>1. TypeOK'
  BY Zenon DEF Doing, LockStep
<1>2. RestInv'
  BY Zenon DEF RestInv
<1>3. SmpInv'
  BY Zenon DEF SmpInv, Boot
<1>4. PanicInv'
  BY Zenon DEF PanicInv, Reporting
<1>5. LockInv'
  BY DEF LockInv, Inside, RestInv
<1>6. QED
  BY <1>1, <1>2, <1>3, <1>4, <1>5, Zenon

\* Own keeps the invariant.
LEMMA OwnStep ==
    ASSUME IInv, NEW c \in CPU, Own(c)
    PROVE  IInv'
<1> USE PanicAssumption, BootIsCpu DEF IInv, TypeOK, Own, Goto, At, Acquire, StopSelf, smpVars, lockVars, panicVars
<1>1. TypeOK'
  BY Zenon DEF Doing, LockStep
<1>2. RestInv'
  BY Zenon DEF RestInv
<1>3. SmpInv'
  BY Zenon DEF SmpInv, Boot
<1>4. PanicInv'
  BY Zenon DEF PanicInv, Reporting
<1>5. LockInv'
  BY DEF LockInv, Inside, RestInv
<1>6. QED
  BY <1>1, <1>2, <1>3, <1>4, <1>5, Zenon

\* Release keeps the invariant.
LEMMA ReleaseStep ==
    ASSUME IInv, NEW c \in CPU, Release(c)
    PROVE  IInv'
<1> USE PanicAssumption, BootIsCpu DEF IInv, TypeOK, Release, Goto, At, Acquire, StopSelf, smpVars, lockVars, panicVars
<1>1. TypeOK'
  BY Zenon DEF Doing, LockStep
<1>2. RestInv'
  BY Zenon DEF RestInv
<1>3. SmpInv'
  BY Zenon DEF SmpInv, Boot
<1>4. PanicInv'
  BY Zenon DEF PanicInv, Reporting
<1>5. LockInv'
  BY DEF LockInv, Inside, RestInv
<1>6. QED
  BY <1>1, <1>2, <1>3, <1>4, <1>5, Zenon

\* Drop keeps the invariant.
LEMMA DropStep ==
    ASSUME IInv, NEW c \in CPU, Drop(c)
    PROVE  IInv'
<1> USE PanicAssumption, BootIsCpu DEF IInv, TypeOK, Drop, After, Goto, At, Acquire, StopSelf, smpVars, lockVars, panicVars
<1>1. TypeOK'
  BY Zenon DEF Doing, LockStep
<1>2. RestInv'
  BY Zenon DEF RestInv
<1>3. SmpInv'
  BY Zenon DEF SmpInv, Boot
<1>4. PanicInv'
  BY Zenon DEF PanicInv, Reporting
<1>5. LockInv'
  BY DEF LockInv, Inside, RestInv
<1>6. QED
  BY <1>1, <1>2, <1>3, <1>4, <1>5, Zenon

\* MpPrintk keeps the invariant.
LEMMA MpPrintkStep ==
    ASSUME IInv, NEW c \in CPU, MpPrintk(c)
    PROVE  IInv'
<1> USE PanicAssumption, BootIsCpu DEF IInv, TypeOK, MpPrintk, Goto, At, Acquire, StopSelf, smpVars, lockVars, panicVars
<1>1. TypeOK'
  BY Zenon DEF Doing, LockStep
<1>2. RestInv'
  BY Zenon DEF RestInv
<1>3. SmpInv'
  BY Zenon DEF SmpInv, Boot
<1>4. PanicInv'
  BY Zenon DEF PanicInv, Reporting
<1>5. LockInv'
  BY DEF LockInv, Inside, RestInv
<1>6. QED
  BY <1>1, <1>2, <1>3, <1>4, <1>5, Zenon

\* Online keeps the invariant.
LEMMA OnlineStep ==
    ASSUME IInv, NEW c \in CPU, Online(c)
    PROVE  IInv'
<1> USE PanicAssumption, BootIsCpu DEF IInv, TypeOK, Online, Goto, At, Acquire, StopSelf, smpVars, lockVars, panicVars
<1>1. TypeOK'
  BY Zenon DEF Doing, LockStep
<1>2. RestInv'
  BY Zenon DEF RestInv
<1>3. SmpInv'
  BY Zenon DEF SmpInv, Boot
<1>4. PanicInv'
  BY Zenon DEF PanicInv, Reporting
<1>5. LockInv'
  BY Zenon DEF LockInv, Inside, RestInv
<1>6. QED
  BY <1>1, <1>2, <1>3, <1>4, <1>5, Zenon

\* SchedulerRun keeps the invariant.
LEMMA SchedulerRunStep ==
    ASSUME IInv, NEW c \in CPU, SchedulerRun(c)
    PROVE  IInv'
<1> USE PanicAssumption, BootIsCpu DEF IInv, TypeOK, SchedulerRun, Goto, At, Acquire, StopSelf, smpVars, lockVars, panicVars
<1>1. TypeOK'
  BY Zenon DEF Doing, LockStep
<1>2. RestInv'
  BY Zenon DEF RestInv
<1>3. SmpInv'
  BY Zenon DEF SmpInv, Boot
<1>4. PanicInv'
  BY Zenon DEF PanicInv, Reporting
<1>5. LockInv'
  BY DEF LockInv, Inside, RestInv
<1>6. QED
  BY <1>1, <1>2, <1>3, <1>4, <1>5, Zenon

\* SchedulerStop keeps the invariant.
LEMMA SchedulerStopStep ==
    ASSUME IInv, NEW c \in CPU, SchedulerStop(c)
    PROVE  IInv'
<1> USE PanicAssumption, BootIsCpu DEF IInv, TypeOK, SchedulerStop, Goto, At, Acquire, StopSelf, smpVars, lockVars, panicVars
<1>1. TypeOK'
  BY Zenon DEF Doing, LockStep
<1>2. RestInv'
  BY Zenon DEF RestInv
<1>3. SmpInv'
  BY Zenon DEF SmpInv, Boot
<1>4. PanicInv'
  BY Zenon DEF PanicInv, Reporting
<1>5. LockInv'
  BY DEF LockInv, Inside, RestInv
<1>6. QED
  BY <1>1, <1>2, <1>3, <1>4, <1>5, Zenon

\* TakeSgi keeps the invariant.
LEMMA TakeSgiStep ==
    ASSUME IInv, NEW c \in CPU, TakeSgi(c)
    PROVE  IInv'
<1> USE PanicAssumption, BootIsCpu DEF IInv, TypeOK, TakeSgi, Goto, At, Acquire, StopSelf, smpVars, lockVars, panicVars
<1>1. TypeOK'
  BY Zenon DEF Doing, LockStep
<1>2. RestInv'
  BY Zenon DEF RestInv
<1>3. SmpInv'
  BY Zenon DEF SmpInv, Boot
<1>4. PanicInv'
  BY Zenon DEF PanicInv, Reporting
<1>5. LockInv'
  BY DEF LockInv, Inside, RestInv
<1>6. QED
  BY <1>1, <1>2, <1>3, <1>4, <1>5, Zenon

\* StopOthers keeps the invariant.
LEMMA StopOthersStep ==
    ASSUME IInv, NEW c \in CPU, StopOthers(c)
    PROVE  IInv'
<1> USE PanicAssumption, BootIsCpu DEF IInv, TypeOK, StopOthers, Goto, At, Acquire, StopSelf, smpVars, lockVars, panicVars
<1>1. TypeOK'
  BY Zenon DEF Doing, LockStep
<1>2. RestInv'
  BY Zenon DEF RestInv
<1>3. SmpInv'
  BY Zenon DEF SmpInv, Boot
<1>4. PanicInv'
  BY Zenon DEF PanicInv, Reporting
<1>5. LockInv'
  BY Zenon DEF LockInv, Inside, RestInv
<1>6. QED
  BY <1>1, <1>2, <1>3, <1>4, <1>5, Zenon

\* ReportDone keeps the invariant.
LEMMA ReportDoneStep ==
    ASSUME IInv, NEW c \in CPU, ReportDone(c)
    PROVE  IInv'
<1> USE PanicAssumption, BootIsCpu DEF IInv, TypeOK, ReportDone, Goto, At, Acquire, StopSelf, smpVars, lockVars, panicVars
<1>1. TypeOK'
  BY Zenon DEF Doing, LockStep
<1>2. RestInv'
  BY Zenon DEF RestInv
<1>3. SmpInv'
  BY Zenon DEF SmpInv, Boot
<1>4. PanicInv'
  BY Zenon DEF PanicInv, Reporting
<1>5. LockInv'
  BY DEF LockInv, Inside, RestInv
<1>6. QED
  BY <1>1, <1>2, <1>3, <1>4, <1>5, Zenon

\* Work keeps the invariant.
LEMMA WorkStep ==
    ASSUME IInv, NEW c \in CPU, Work(c)
    PROVE  IInv'
<1> USE PanicAssumption, BootIsCpu DEF IInv, TypeOK, Work, Goto, At, Acquire, StopSelf, smpVars, lockVars, panicVars
<1>1. TypeOK'
  BY Zenon DEF Doing, LockStep
<1>2. RestInv'
  BY Zenon DEF RestInv
<1>3. SmpInv'
  BY Zenon DEF SmpInv, Boot
<1>4. PanicInv'
  BY Zenon DEF PanicInv, Reporting
<1>5. LockInv'
  BY DEF LockInv, Inside, RestInv
<1>6. QED
  BY <1>1, <1>2, <1>3, <1>4, <1>5, Zenon

\* PanicOwn keeps the invariant.
LEMMA PanicOwnStep ==
    ASSUME IInv, NEW c \in CPU, PanicOwn(c)
    PROVE  IInv'
<1> USE PanicAssumption, BootIsCpu DEF IInv, TypeOK, PanicOwn, SendSgi, MayPanic, Goto, At, Acquire, StopSelf, smpVars, lockVars, panicVars
<1>1. TypeOK'
  BY Zenon DEF Doing, LockStep
<1>2. RestInv'
  BY Zenon DEF RestInv
<1>3. SmpInv'
  BY Zenon DEF SmpInv, Boot
<1>4. PanicInv'
  BY Zenon DEF PanicInv, Reporting
<1>5. LockInv'
  BY DEF LockInv, Inside, RestInv
<1>6. QED
  BY <1>1, <1>2, <1>3, <1>4, <1>5, Zenon

\* PanicLose keeps the invariant.
LEMMA PanicLoseStep ==
    ASSUME IInv, NEW c \in CPU, PanicLose(c)
    PROVE  IInv'
<1> USE PanicAssumption, BootIsCpu DEF IInv, TypeOK, PanicLose, MayPanic, Goto, At, Acquire, StopSelf, smpVars, lockVars, panicVars
<1>1. TypeOK'
  BY Zenon DEF Doing, LockStep
<1>2. RestInv'
  BY Zenon DEF RestInv
<1>3. SmpInv'
  BY Zenon DEF SmpInv, Boot
<1>4. PanicInv'
  BY Zenon DEF PanicInv, Reporting
<1>5. LockInv'
  BY DEF LockInv, Inside, RestInv
<1>6. QED
  BY <1>1, <1>2, <1>3, <1>4, <1>5, Zenon

\* Rearm keeps the invariant.
LEMMA RearmStep ==
    ASSUME IInv, NEW c \in CPU, Rearm(c)
    PROVE  IInv'
<1> USE PanicAssumption, BootIsCpu DEF IInv, TypeOK, Rearm, SendSgi, Goto, At, Acquire, StopSelf, smpVars, lockVars, panicVars
<1>1. TypeOK'
  BY Zenon DEF Doing, LockStep
<1>2. RestInv'
  BY Zenon DEF RestInv
<1>3. SmpInv'
  BY Zenon DEF SmpInv, Boot
<1>4. PanicInv'
  BY Zenon DEF PanicInv, Reporting
<1>5. LockInv'
  BY Zenon DEF LockInv, Inside, RestInv
<1>6. QED
  BY <1>1, <1>2, <1>3, <1>4, <1>5, Zenon

\* PanicNested keeps the invariant.
LEMMA PanicNestedStep ==
    ASSUME IInv, NEW c \in CPU, PanicNested(c)
    PROVE  IInv'
<1> USE PanicAssumption, BootIsCpu DEF IInv, TypeOK, PanicNested, Goto, At, Acquire, StopSelf, smpVars, lockVars, panicVars
<1>1. TypeOK'
  BY Zenon DEF Doing, LockStep
<1>2. RestInv'
  BY Zenon DEF RestInv
<1>3. SmpInv'
  BY Zenon DEF SmpInv, Boot
<1>4. PanicInv'
  BY Zenon DEF PanicInv, Reporting
<1>5. LockInv'
  BY Zenon DEF LockInv, Inside, RestInv
<1>6. QED
  BY <1>1, <1>2, <1>3, <1>4, <1>5, Zenon

\* CpuOn keeps the invariant.
LEMMA CpuOnStep ==
    ASSUME IInv, CpuOn
    PROVE  IInv'
<1> USE PanicAssumption, BootIsCpu DEF IInv, TypeOK, CpuOn, Goto, At, Acquire, StopSelf, smpVars, lockVars, panicVars
<1>1. TypeOK'
  BY Zenon DEF Doing, LockStep
<1>2. RestInv'
  BY Zenon DEF RestInv
<1>3. SmpInv'
  BY DEF SmpInv, Boot
<1>4. PanicInv'
  BY Zenon DEF PanicInv, Reporting
<1>5. LockInv'
  <2>1. i \in CPU /\ pc[i] = "off"
    BY DEF SmpInv, CPU
  <2>2. QED
    BY <2>1, Zenon DEF LockInv, Inside, RestInv
<1>6. QED
  BY <1>1, <1>2, <1>3, <1>4, <1>5, Zenon

\* CpuOnFails keeps the invariant.
LEMMA CpuOnFailsStep ==
    ASSUME IInv, CpuOnFails
    PROVE  IInv'
<1> USE PanicAssumption, BootIsCpu DEF IInv, TypeOK, CpuOnFails, Goto, At, Acquire, StopSelf, smpVars, lockVars, panicVars
<1>1. TypeOK'
  <2>1. i' \in 1..ncpus
    BY DEF SmpInv
  <2>2. QED
    BY <2>1, Zenon DEF Doing, LockStep
<1>2. RestInv'
  BY Zenon DEF RestInv
<1>3. SmpInv'
  BY DEF SmpInv, Boot
<1>4. PanicInv'
  BY Zenon DEF PanicInv, Reporting
<1>5. LockInv'
  BY DEF LockInv, Inside, RestInv
<1>6. QED
  BY <1>1, <1>2, <1>3, <1>4, <1>5, Zenon

\* SmpOnline keeps the invariant.
LEMMA SmpOnlineStep ==
    ASSUME IInv, SmpOnline
    PROVE  IInv'
<1> USE PanicAssumption, BootIsCpu DEF IInv, TypeOK, SmpOnline, Goto, At, Acquire, StopSelf, smpVars, lockVars, panicVars
<1>1. TypeOK'
  <2>1. i' \in 1..ncpus
    BY DEF SmpInv
  <2>2. QED
    BY <2>1, Zenon DEF Doing, LockStep
<1>2. RestInv'
  BY Zenon DEF RestInv
<1>3. SmpInv'
  BY DEF SmpInv, Boot
<1>4. PanicInv'
  BY Zenon DEF PanicInv, Reporting
<1>5. LockInv'
  BY DEF LockInv, Inside, RestInv
<1>6. QED
  BY <1>1, <1>2, <1>3, <1>4, <1>5, Zenon

\* SmpDeadline keeps the invariant.
LEMMA SmpDeadlineStep ==
    ASSUME IInv, SmpDeadline
    PROVE  IInv'
<1> USE PanicAssumption, BootIsCpu DEF IInv, TypeOK, SmpDeadline, Goto, At, Acquire, StopSelf, smpVars, lockVars, panicVars
<1>1. TypeOK'
  <2>1. i' \in 1..ncpus
    BY DEF SmpInv
  <2>2. QED
    BY <2>1, Zenon DEF Doing, LockStep
<1>2. RestInv'
  BY Zenon DEF RestInv
<1>3. SmpInv'
  BY DEF SmpInv, Boot
<1>4. PanicInv'
  BY Zenon DEF PanicInv, Reporting
<1>5. LockInv'
  BY DEF LockInv, Inside, RestInv
<1>6. QED
  BY <1>1, <1>2, <1>3, <1>4, <1>5, Zenon

\* SmpEnd keeps the invariant.
LEMMA SmpEndStep ==
    ASSUME IInv, SmpEnd
    PROVE  IInv'
<1> USE PanicAssumption, BootIsCpu DEF IInv, TypeOK, SmpEnd, Goto, At, Acquire, StopSelf, smpVars, lockVars, panicVars
<1>1. TypeOK'
  BY Zenon DEF Doing, LockStep
<1>2. RestInv'
  BY Zenon DEF RestInv
<1>3. SmpInv'
  BY Zenon DEF SmpInv, Boot
<1>4. PanicInv'
  BY Zenon DEF PanicInv, Reporting
<1>5. LockInv'
  BY DEF LockInv, Inside, RestInv
<1>6. QED
  BY <1>1, <1>2, <1>3, <1>4, <1>5, Zenon

\* Every step keeps the invariant.
LEMMA NextIInv == IInv /\ [Next]_vars => IInv'
<1> SUFFICES ASSUME IInv, [Next]_vars PROVE IInv'
  OBVIOUS
<1>1. CASE SmpStep
  BY <1>1, CpuOnStep, CpuOnFailsStep, SmpOnlineStep, SmpDeadlineStep, SmpEndStep DEF SmpStep
<1>2. ASSUME NEW c \in CPU, Step(c) PROVE IInv'
  BY <1>2, SwapStep, CheckStep, OwnStep, ReleaseStep, DropStep, MpPrintkStep, OnlineStep, Zenon,
     SchedulerRunStep, SchedulerStopStep, TakeSgiStep, StopOthersStep, ReportDoneStep DEF Step
<1>3. ASSUME NEW c \in CPU, Choice(c) PROVE IInv'
  BY <1>3, WorkStep, PanicOwnStep, PanicLoseStep, RearmStep, PanicNestedStep, Zenon DEF Choice
<1>4. CASE UNCHANGED vars
  BY <1>4 DEF IInv, TypeOK, RestInv, SmpInv, PanicInv, Reporting, LockInv, Inside, vars
<1>5. QED
  BY <1>1, <1>2, <1>3, <1>4 DEF Next, Halted

\* The invariant of panic.c, spinlock.c and smp.c together.
THEOREM PanicInvariant == Spec => []IInv
<1>1. QED
  BY InitIInv, NextIInv, PTL DEF Spec

\* acquire_spinlock() and release_spinlock() exclude, and their assertions hold,
\* until panic() turns locking off, for any number of CPUs.
THEOREM LockExcludesUntilPanic == Spec => []LockExcludes
<1>1. IInv => LockExcludes
  BY Zenon DEF IInv, TypeOK, LockInv, Inside, LockExcludes, holding_spinlock
<1>2. QED
  BY <1>1, PanicInvariant, PTL

\* The cmpxchg in panic() leaves one CPU to report, for any number of CPUs.
THEOREM OneCpuReports == Spec => []OneReporter
<1>1. IInv => OneReporter
  BY DEF IInv, PanicInv, OneReporter
<1>2. QED
  BY <1>1, PanicInvariant, PTL

=============================================================================

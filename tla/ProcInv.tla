------------------------------ MODULE ProcInv -------------------------------
(***************************************************************************)
(* The inductive invariant of Proc: the shapes its steps have, and that    *)
(* the steps of scheduler() and those a process takes on its own code,     *)
(* touching no process but itself, preserve it.                            *)
(***************************************************************************)
EXTENDS Proc, TLAPS

-----------------------------------------------------------------------------
(* The run queue.                                                          *)

\* runq_enqueue(): a process that is not queued is queued once, at the tail.
LEMMA Enqueue ==
    ASSUME NEW S, NEW q \in Seq(S), NEW p \in S
    PROVE  /\ Append(q, p) \in Seq(S)
           /\ \A x : OnQueue(Append(q, p), x) <=> OnQueue(q, x) \/ x = p
           /\ NoDuplicates(q) /\ ~OnQueue(q, p) => NoDuplicates(Append(q, p))
<1> DEFINE r == Append(q, p)
<1>1. /\ r \in Seq(S)
      /\ Len(q) \in Nat
      /\ Len(r) = Len(q) + 1
      /\ \A i \in 1..Len(q) : r[i] = q[i]
      /\ r[Len(q) + 1] = p
  OBVIOUS
<1>2. ASSUME NEW x PROVE OnQueue(r, x) <=> OnQueue(q, x) \/ x = p
  <2>1. 1..Len(r) = 1..Len(q) \cup {Len(q) + 1}
    BY <1>1
  <2>2. QED
    BY <1>1, <2>1 DEF OnQueue
<1>3. ASSUME NoDuplicates(q), ~OnQueue(q, p) PROVE NoDuplicates(r)
  BY <1>1, <1>3 DEF NoDuplicates, OnQueue
<1>4. QED
  BY <1>1, <1>2, <1>3

\* runq_dequeue(): the head leaves the queue and nothing else does.
LEMMA DequeueHead ==
    ASSUME NEW S, NEW q \in Seq(S), q # <<>>
    PROVE  /\ Head(q) \in S
           /\ Tail(q) \in Seq(S)
           /\ OnQueue(q, Head(q))
           /\ NoDuplicates(q) =>
                /\ NoDuplicates(Tail(q))
                /\ \A x : OnQueue(Tail(q), x) <=> OnQueue(q, x) /\ x # Head(q)
<1> DEFINE t == Tail(q)
<1>1. /\ t \in Seq(S)
      /\ Head(q) \in S
      /\ Head(q) = q[1]
      /\ Len(q) \in Nat
      /\ Len(q) >= 1
      /\ Len(t) = Len(q) - 1
      /\ \A i \in 1..Len(t) : t[i] = q[i + 1]
  OBVIOUS
<1>2. OnQueue(q, Head(q))
  BY <1>1 DEF OnQueue
<1>3. ASSUME NoDuplicates(q) PROVE NoDuplicates(t)
  <2> SUFFICES ASSUME NEW i \in 1..Len(t), NEW j \in 1..Len(t), t[i] = t[j]
               PROVE  i = j
    BY DEF NoDuplicates
  <2>1. i + 1 \in 1..Len(q) /\ j + 1 \in 1..Len(q) /\ q[i + 1] = q[j + 1]
    BY <1>1
  <2>2. QED
    BY <1>1, <1>3, <2>1 DEF NoDuplicates
<1>4. ASSUME NoDuplicates(q), NEW x
      PROVE  OnQueue(t, x) <=> OnQueue(q, x) /\ x # Head(q)
  <2>1. ASSUME NEW i \in 1..Len(t), t[i] = x PROVE OnQueue(q, x) /\ x # Head(q)
    <3>1. i + 1 \in 1..Len(q) /\ q[i + 1] = x /\ i + 1 # 1 /\ 1 \in 1..Len(q)
      BY <1>1, <2>1
    <3>2. QED
      BY <1>1, <1>4, <3>1 DEF NoDuplicates, OnQueue
  <2>2. ASSUME NEW i \in 1..Len(q), q[i] = x, x # Head(q) PROVE OnQueue(t, x)
    <3>1. i - 1 \in 1..Len(t) /\ t[i - 1] = x
      BY <1>1, <2>2
    <3>2. QED
      BY <3>1 DEF OnQueue
  <2>3. QED
    BY <2>1, <2>2, Zenon DEF OnQueue
<1>5. QED
  BY <1>1, <1>2, <1>3, <1>4

(***************************************************************************)
(* The inductive invariant.  Every lock is tied to the points of the code  *)
(* at which it is held, and the state of a process to the point its code   *)
(* has reached and to whether a CPU runs it.                               *)
(***************************************************************************)

ForkPoints == {"fork_wait", "fork_ptable", "fork_activate"}

\* The points at which the process holds p->lock, wait_lock and ptable_lock.
OwnLockPoints == SchedPoints \cup ResumePoints

WaitLockPoints ==
    {"fork_ptable", "fork_activate", "exit_reparent", "exit_wakeup",
     "wakeup_scan", "exit_zombie", "wait_ptable", "wait_scan", "wait_free",
     "wait_killed", "wait_sleep"}

PtableLockPoints == {"fork_activate", "wakeup_scan", "wait_scan", "kill_lock"}

Running(p) == \E c \in Cpu : cpuProc[c] = p

\* A CPU that runs a process took it from the run queue, and no other CPU did.
CpuInv ==
    /\ \A c \in Cpu : cpuProc[c] # NULL => cand[c] = cpuProc[c]
    /\ RunsOnce

PlockInv ==
    \A p \in Proc, c \in Cpu :
        plock[p] = c <=> cpuProc[c] = p /\ pc[p] \in OwnLockPoints

WaitLockInv ==
    \A c \in Cpu, p \in Proc : cpuProc[c] = p =>
        (waitLock = c <=> pc[p] \in WaitLockPoints)

PtableLockInv ==
    \A c \in Cpu, p \in Proc : cpuProc[c] = p =>
        (ptableLock = c <=> pc[p] \in PtableLockPoints)

\* A CPU in scheduler() holds neither of the two.
IdleInv ==
    \A c \in Cpu : cpuProc[c] = NULL => waitLock # c /\ ptableLock # c

OnCpuInv ==
    \A p \in Proc : Running(p) =>
        /\ pc[p] # "dead"
        /\ pc[p] = "yield_sched" => state[p] = "RUNNABLE"
        /\ pc[p] = "sleep_sched" => state[p] = "SLEEPING"
        /\ pc[p] = "exit_sched" => state[p] = "ZOMBIE"
        /\ pc[p] \notin SchedPoints => state[p] = "RUNNING"

OffCpuInv ==
    \A p \in Proc : ~Running(p) =>
        /\ state[p] # "RUNNING"
        /\ state[p] = "RUNNABLE" => pc[p] \in ResumePoints
        /\ state[p] = "SLEEPING" => pc[p] = "sleep_ret"
        /\ state[p] = "USED" => pc[p] = "forkret"
        /\ state[p] \in {"ZOMBIE", "UNUSED"} => pc[p] = "dead"

\* The object fork() builds is its own.
ForkInv ==
    /\ \A p \in Proc : pc[p] \in ForkPoints =>
        arg[p] \in Proc /\ state[arg[p]] = "USED"
    /\ \A p, q \in Proc :
        pc[p] \in ForkPoints /\ pc[q] \in ForkPoints /\ arg[p] = arg[q] => p = q

\* The object wait() frees is a process that has left its CPU for good.
ReapInv ==
    \A p \in Proc : pc[p] = "wait_free" =>
        arg[p] \in Proc /\ state[arg[p]] = "ZOMBIE" /\ pc[arg[p]] = "dead"

KillInv == \A p \in Proc : pc[p] = "kill_lock" => arg[p] \in Proc

CoreInv ==
    /\ TypeOK /\ CpuInv /\ PlockInv /\ WaitLockInv /\ PtableLockInv /\ IdleInv
    /\ OnCpuInv /\ OffCpuInv /\ ForkInv /\ ReapInv /\ KillInv /\ RunqExact

\* The parts of the invariant about the two global locks, and about the object a
\* process is working on.
LocksInv == WaitLockInv /\ PtableLockInv /\ IdleInv

ArgInv == ForkInv /\ ReapInv /\ KillInv

\* The state userinit() leaves satisfies the invariant.
LEMMA InitCoreInv == Init => CoreInv
<1> SUFFICES ASSUME Init PROVE CoreInv
  OBVIOUS
<1> USE InitprocAssumption, NullAssumption DEF Init
<1>1. <<initproc>> \in Seq(Proc) /\ Len(<<initproc>>) = 1 /\ <<initproc>>[1] = initproc
  OBVIOUS
<1>2. TypeOK
  BY <1>1, Zenon DEF TypeOK, States, Points, ResumePoints, SchedPoints
<1>3. \A p : OnQueue(runq, p) <=> p = initproc
  BY <1>1 DEF OnQueue
<1>4. NoDuplicates(runq)
  BY <1>1 DEF NoDuplicates
<1>5. RunqExact
  BY <1>3, <1>4, Zenon DEF RunqExact, InHand, Yielding, At
<1>6. CpuInv /\ PlockInv /\ WaitLockInv /\ PtableLockInv /\ IdleInv
  BY Zenon DEF CpuInv, RunsOnce, PlockInv, WaitLockInv, PtableLockInv, IdleInv
<1>7. OnCpuInv /\ OffCpuInv /\ ForkInv /\ ReapInv /\ KillInv
  BY Zenon DEF OnCpuInv, OffCpuInv, ForkInv, ReapInv, KillInv, Running, ForkPoints,
         ResumePoints
<1>8. QED
  BY <1>2, <1>5, <1>6, <1>7, Zenon DEF CoreInv

-----------------------------------------------------------------------------
(***************************************************************************)
(* Steps that have the same shape in several actions.                      *)
(***************************************************************************)

\* What only depends on who runs what, and on the run queue.
PlaceInv == CpuInv /\ PlockInv /\ OnCpuInv /\ OffCpuInv /\ RunqExact

\* A process moves between two points at neither of which it holds p->lock.
LEMMA Move ==
    ASSUME CoreInv,
           NEW c \in Cpu, NEW p \in Proc, NEW x \in Points \ OwnLockPoints,
           cpuProc[c] = p, pc[p] \notin OwnLockPoints, x # "dead",
           pc' = [pc EXCEPT ![p] = x],
           UNCHANGED <<state, cpuProc, cand, plock, runq>>
    PROVE  PlaceInv'
<1> USE DEF CoreInv, TypeOK, OwnLockPoints, SchedPoints, ResumePoints
<1>1. CpuInv'
  BY Zenon DEF CpuInv, RunsOnce
<1>2. PlockInv'
  BY DEF PlockInv
<1>3. OnCpuInv'
  BY DEF OnCpuInv, Running
<1>4. OffCpuInv'
  BY Zenon DEF OffCpuInv, Running
<1>5. \A q \in Proc : Yielding(q)' <=> Yielding(q)
  BY Zenon DEF Yielding, At
<1>6. \A q \in Proc : InHand(q)' <=> InHand(q)
  BY Zenon DEF InHand
<1>7. RunqExact'
  BY <1>5, <1>6, Zenon DEF RunqExact
<1>8. QED
  BY <1>1, <1>2, <1>3, <1>4, <1>7, Zenon DEF PlaceInv

\* A process that swtch() returned into drops p->lock and goes on.
LEMMA Unlock ==
    ASSUME CoreInv,
           NEW c \in Cpu, NEW p \in Proc, NEW x \in Points \ OwnLockPoints,
           cpuProc[c] = p, pc[p] \in ResumePoints, x # "dead",
           pc' = [pc EXCEPT ![p] = x],
           plock' = [plock EXCEPT ![p] = NULL],
           UNCHANGED <<state, cpuProc, cand, runq>>
    PROVE  PlaceInv'
<1> USE NullAssumption DEF CoreInv, TypeOK, OwnLockPoints, SchedPoints, ResumePoints
<1>1. CpuInv'
  BY Zenon DEF CpuInv, RunsOnce
<1>2. PlockInv'
  BY DEF PlockInv
<1>3. OnCpuInv'
  BY DEF OnCpuInv, Running
<1>4. OffCpuInv'
  BY Zenon DEF OffCpuInv, Running
<1>5. \A q \in Proc : Yielding(q)' <=> Yielding(q)
  BY Zenon DEF Yielding, At
<1>6. \A q \in Proc : InHand(q)' <=> InHand(q)
  BY Zenon DEF InHand
<1>7. RunqExact'
  BY <1>5, <1>6, Zenon DEF RunqExact
<1>8. QED
  BY <1>1, <1>2, <1>3, <1>4, <1>7, Zenon DEF PlaceInv

\* A running process takes p->lock, leaves the RUNNING state and enters sched().
LEMMA EnterSched ==
    ASSUME CoreInv,
           NEW c \in Cpu, NEW p \in Proc, NEW x \in SchedPoints,
           NEW s \in {"RUNNABLE", "SLEEPING", "ZOMBIE"},
           cpuProc[c] = p, pc[p] \notin OwnLockPoints,
           x = "yield_sched" <=> s = "RUNNABLE",
           x = "sleep_sched" <=> s = "SLEEPING",
           pc' = [pc EXCEPT ![p] = x],
           state' = [state EXCEPT ![p] = s],
           plock' = [plock EXCEPT ![p] = c],
           UNCHANGED <<cpuProc, cand, runq>>
    PROVE  PlaceInv'
<1> USE NullAssumption DEF CoreInv, TypeOK, OwnLockPoints, SchedPoints, ResumePoints
<1>0. /\ Running(p)
      /\ state[p] = "RUNNING"
      /\ \A d \in Cpu : cpuProc[d] = p => d = c
  BY DEF OnCpuInv, Running, CpuInv, RunsOnce
<1>1. CpuInv'
  BY Zenon DEF CpuInv, RunsOnce
<1>2. PlockInv'
  BY <1>0 DEF PlockInv
<1>3. OnCpuInv'
  BY <1>0 DEF OnCpuInv, Running
<1>4. OffCpuInv'
  BY <1>0 DEF OffCpuInv, Running
<1>5. \A q \in Proc : q # p => (Yielding(q)' <=> Yielding(q))
  BY Zenon DEF Yielding, At
<1>6. \A q \in Proc : InHand(q)' <=> InHand(q)
  BY Zenon DEF InHand
<1>7. Yielding(p)' <=> s = "RUNNABLE"
  BY Zenon DEF Yielding, At
<1>8. ~OnQueue(runq, p) /\ ~InHand(p)
  BY <1>0, Zenon DEF RunqExact
<1>9. RunqExact'
  BY <1>5, <1>6, <1>7, <1>8 DEF RunqExact
<1>10. QED
  BY <1>1, <1>2, <1>3, <1>4, <1>9, Zenon DEF PlaceInv

\* A process that holds no p->lock makes a sleeper whose lock is free, and which
\* has left its CPU therefore, RUNNABLE and queues it: wakeup() and kill().
LEMMA WakeSleeper ==
    ASSUME CoreInv,
           NEW c \in Cpu, NEW p \in Proc, NEW x \in Points \ OwnLockPoints,
           cpuProc[c] = p, pc[p] \notin OwnLockPoints, x # "dead",
           pc' = [pc EXCEPT ![p] = x],
           NEW q \in Proc, state[q] = "SLEEPING", plock[q] = NULL,
           state' = [state EXCEPT ![q] = "RUNNABLE"],
           runq' = Append(runq, q),
           UNCHANGED <<cpuProc, cand, plock>>
    PROVE  PlaceInv'
<1> USE NullAssumption DEF CoreInv, TypeOK, OwnLockPoints, SchedPoints, ResumePoints
<1>0. ~Running(q) /\ pc[q] = "sleep_ret" /\ p # q
  <2>1. ASSUME Running(q) PROVE FALSE
    <3>1. PICK d \in Cpu : cpuProc[d] = q
      BY <2>1, Zenon DEF Running
    <3>2. pc[q] \in SchedPoints
      BY <2>1, Zenon DEF OnCpuInv
    <3>3. plock[q] = d
      BY <3>1, <3>2 DEF PlockInv
    <3>4. QED
      BY <3>3, Zenon
  <2>2. QED
    BY <2>1, Zenon DEF OffCpuInv, Running
<1>1. CpuInv'
  BY Zenon DEF CpuInv, RunsOnce
<1>2. PlockInv'
  BY <1>0 DEF PlockInv
<1>3. OnCpuInv'
  BY <1>0 DEF OnCpuInv, Running
<1>4. OffCpuInv'
  BY <1>0 DEF OffCpuInv, Running
<1>5. \A r \in Proc : /\ Yielding(r)' <=> Yielding(r)
                      /\ InHand(r)' <=> InHand(r)
  BY Zenon DEF Yielding, At, InHand
<1>6. ~OnQueue(runq, q) /\ ~InHand(q) /\ ~Yielding(q)
  BY Zenon DEF RunqExact
<1>7. /\ \A r \in Proc : OnQueue(runq', r) <=> OnQueue(runq, r) \/ r = q
      /\ NoDuplicates(runq')
  BY <1>6, Enqueue, Zenon DEF RunqExact
<1>8. RunqExact'
  BY <1>5, <1>6, <1>7 DEF RunqExact
<1>9. QED
  BY <1>1, <1>2, <1>3, <1>4, <1>8, Zenon DEF PlaceInv

-----------------------------------------------------------------------------
\* A step that changes nothing.
LEMMA Stutter ==
    ASSUME CoreInv, UNCHANGED vars
    PROVE  CoreInv'
<1> USE DEF CoreInv, vars, procVars, codeVars, cpuVars, lockVars
<1>1. TypeOK'
  BY Zenon DEF TypeOK
<1>2. CpuInv' /\ PlockInv' /\ OnCpuInv' /\ OffCpuInv'
  BY DEF CpuInv, RunsOnce, PlockInv, OnCpuInv, OffCpuInv, Running
<1>3. LocksInv' /\ ArgInv'
  BY Zenon DEF LocksInv, WaitLockInv, PtableLockInv, IdleInv, ArgInv, ForkInv, ReapInv,
         KillInv
<1>4. RunqExact'
  BY DEF RunqExact, InHand, Yielding, At
<1>5. QED
  BY <1>1, <1>2, <1>3, <1>4, Zenon DEF LocksInv, ArgInv

(* The steps of scheduler() *)

\* Dequeue keeps the invariant.
LEMMA DequeueStep ==
    ASSUME CoreInv, NEW c \in Cpu, Dequeue(c)
    PROVE  CoreInv'
<1> USE NullAssumption
    DEF CoreInv, TypeOK, Points, SchedPoints, ResumePoints
<1> DEFINE h == Head(runq)
<1>0. /\ cand[c] = NULL /\ runq # <<>>
      /\ cand' = [cand EXCEPT ![c] = h]
      /\ runq' = Tail(runq)
      /\ UNCHANGED <<state, chan, killed, parent, pagetable, pc, arg, todo, cpuProc,
                     ttbr, plock, waitLock, ptableLock, allproc>>
  BY Zenon DEF Dequeue, procVars, codeVars, lockVars
<1>1. /\ h \in Proc /\ runq' \in Seq(Proc)
      /\ OnQueue(runq, h)
      /\ NoDuplicates(runq')
      /\ \A q \in Proc : OnQueue(runq', q) <=> OnQueue(runq, q) /\ q # h
  BY <1>0, DequeueHead, Zenon DEF RunqExact
<1> HIDE DEF h
<1>2. ~InHand(h) /\ ~Yielding(h) /\ state[h] = "RUNNABLE" /\ cpuProc[c] = NULL
  BY <1>0, <1>1, Zenon DEF RunqExact, CpuInv
<1>3. \A d \in Cpu : cand[d] # h
  <2> SUFFICES ASSUME NEW d \in Cpu, cand[d] = h PROVE FALSE
    BY Zenon
  <2>1. cpuProc[d] = h
    BY <1>1, <1>2, Zenon DEF InHand, CpuInv
  <2>2. pc[h] = "yield_sched"
    BY <1>1, <1>2, <2>1, Zenon DEF OnCpuInv, Running
  <2>3. QED
    BY <1>2, <2>1, <2>2, Zenon DEF Yielding, At
<1>4. TypeOK'
  BY <1>0, <1>1, Zenon DEF States
<1>5. CpuInv'
  BY <1>0, <1>1, <1>2, <1>3, Zenon DEF CpuInv, RunsOnce
<1>6. PlockInv' /\ OnCpuInv' /\ OffCpuInv'
  BY <1>0 DEF PlockInv, OnCpuInv, OffCpuInv, Running, OwnLockPoints
<1>7. RunqExact'
  <2>1. \A q \in Proc : /\ Yielding(q)' <=> Yielding(q)
                        /\ InHand(q)' <=> InHand(q) \/ q = h
    BY <1>0, <1>1, <1>2 DEF Yielding, At, InHand
  <2>2. QED
    BY <1>0, <1>1, <1>2, <2>1 DEF RunqExact
<1>8. LocksInv'
  BY <1>0, Zenon DEF LocksInv, WaitLockInv, PtableLockInv, IdleInv
<1>9. ArgInv'
  BY <1>0, Zenon DEF ArgInv, ForkInv, ReapInv, KillInv
<1>10. QED
  BY <1>4, <1>5, <1>6, <1>7, <1>8, <1>9, Zenon DEF LocksInv, ArgInv

\* Dispatch keeps the invariant.
LEMMA DispatchStep ==
    ASSUME CoreInv, NEW c \in Cpu, Dispatch(c)
    PROVE  CoreInv'
<1> USE NullAssumption
    DEF CoreInv, TypeOK, Points, SchedPoints, ResumePoints
<1> DEFINE p == cand[c]
<1>0. p \in Proc /\ cpuProc[c] = NULL /\ plock[p] = NULL
  BY Zenon DEF Dispatch
<1>1. InHand(p)
  BY <1>0, Zenon DEF InHand
<1>2. /\ state[p] = "RUNNABLE"
      /\ ~OnQueue(runq, p)
      /\ ~Yielding(p)
  BY <1>0, <1>1, Zenon DEF RunqExact
<1>3. /\ state' = [state EXCEPT ![p] = "RUNNING"]
      /\ cpuProc' = [cpuProc EXCEPT ![c] = p]
      /\ plock' = [plock EXCEPT ![p] = c]
      /\ UNCHANGED <<chan, killed, parent, pagetable, pc, arg, todo, cand, waitLock,
                     ptableLock, allproc, runq>>
  BY <1>2, Zenon DEF Dispatch, codeVars
<1>4. ttbr' \in [Cpu -> Proc \cup {NULL}]
  <2>1. \E x \in {p, ttbr[c]} : ttbr' = [ttbr EXCEPT ![c] = x]
    BY <1>2, Zenon DEF Dispatch
  <2>2. QED
    BY <1>0, <2>1, Zenon
<1> HIDE DEF p
<1>5. cand[c] = p /\ ~Running(p)
  BY <1>0 DEF p, Running, CpuInv, RunsOnce
<1>6. pc[p] \in ResumePoints
  BY <1>0, <1>2, <1>5, Zenon DEF OffCpuInv
<1>7. TypeOK'
  BY <1>0, <1>3, <1>4, Zenon DEF States
<1>8. CpuInv'
  BY <1>0, <1>3, <1>5, Zenon DEF CpuInv, RunsOnce
<1>9. PlockInv'
  BY <1>0, <1>3, <1>5, <1>6 DEF PlockInv, OwnLockPoints, Running
<1>10. \A q \in Proc : Running(q)' <=> Running(q) \/ q = p
  BY <1>0, <1>3, <1>5 DEF Running
<1>11. OnCpuInv' /\ OffCpuInv'
  BY <1>0, <1>3, <1>6, <1>10 DEF OnCpuInv, OffCpuInv
<1>12. RunqExact'
  <2>1. \A q \in Proc : Yielding(q)' <=> Yielding(q)
    BY <1>0, <1>3, <1>6 DEF Yielding, At
  <2>2. \A q \in Proc : InHand(q)' <=> InHand(q) /\ q # p
    BY <1>0, <1>3, <1>5 DEF InHand, CpuInv, RunsOnce
  <2>3. QED
    BY <1>0, <1>2, <1>3, <2>1, <2>2 DEF RunqExact
<1>13. LocksInv'
  BY <1>0, <1>3, <1>6 DEF LocksInv, WaitLockInv, PtableLockInv, IdleInv,
     WaitLockPoints, PtableLockPoints
<1>14. ArgInv'
  BY <1>0, <1>2, <1>3, Zenon DEF ArgInv, ForkInv, ReapInv, KillInv
<1>15. QED
  BY <1>7, <1>8, <1>9, <1>11, <1>12, <1>13, <1>14, Zenon DEF LocksInv, ArgInv

\* SwitchBack keeps the invariant.
LEMMA SwitchBackStep ==
    ASSUME CoreInv, NEW c \in Cpu, SwitchBack(c)
    PROVE  CoreInv'
<1> USE NullAssumption
    DEF CoreInv, TypeOK, Points, SchedPoints, ResumePoints
<1> DEFINE p == cpuProc[c]
<1>0. /\ p \in Proc /\ pc[p] \in SchedPoints
      /\ pc' = [pc EXCEPT ![p] = ResumePoint(pc[p])]
      /\ cpuProc' = [cpuProc EXCEPT ![c] = NULL]
      /\ cand' = [cand EXCEPT ![c] = NULL]
      /\ ttbr' = [ttbr EXCEPT ![c] = NULL]
      /\ runq' = IF state[p] = "RUNNABLE" THEN Append(runq, p) ELSE runq
      /\ plock' = [plock EXCEPT ![p] = NULL]
      /\ UNCHANGED <<state, chan, killed, parent, pagetable, arg, todo, waitLock,
                     ptableLock, allproc>>
  BY Zenon DEF SwitchBack, procVars
<1> HIDE DEF p
<1>1. cpuProc[c] = p /\ cand[c] = p /\ Running(p)
  BY <1>0, Zenon DEF p, CpuInv, Running
<1>2. /\ state[p] = "RUNNABLE" => pc[p] = "yield_sched" /\ pc'[p] = "yield_ret"
      /\ state[p] = "SLEEPING" => pc'[p] = "sleep_ret"
      /\ state[p] = "ZOMBIE" => pc'[p] = "dead"
      /\ state[p] \in {"RUNNABLE", "SLEEPING", "ZOMBIE"}
      /\ pc'[p] \in {"yield_ret", "sleep_ret", "dead"}
      /\ pc[p] = "yield_sched" => state[p] = "RUNNABLE"
  BY <1>0, <1>1, Zenon DEF OnCpuInv, ResumePoint
<1>3. \A q \in Proc : q # p => pc'[q] = pc[q]
  BY <1>0, Zenon
<1>4. Append(runq, p) \in Seq(Proc)
  BY <1>0, Enqueue, Zenon
<1>5. pc' \in [Proc -> Points]
  BY <1>0, <1>2, Zenon
<1>6. TypeOK'
  BY <1>0, <1>4, <1>5, Zenon DEF States
<1>7. CpuInv'
  BY <1>0 DEF CpuInv, RunsOnce
<1>8. \A q \in Proc : Running(q)' <=> Running(q) /\ q # p
  BY <1>0, <1>1 DEF Running, CpuInv, RunsOnce
<1>9. PlockInv'
  <2> SUFFICES ASSUME NEW q \in Proc, NEW d \in Cpu
               PROVE  plock'[q] = d <=> cpuProc'[d] = q /\ pc'[q] \in OwnLockPoints
    BY Zenon DEF PlockInv
  <2>1. CASE q = p
    BY <1>0, <1>1, <2>1, <1>8 DEF Running
  <2>2. CASE q # p
    <3>1. cpuProc'[d] = q <=> cpuProc[d] = q
      BY <1>0, <1>1, <2>2, Zenon
    <3>2. plock'[q] = plock[q] /\ pc'[q] = pc[q]
      BY <1>0, <2>2, Zenon
    <3>3. QED
      BY <3>1, <3>2 DEF PlockInv
  <2>3. QED
    BY <2>1, <2>2, Zenon
<1>10. OnCpuInv'
  BY <1>0, <1>3, <1>8 DEF OnCpuInv
<1>11. OffCpuInv'
  <2> SUFFICES ASSUME NEW q \in Proc, ~Running(q)'
               PROVE  /\ state'[q] # "RUNNING"
                      /\ state'[q] = "RUNNABLE" => pc'[q] \in ResumePoints
                      /\ state'[q] = "SLEEPING" => pc'[q] = "sleep_ret"
                      /\ state'[q] = "USED" => pc'[q] = "forkret"
                      /\ state'[q] \in {"ZOMBIE", "UNUSED"} => pc'[q] = "dead"
    BY Zenon DEF OffCpuInv
  <2>1. CASE q = p
    BY <1>0, <1>2, <2>1, Zenon
  <2>2. CASE q # p
    BY <1>0, <1>3, <1>8, <2>2, Zenon DEF OffCpuInv
  <2>3. QED
    BY <2>1, <2>2, Zenon
<1>12. RunqExact'
  <2>1. \A q \in Proc : InHand(q)' <=> InHand(q)
    BY <1>0, <1>1 DEF InHand
  <2>2. \A q \in Proc : Yielding(q)' <=> Yielding(q) /\ q # p
    BY <1>0, <1>1, <1>3, <1>8 DEF Yielding, At, Running
  <2>3. CASE state[p] = "RUNNABLE"
    <3>1. Yielding(p)
      BY <1>1, <1>2, <2>3, Zenon DEF Yielding, At
    <3>2. ~OnQueue(runq, p) /\ ~InHand(p)
      BY <1>0, <3>1, Zenon DEF RunqExact
    <3>3. /\ \A q \in Proc : OnQueue(runq', q) <=> OnQueue(runq, q) \/ q = p
          /\ NoDuplicates(runq')
      BY <1>0, <2>3, <3>2, Enqueue DEF RunqExact
    <3>4. QED
      BY <1>0, <2>1, <2>2, <2>3, <3>2, <3>3 DEF RunqExact
  <2>4. CASE state[p] # "RUNNABLE"
    BY <1>0, <2>1, <2>2, <2>4, Zenon DEF RunqExact
  <2>5. QED
    BY <2>3, <2>4, Zenon
<1>13. LocksInv'
  <2>1. waitLock # c /\ ptableLock # c
    BY <1>0, <1>1, Zenon DEF WaitLockInv, PtableLockInv, WaitLockPoints, PtableLockPoints
  <2>2. \A d \in Cpu, q \in Proc :
          cpuProc'[d] = q => cpuProc[d] = q /\ pc'[q] = pc[q]
    BY <1>0, <1>3, <1>8 DEF Running
  <2>3. WaitLockInv' /\ PtableLockInv'
    BY <1>0, <2>2 DEF WaitLockInv, PtableLockInv
  <2>4. IdleInv'
    BY <1>0, <2>1, Zenon DEF IdleInv
  <2>5. QED
    BY <2>3, <2>4, Zenon DEF LocksInv
<1>14. ArgInv'
  BY <1>0, <1>2, <1>3 DEF ArgInv, ForkInv, ReapInv, KillInv, ForkPoints
<1>15. QED
  BY <1>6, <1>7, <1>9, <1>10, <1>11, <1>12, <1>13, <1>14, Zenon DEF LocksInv, ArgInv

(* The steps a process takes on its own code *)

\* Forkret keeps the invariant.
LEMMA ForkretStep ==
    ASSUME CoreInv, NEW c \in Cpu, NEW p \in Proc, Forkret(c, p)
    PROVE  CoreInv'
<1> USE InitprocAssumption, NullAssumption
    DEF Forkret, At, Goto, Points, SchedPoints, ResumePoints,
        procVars, codeVars, cpuVars, lockVars
<1>1. TypeOK'
  BY Zenon DEF CoreInv, TypeOK, States
<1>2. PlaceInv'
  BY Unlock, Zenon DEF OwnLockPoints
<1>3. LocksInv'
  BY DEF CoreInv, TypeOK, LocksInv, WaitLockInv, PtableLockInv, IdleInv,
         WaitLockPoints, PtableLockPoints, CpuInv, RunsOnce
<1>4. ArgInv'
  BY DEF CoreInv, TypeOK, ArgInv, ForkInv, ReapInv, KillInv, ForkPoints
<1>5. QED
  BY <1>1, <1>2, <1>3, <1>4, Zenon DEF CoreInv, PlaceInv, LocksInv, ArgInv

\* YieldRet keeps the invariant.
LEMMA YieldRetStep ==
    ASSUME CoreInv, NEW c \in Cpu, NEW p \in Proc, YieldRet(c, p)
    PROVE  CoreInv'
<1> USE InitprocAssumption, NullAssumption
    DEF YieldRet, At, Goto, Points, SchedPoints, ResumePoints,
        procVars, codeVars, cpuVars, lockVars
<1>1. TypeOK'
  BY Zenon DEF CoreInv, TypeOK, States
<1>2. PlaceInv'
  BY Unlock, Zenon DEF OwnLockPoints
<1>3. LocksInv'
  BY DEF CoreInv, TypeOK, LocksInv, WaitLockInv, PtableLockInv, IdleInv,
         WaitLockPoints, PtableLockPoints, CpuInv, RunsOnce
<1>4. ArgInv'
  BY DEF CoreInv, TypeOK, ArgInv, ForkInv, ReapInv, KillInv, ForkPoints
<1>5. QED
  BY <1>1, <1>2, <1>3, <1>4, Zenon DEF CoreInv, PlaceInv, LocksInv, ArgInv

\* SleepRet keeps the invariant.
LEMMA SleepRetStep ==
    ASSUME CoreInv, NEW c \in Cpu, NEW p \in Proc, SleepRet(c, p)
    PROVE  CoreInv'
<1> USE InitprocAssumption, NullAssumption
    DEF SleepRet, At, Goto, Points, SchedPoints, ResumePoints,
        procVars, codeVars, cpuVars, lockVars
<1>1. TypeOK'
  BY Zenon DEF CoreInv, TypeOK, States
<1>2. PlaceInv'
  BY Unlock, Zenon DEF OwnLockPoints
<1>3. LocksInv'
  BY DEF CoreInv, TypeOK, LocksInv, WaitLockInv, PtableLockInv, IdleInv,
         WaitLockPoints, PtableLockPoints, CpuInv, RunsOnce
<1>4. ArgInv'
  BY DEF CoreInv, TypeOK, ArgInv, ForkInv, ReapInv, KillInv, ForkPoints
<1>5. QED
  BY <1>1, <1>2, <1>3, <1>4, Zenon DEF CoreInv, PlaceInv, LocksInv, ArgInv

\* Yield keeps the invariant.
LEMMA YieldStep ==
    ASSUME CoreInv, NEW c \in Cpu, NEW p \in Proc, Yield(c, p)
    PROVE  CoreInv'
<1> USE InitprocAssumption, NullAssumption
    DEF Yield, At, Goto, Points, SchedPoints, ResumePoints,
        procVars, codeVars, cpuVars, lockVars
<1>1. TypeOK'
  BY Zenon DEF CoreInv, TypeOK, States
<1>2. PlaceInv'
  BY EnterSched, Zenon DEF OwnLockPoints
<1>3. LocksInv'
  BY DEF CoreInv, TypeOK, LocksInv, WaitLockInv, PtableLockInv, IdleInv,
         WaitLockPoints, PtableLockPoints, CpuInv, RunsOnce
<1>4. ArgInv'
  BY SMTT(20) DEF CoreInv, TypeOK, ArgInv, ForkInv, ReapInv, KillInv, ForkPoints,
         OnCpuInv, OffCpuInv, Running
<1>5. QED
  BY <1>1, <1>2, <1>3, <1>4, Zenon DEF CoreInv, PlaceInv, LocksInv, ArgInv

\* Sleep keeps the invariant.
LEMMA SleepStep ==
    ASSUME CoreInv, NEW c \in Cpu, NEW p \in Proc, Sleep(c, p)
    PROVE  CoreInv'
<1> USE InitprocAssumption, NullAssumption
    DEF Sleep, At, Goto, Points, SchedPoints, ResumePoints,
        procVars, codeVars, cpuVars, lockVars
<1>1. TypeOK'
  BY Zenon DEF CoreInv, TypeOK, States
<1>2. PlaceInv'
  BY EnterSched, Zenon DEF OwnLockPoints
<1>3. LocksInv'
  BY DEF CoreInv, TypeOK, LocksInv, WaitLockInv, PtableLockInv, IdleInv,
         WaitLockPoints, PtableLockPoints, CpuInv, RunsOnce
<1>4. ArgInv'
  BY SMTT(20) DEF CoreInv, TypeOK, ArgInv, ForkInv, ReapInv, KillInv, ForkPoints,
         OnCpuInv, OffCpuInv, Running
<1>5. QED
  BY <1>1, <1>2, <1>3, <1>4, Zenon DEF CoreInv, PlaceInv, LocksInv, ArgInv

\* ExitZombie keeps the invariant.
LEMMA ExitZombieStep ==
    ASSUME CoreInv, NEW c \in Cpu, NEW p \in Proc, ExitZombie(c, p)
    PROVE  CoreInv'
<1> USE InitprocAssumption, NullAssumption
    DEF ExitZombie, At, Goto, Points, SchedPoints, ResumePoints,
        procVars, codeVars, cpuVars, lockVars
<1>1. TypeOK'
  BY Zenon DEF CoreInv, TypeOK, States
<1>2. PlaceInv'
  BY EnterSched, Zenon DEF OwnLockPoints
<1>3. LocksInv'
  BY DEF CoreInv, TypeOK, LocksInv, WaitLockInv, PtableLockInv, IdleInv,
         WaitLockPoints, PtableLockPoints, CpuInv, RunsOnce
<1>4. ArgInv'
  BY DEF CoreInv, TypeOK, ArgInv, ForkInv, ReapInv, KillInv, ForkPoints,
         OnCpuInv, OffCpuInv, Running
<1>5. QED
  BY <1>1, <1>2, <1>3, <1>4, Zenon DEF CoreInv, PlaceInv, LocksInv, ArgInv

\* ForkFail keeps the invariant.
LEMMA ForkFailStep ==
    ASSUME CoreInv, NEW c \in Cpu, NEW p \in Proc, ForkFail(c, p)
    PROVE  CoreInv'
<1> USE InitprocAssumption, NullAssumption
    DEF ForkFail, At, Goto, Points, SchedPoints, ResumePoints,
        procVars, codeVars, cpuVars, lockVars
<1>1. TypeOK'
  BY Zenon DEF CoreInv, TypeOK, States
<1>2. PlaceInv'
  BY Move, Zenon DEF OwnLockPoints
<1>3. LocksInv'
  BY DEF CoreInv, TypeOK, LocksInv, WaitLockInv, PtableLockInv, IdleInv,
         WaitLockPoints, PtableLockPoints, CpuInv, RunsOnce
<1>4. ArgInv'
  BY DEF CoreInv, TypeOK, ArgInv, ForkInv, ReapInv, KillInv, ForkPoints
<1>5. QED
  BY <1>1, <1>2, <1>3, <1>4, Zenon DEF CoreInv, PlaceInv, LocksInv, ArgInv

\* ForkWaitLock keeps the invariant.
LEMMA ForkWaitLockStep ==
    ASSUME CoreInv, NEW c \in Cpu, NEW p \in Proc, ForkWaitLock(c, p)
    PROVE  CoreInv'
<1> USE InitprocAssumption, NullAssumption
    DEF ForkWaitLock, At, Goto, Points, SchedPoints, ResumePoints,
        procVars, codeVars, cpuVars, lockVars
<1>1. TypeOK'
  BY Zenon DEF CoreInv, TypeOK, States
<1>2. PlaceInv'
  BY Move, Zenon DEF OwnLockPoints
<1>3. LocksInv'
  BY DEF CoreInv, TypeOK, LocksInv, WaitLockInv, PtableLockInv, IdleInv,
         WaitLockPoints, PtableLockPoints, CpuInv, RunsOnce
<1>4. ArgInv'
  BY DEF CoreInv, TypeOK, ArgInv, ForkInv, ReapInv, KillInv, ForkPoints
<1>5. QED
  BY <1>1, <1>2, <1>3, <1>4, Zenon DEF CoreInv, PlaceInv, LocksInv, ArgInv

\* ForkPtableLock keeps the invariant.
LEMMA ForkPtableLockStep ==
    ASSUME CoreInv, NEW c \in Cpu, NEW p \in Proc, ForkPtableLock(c, p)
    PROVE  CoreInv'
<1> USE InitprocAssumption, NullAssumption
    DEF ForkPtableLock, At, Goto, Points, SchedPoints, ResumePoints,
        procVars, codeVars, cpuVars, lockVars
<1>1. TypeOK'
  BY Zenon DEF CoreInv, TypeOK, States
<1>2. PlaceInv'
  BY Move, Zenon DEF OwnLockPoints
<1>3. LocksInv'
  BY DEF CoreInv, TypeOK, LocksInv, WaitLockInv, PtableLockInv, IdleInv,
         WaitLockPoints, PtableLockPoints, CpuInv, RunsOnce
<1>4. ArgInv'
  BY DEF CoreInv, TypeOK, ArgInv, ForkInv, ReapInv, KillInv, ForkPoints
<1>5. QED
  BY <1>1, <1>2, <1>3, <1>4, Zenon DEF CoreInv, PlaceInv, LocksInv, ArgInv

\* WakeupStart keeps the invariant.
LEMMA WakeupStartStep ==
    ASSUME CoreInv, NEW c \in Cpu, NEW p \in Proc, WakeupStart(c, p)
    PROVE  CoreInv'
<1> USE InitprocAssumption, NullAssumption
    DEF WakeupStart, At, Goto, Points, SchedPoints, ResumePoints,
        procVars, codeVars, cpuVars, lockVars
<1>1. TypeOK'
  BY Zenon DEF CoreInv, TypeOK, States
<1>2. PlaceInv'
  BY Move, Zenon DEF OwnLockPoints
<1>3. LocksInv'
  BY DEF CoreInv, TypeOK, LocksInv, WaitLockInv, PtableLockInv, IdleInv,
         WaitLockPoints, PtableLockPoints, CpuInv, RunsOnce
<1>4. ArgInv'
  BY DEF CoreInv, TypeOK, ArgInv, ForkInv, ReapInv, KillInv, ForkPoints
<1>5. QED
  BY <1>1, <1>2, <1>3, <1>4, Zenon DEF CoreInv, PlaceInv, LocksInv, ArgInv

\* WakeupEnd keeps the invariant.
LEMMA WakeupEndStep ==
    ASSUME CoreInv, NEW c \in Cpu, NEW p \in Proc, WakeupEnd(c, p)
    PROVE  CoreInv'
<1> USE InitprocAssumption, NullAssumption
    DEF WakeupEnd, At, Goto, Points, SchedPoints, ResumePoints,
        procVars, codeVars, cpuVars, lockVars
<1>1. TypeOK'
  BY DEF CoreInv, TypeOK, States
<1>2. PlaceInv'
  BY Move, Zenon DEF OwnLockPoints
<1>3. LocksInv'
  BY DEF CoreInv, TypeOK, LocksInv, WaitLockInv, PtableLockInv, IdleInv,
         WaitLockPoints, PtableLockPoints, CpuInv, RunsOnce
<1>4. ArgInv'
  BY DEF CoreInv, TypeOK, ArgInv, ForkInv, ReapInv, KillInv, ForkPoints
<1>5. QED
  BY <1>1, <1>2, <1>3, <1>4, Zenon DEF CoreInv, PlaceInv, LocksInv, ArgInv

\* ExitWaitLock keeps the invariant.
LEMMA ExitWaitLockStep ==
    ASSUME CoreInv, NEW c \in Cpu, NEW p \in Proc, ExitWaitLock(c, p)
    PROVE  CoreInv'
<1> USE InitprocAssumption, NullAssumption
    DEF ExitWaitLock, At, Goto, Points, SchedPoints, ResumePoints,
        procVars, codeVars, cpuVars, lockVars
<1>1. TypeOK'
  BY Zenon DEF CoreInv, TypeOK, States
<1>2. PlaceInv'
  BY Move, Zenon DEF OwnLockPoints
<1>3. LocksInv'
  BY DEF CoreInv, TypeOK, LocksInv, WaitLockInv, PtableLockInv, IdleInv,
         WaitLockPoints, PtableLockPoints, CpuInv, RunsOnce
<1>4. ArgInv'
  BY DEF CoreInv, TypeOK, ArgInv, ForkInv, ReapInv, KillInv, ForkPoints
<1>5. QED
  BY <1>1, <1>2, <1>3, <1>4, Zenon DEF CoreInv, PlaceInv, LocksInv, ArgInv

\* ExitReparent keeps the invariant.
LEMMA ExitReparentStep ==
    ASSUME CoreInv, NEW c \in Cpu, NEW p \in Proc, ExitReparent(c, p)
    PROVE  CoreInv'
<1> USE InitprocAssumption, NullAssumption
    DEF ExitReparent, At, Goto, Points, SchedPoints, ResumePoints,
        procVars, codeVars, cpuVars, lockVars
<1>1. TypeOK'
  BY Zenon DEF CoreInv, TypeOK, States
<1>2. PlaceInv'
  BY Move, Zenon DEF OwnLockPoints
<1>3. LocksInv'
  BY DEF CoreInv, TypeOK, LocksInv, WaitLockInv, PtableLockInv, IdleInv,
         WaitLockPoints, PtableLockPoints, CpuInv, RunsOnce
<1>4. ArgInv'
  BY DEF CoreInv, TypeOK, ArgInv, ForkInv, ReapInv, KillInv, ForkPoints
<1>5. QED
  BY <1>1, <1>2, <1>3, <1>4, Zenon DEF CoreInv, PlaceInv, LocksInv, ArgInv

\* WaitCall keeps the invariant.
LEMMA WaitCallStep ==
    ASSUME CoreInv, NEW c \in Cpu, NEW p \in Proc, WaitCall(c, p)
    PROVE  CoreInv'
<1> USE InitprocAssumption, NullAssumption
    DEF WaitCall, WaitLockFrom, At, Goto, Points, SchedPoints, ResumePoints,
        procVars, codeVars, cpuVars, lockVars
<1>1. TypeOK'
  BY Zenon DEF CoreInv, TypeOK, States
<1>2. PlaceInv'
  BY Move, Zenon DEF OwnLockPoints
<1>3. LocksInv'
  BY DEF CoreInv, TypeOK, LocksInv, WaitLockInv, PtableLockInv, IdleInv,
         WaitLockPoints, PtableLockPoints, CpuInv, RunsOnce
<1>4. ArgInv'
  BY DEF CoreInv, TypeOK, ArgInv, ForkInv, ReapInv, KillInv, ForkPoints
<1>5. QED
  BY <1>1, <1>2, <1>3, <1>4, Zenon DEF CoreInv, PlaceInv, LocksInv, ArgInv

\* SleepRelock keeps the invariant.
LEMMA SleepRelockStep ==
    ASSUME CoreInv, NEW c \in Cpu, NEW p \in Proc, SleepRelock(c, p)
    PROVE  CoreInv'
<1> USE InitprocAssumption, NullAssumption
    DEF SleepRelock, WaitLockFrom, At, Goto, Points, SchedPoints, ResumePoints,
        procVars, codeVars, cpuVars, lockVars
<1>1. TypeOK'
  BY Zenon DEF CoreInv, TypeOK, States
<1>2. PlaceInv'
  BY Move, Zenon DEF OwnLockPoints
<1>3. LocksInv'
  BY DEF CoreInv, TypeOK, LocksInv, WaitLockInv, PtableLockInv, IdleInv,
         WaitLockPoints, PtableLockPoints, CpuInv, RunsOnce
<1>4. ArgInv'
  BY DEF CoreInv, TypeOK, ArgInv, ForkInv, ReapInv, KillInv, ForkPoints
<1>5. QED
  BY <1>1, <1>2, <1>3, <1>4, Zenon DEF CoreInv, PlaceInv, LocksInv, ArgInv

\* WaitPtableLock keeps the invariant.
LEMMA WaitPtableLockStep ==
    ASSUME CoreInv, NEW c \in Cpu, NEW p \in Proc, WaitPtableLock(c, p)
    PROVE  CoreInv'
<1> USE InitprocAssumption, NullAssumption
    DEF WaitPtableLock, At, Goto, Points, SchedPoints, ResumePoints,
        procVars, codeVars, cpuVars, lockVars
<1>1. TypeOK'
  <2>1. todo' \in [Proc -> SUBSET Proc] /\ pc' \in [Proc -> Points]
    BY DEF CoreInv, TypeOK
  <2>2. QED
    BY <2>1, SMTT(20) DEF CoreInv, TypeOK
<1>0. \E x \in {"trapret", "wait_scan"} : pc' = [pc EXCEPT ![p] = x]
  BY Zenon DEF CoreInv, TypeOK
<1>2. PlaceInv'
  <2>1. PICK x \in {"trapret", "wait_scan"} : pc' = [pc EXCEPT ![p] = x]
    BY <1>0, Zenon DEF CoreInv, TypeOK
  <2>2. x \in Points \ OwnLockPoints /\ x # "dead" /\ pc[p] \notin OwnLockPoints
    BY Zenon DEF CoreInv, TypeOK, OwnLockPoints
  <2>3. cpuProc[c] = p /\ UNCHANGED <<state, cpuProc, cand, plock, runq>>
    BY Zenon DEF CoreInv, TypeOK
  <2>4. QED
    BY <2>1, <2>2, <2>3, Move, Zenon
<1>3. LocksInv'
  BY DEF CoreInv, TypeOK, LocksInv, WaitLockInv, PtableLockInv, IdleInv,
         WaitLockPoints, PtableLockPoints, CpuInv, RunsOnce
<1>4. ArgInv'
  BY <1>0 DEF CoreInv, TypeOK, ArgInv, ForkInv, ReapInv, KillInv, ForkPoints
<1>5. QED
  BY <1>1, <1>2, <1>3, <1>4, Zenon DEF CoreInv, PlaceInv, LocksInv, ArgInv

\* WaitUnlink keeps the invariant.
LEMMA WaitUnlinkStep ==
    ASSUME CoreInv, NEW c \in Cpu, NEW p \in Proc, WaitUnlink(c, p)
    PROVE  CoreInv'
<1> USE InitprocAssumption, NullAssumption
    DEF WaitUnlink, At, Goto, Points, SchedPoints, ResumePoints,
        procVars, codeVars, cpuVars, lockVars
<1>1. TypeOK'
  BY DEF CoreInv, TypeOK, States
<1>2. PlaceInv'
  BY Move, Zenon DEF OwnLockPoints
<1>3. LocksInv'
  BY DEF CoreInv, TypeOK, LocksInv, WaitLockInv, PtableLockInv, IdleInv,
         WaitLockPoints, PtableLockPoints, CpuInv, RunsOnce
<1>4. ArgInv'
  <2>1. PICK np \in todo[p] : /\ plock[np] = NULL
                             /\ state[np] = "ZOMBIE"
                             /\ arg' = [arg EXCEPT ![p] = np]
    BY Zenon DEF CoreInv, TypeOK
  <2>2. np \in Proc /\ ~Running(np)
    <3>1. np \in Proc
      BY <2>1, Zenon DEF CoreInv, TypeOK
    <3>2. ASSUME NEW d \in Cpu, cpuProc[d] = np PROVE FALSE
      <4>1. pc[np] \in OwnLockPoints
        BY <2>1, <3>1, <3>2, Zenon DEF CoreInv, OnCpuInv, OwnLockPoints, Running
      <4>2. QED
        BY <2>1, <3>1, <3>2, <4>1, ZenonT(60) DEF CoreInv, PlockInv
    <3>3. QED
      BY <3>1, <3>2, Zenon DEF Running
  <2>3. pc[np] = "dead"
    BY <2>1, <2>2, Zenon DEF CoreInv, TypeOK, OffCpuInv
  <2>4. ForkInv' /\ KillInv'
    BY <2>1 DEF CoreInv, TypeOK, ForkInv, KillInv, ForkPoints
  <2>5. ReapInv'
    BY <2>1, <2>2, <2>3 DEF CoreInv, TypeOK, ReapInv
  <2>6. QED
    BY <2>4, <2>5, Zenon DEF CoreInv, TypeOK, ArgInv
<1>5. QED
  BY <1>1, <1>2, <1>3, <1>4, Zenon DEF CoreInv, PlaceInv, LocksInv, ArgInv

\* WaitCopyoutFail keeps the invariant.
LEMMA WaitCopyoutFailStep ==
    ASSUME CoreInv, NEW c \in Cpu, NEW p \in Proc, WaitCopyoutFail(c, p)
    PROVE  CoreInv'
<1> USE InitprocAssumption, NullAssumption
    DEF WaitCopyoutFail, At, Goto, Points, SchedPoints, ResumePoints,
        procVars, codeVars, cpuVars, lockVars
<1>1. TypeOK'
  BY Zenon DEF CoreInv, TypeOK, States
<1>2. PlaceInv'
  BY Move, Zenon DEF OwnLockPoints
<1>3. LocksInv'
  BY DEF CoreInv, TypeOK, LocksInv, WaitLockInv, PtableLockInv, IdleInv,
         WaitLockPoints, PtableLockPoints, CpuInv, RunsOnce
<1>4. ArgInv'
  BY DEF CoreInv, TypeOK, ArgInv, ForkInv, ReapInv, KillInv, ForkPoints
<1>5. QED
  BY <1>1, <1>2, <1>3, <1>4, Zenon DEF CoreInv, PlaceInv, LocksInv, ArgInv

\* WaitScanEnd keeps the invariant.
LEMMA WaitScanEndStep ==
    ASSUME CoreInv, NEW c \in Cpu, NEW p \in Proc, WaitScanEnd(c, p)
    PROVE  CoreInv'
<1> USE InitprocAssumption, NullAssumption
    DEF WaitScanEnd, At, Goto, Points, SchedPoints, ResumePoints,
        procVars, codeVars, cpuVars, lockVars
<1>1. TypeOK'
  BY Zenon DEF CoreInv, TypeOK, States
<1>2. PlaceInv'
  BY Move, Zenon DEF OwnLockPoints
<1>3. LocksInv'
  BY DEF CoreInv, TypeOK, LocksInv, WaitLockInv, PtableLockInv, IdleInv,
         WaitLockPoints, PtableLockPoints, CpuInv, RunsOnce
<1>4. ArgInv'
  BY DEF CoreInv, TypeOK, ArgInv, ForkInv, ReapInv, KillInv, ForkPoints
<1>5. QED
  BY <1>1, <1>2, <1>3, <1>4, Zenon DEF CoreInv, PlaceInv, LocksInv, ArgInv

\* WaitKilled keeps the invariant.
LEMMA WaitKilledStep ==
    ASSUME CoreInv, NEW c \in Cpu, NEW p \in Proc, WaitKilled(c, p)
    PROVE  CoreInv'
<1> USE NullAssumption
    DEF CoreInv, TypeOK, Points, SchedPoints, ResumePoints
<1>0. /\ cpuProc[c] = p /\ pc[p] = "wait_killed"
      /\ UNCHANGED <<state, chan, killed, parent, pagetable, arg, todo, cpuProc,
                     cand, ttbr, plock, ptableLock, allproc, runq>>
      /\ \/ pc' = [pc EXCEPT ![p] = "trapret"] /\ waitLock' = NULL
         \/ pc' = [pc EXCEPT ![p] = "wait_sleep"] /\ waitLock' = waitLock
  BY Zenon DEF WaitKilled, At, Goto, procVars, cpuVars
<1>1. TypeOK'
  BY <1>0 DEF States
<1>2. PlaceInv'
  <2>1. PICK x \in {"trapret", "wait_sleep"} : pc' = [pc EXCEPT ![p] = x]
    BY <1>0, Zenon
  <2>2. x \in Points \ OwnLockPoints /\ x # "dead" /\ pc[p] \notin OwnLockPoints
    BY <1>0, Zenon DEF OwnLockPoints
  <2>3. QED
    BY <1>0, <2>1, <2>2, Move, Zenon
<1>3. LocksInv'
  BY <1>0 DEF LocksInv, WaitLockInv, PtableLockInv, IdleInv, WaitLockPoints,
         PtableLockPoints, CpuInv, RunsOnce
<1>4. ArgInv'
  BY <1>0, SMTT(20) DEF ArgInv, ForkInv, ReapInv, KillInv, ForkPoints
<1>5. QED
  BY <1>1, <1>2, <1>3, <1>4, Zenon DEF PlaceInv, LocksInv, ArgInv

\* TrapRet keeps the invariant.
LEMMA TrapRetStep ==
    ASSUME CoreInv, NEW c \in Cpu, NEW p \in Proc, TrapRet(c, p)
    PROVE  CoreInv'
<1> USE NullAssumption DEF Points, SchedPoints, ResumePoints
<1>0. /\ cpuProc[c] = p /\ pc[p] = "trapret"
      /\ UNCHANGED <<state, chan, killed, parent, arg, todo, cpuProc, cand, ttbr,
                     plock, waitLock, ptableLock, allproc, runq>>
  BY Zenon DEF TrapRet, At, cpuVars, lockVars
<1>1. PICK x \in {"user", "panic", "exit_wait"} :
        /\ pc' = [pc EXCEPT ![p] = x]
        /\ pagetable' = pagetable \/ pagetable' = [pagetable EXCEPT ![p] = FALSE]
  BY Zenon DEF TrapRet, ExitStart, Goto
<1>2. TypeOK'
  <2> USE DEF CoreInv, TypeOK
  <2>1. pagetable' \in [Proc -> BOOLEAN]
    BY <1>1, Zenon
  <2>2. QED
    BY <1>0, <1>1, <2>1, Zenon DEF States
<1>3. PlaceInv'
  <2>1. x \in Points \ OwnLockPoints /\ x # "dead" /\ pc[p] \notin OwnLockPoints
    BY <1>0, Zenon DEF OwnLockPoints
  <2>2. QED
    BY <1>0, <1>1, <2>1, Move, Zenon
<1>4. LocksInv'
  BY <1>0, <1>1 DEF CoreInv, TypeOK, LocksInv, WaitLockInv, PtableLockInv, IdleInv,
     WaitLockPoints, PtableLockPoints
<1>5. ArgInv'
  BY <1>0, <1>1 DEF CoreInv, TypeOK, ArgInv, ForkInv, ReapInv, KillInv, ForkPoints
<1>6. QED
  BY <1>2, <1>3, <1>4, <1>5, Zenon DEF CoreInv, PlaceInv, LocksInv, ArgInv

\* ExitCall keeps the invariant.
LEMMA ExitCallStep ==
    ASSUME CoreInv, NEW c \in Cpu, NEW p \in Proc, ExitCall(c, p)
    PROVE  CoreInv'
<1> USE NullAssumption DEF Points, SchedPoints, ResumePoints
<1>0. /\ cpuProc[c] = p /\ pc[p] = "user"
      /\ UNCHANGED <<state, chan, killed, parent, arg, todo, cpuProc, cand, ttbr,
                     plock, waitLock, ptableLock, allproc, runq>>
  BY Zenon DEF ExitCall, At, cpuVars, lockVars
<1>1. PICK x \in {"user", "panic", "exit_wait"} :
        /\ pc' = [pc EXCEPT ![p] = x]
        /\ pagetable' = pagetable \/ pagetable' = [pagetable EXCEPT ![p] = FALSE]
  BY Zenon DEF ExitCall, ExitStart, Goto
<1>2. TypeOK'
  <2> USE DEF CoreInv, TypeOK
  <2>1. pagetable' \in [Proc -> BOOLEAN]
    BY <1>1, Zenon
  <2>2. QED
    BY <1>0, <1>1, <2>1, Zenon DEF States
<1>3. PlaceInv'
  <2>1. x \in Points \ OwnLockPoints /\ x # "dead" /\ pc[p] \notin OwnLockPoints
    BY <1>0, Zenon DEF OwnLockPoints
  <2>2. QED
    BY <1>0, <1>1, <2>1, Move, Zenon
<1>4. LocksInv'
  BY <1>0, <1>1 DEF CoreInv, TypeOK, LocksInv, WaitLockInv, PtableLockInv, IdleInv,
     WaitLockPoints, PtableLockPoints
<1>5. ArgInv'
  BY <1>0, <1>1 DEF CoreInv, TypeOK, ArgInv, ForkInv, ReapInv, KillInv, ForkPoints
<1>6. QED
  BY <1>2, <1>3, <1>4, <1>5, Zenon DEF CoreInv, PlaceInv, LocksInv, ArgInv

\* KillLookup keeps the invariant.
LEMMA KillLookupStep ==
    ASSUME CoreInv, NEW c \in Cpu, NEW p \in Proc, KillLookup(c, p)
    PROVE  CoreInv'
<1> USE InitprocAssumption, NullAssumption
    DEF KillLookup, At, Goto, Points, SchedPoints, ResumePoints,
        procVars, codeVars, cpuVars, lockVars
<1>1. TypeOK'
  BY DEF CoreInv, TypeOK, States
<1>2. PlaceInv'
  BY Move, Zenon DEF OwnLockPoints
<1>3. LocksInv'
  BY DEF CoreInv, TypeOK, LocksInv, WaitLockInv, PtableLockInv, IdleInv,
         WaitLockPoints, PtableLockPoints, CpuInv, RunsOnce
<1>4. ArgInv'
  BY DEF CoreInv, TypeOK, ArgInv, ForkInv, ReapInv, KillInv, ForkPoints
<1>5. QED
  BY <1>1, <1>2, <1>3, <1>4, Zenon DEF CoreInv, PlaceInv, LocksInv, ArgInv

\* KillNoSuch keeps the invariant.
LEMMA KillNoSuchStep ==
    ASSUME CoreInv, NEW c \in Cpu, NEW p \in Proc, KillNoSuch(c, p)
    PROVE  CoreInv'
<1> USE InitprocAssumption, NullAssumption
    DEF KillNoSuch, At, Goto, Points, SchedPoints, ResumePoints,
        procVars, codeVars, cpuVars, lockVars
<1>1. TypeOK'
  BY Zenon DEF CoreInv, TypeOK, States
<1>2. PlaceInv'
  BY Move, Zenon DEF OwnLockPoints
<1>3. LocksInv'
  BY DEF CoreInv, TypeOK, LocksInv, WaitLockInv, PtableLockInv, IdleInv,
         WaitLockPoints, PtableLockPoints, CpuInv, RunsOnce
<1>4. ArgInv'
  BY DEF CoreInv, TypeOK, ArgInv, ForkInv, ReapInv, KillInv, ForkPoints
<1>5. QED
  BY <1>1, <1>2, <1>3, <1>4, Zenon DEF CoreInv, PlaceInv, LocksInv, ArgInv
=============================================================================

----------------------------- MODULE IntrProofs -----------------------------
(***************************************************************************)
(* Theorems about Intr for any number of CPUs and threads: every active    *)
(* interrupt has one party that deactivates it, and priorities balance.    *)
(***************************************************************************)
EXTENDS Intr, FiniteSetTheorems, TLAPS

\* A thread is on one CPU, on the run queue once, or asleep, and a CPU that runs a
\* thread has left no trap of its scheduler unfinished.
SchedInv ==
    /\ NoDuplicates(runq)
    /\ \A c \in CPU : cur[c] # NULL => ~OnQueue(runq, cur[c]) /\ stage[c] = "none"
    /\ \A c, d \in CPU : cur[c] # NULL /\ cur[c] = cur[d] => c = d
    /\ ipc = "asleep" => ~OnQueue(runq, Ithread) /\ \A c \in CPU : cur[c] # Ithread

\* A thread that is on no CPU is in no trap.
OffInv ==
    \A t \in Thread :
        OnQueue(runq, t) \/ (t = Ithread /\ ipc = "asleep") => stage[t] = "none"

\* A trap has an interrupt, and keeps what the filter of the UART said.
TrapInv ==
    \A x \in Context :
        /\ stage[x] # "none" => irq[x] \in {"timer", "uart"}
        /\ stage[x] \in {"wakeup", "eoi"} /\ irq[x] = "uart" => res[x] = "SCHEDULE_THREAD"

\* The inductive invariant.
IInv == TypeOK /\ SchedInv /\ OffInv /\ TrapInv /\ OneOwesDeactivation /\ PriorityIsBalanced

-----------------------------------------------------------------------------
(* The run queue.                                                          *)

\* runq_enqueue(): a process that is not queued is queued once, at the tail.
LEMMA Enqueue ==
    ASSUME NEW S, NEW q \in Seq(S), NEW p \in S
    PROVE  /\ Append(q, p) \in Seq(S)
           /\ \A x : OnQueue(Append(q, p), x) <=> OnQueue(q, x) \/ x = p
           /\ NoDuplicates(q) /\ ~OnQueue(q, p) => NoDuplicates(Append(q, p))
<1> DEFINE r == Append(q, p)
<1>1. /\ r \in Seq(S)
      /\ Len(q) \in Nat
      /\ Len(r) = Len(q) + 1
      /\ \A i \in 1..Len(q) : r[i] = q[i]
      /\ r[Len(q) + 1] = p
  OBVIOUS
<1>2. ASSUME NEW x PROVE OnQueue(r, x) <=> OnQueue(q, x) \/ x = p
  <2>1. 1..Len(r) = 1..Len(q) \cup {Len(q) + 1}
    BY <1>1
  <2>2. QED
    BY <1>1, <2>1 DEF OnQueue
<1>3. ASSUME NoDuplicates(q), ~OnQueue(q, p) PROVE NoDuplicates(r)
  BY <1>1, <1>3 DEF NoDuplicates, OnQueue
<1>4. QED
  BY <1>1, <1>2, <1>3

\* runq_dequeue(): the head leaves the queue and nothing else does.
LEMMA DequeueHead ==
    ASSUME NEW S, NEW q \in Seq(S), q # <<>>
    PROVE  /\ Head(q) \in S
           /\ Tail(q) \in Seq(S)
           /\ OnQueue(q, Head(q))
           /\ NoDuplicates(q) =>
                /\ NoDuplicates(Tail(q))
                /\ \A x : OnQueue(Tail(q), x) <=> OnQueue(q, x) /\ x # Head(q)
<1> DEFINE t == Tail(q)
<1>1. /\ t \in Seq(S)
      /\ Head(q) \in S
      /\ Head(q) = q[1]
      /\ Len(q) \in Nat
      /\ Len(q) >= 1
      /\ Len(t) = Len(q) - 1
      /\ \A i \in 1..Len(t) : t[i] = q[i + 1]
  OBVIOUS
<1>2. OnQueue(q, Head(q))
  BY <1>1 DEF OnQueue
<1>3. ASSUME NoDuplicates(q) PROVE NoDuplicates(t)
  <2> SUFFICES ASSUME NEW i \in 1..Len(t), NEW j \in 1..Len(t), t[i] = t[j]
               PROVE  i = j
    BY DEF NoDuplicates
  <2>1. i + 1 \in 1..Len(q) /\ j + 1 \in 1..Len(q) /\ q[i + 1] = q[j + 1]
    BY <1>1
  <2>2. QED
    BY <1>1, <1>3, <2>1 DEF NoDuplicates
<1>4. ASSUME NoDuplicates(q), NEW x
      PROVE  OnQueue(t, x) <=> OnQueue(q, x) /\ x # Head(q)
  <2>1. ASSUME NEW i \in 1..Len(t), t[i] = x PROVE OnQueue(q, x) /\ x # Head(q)
    <3>1. i + 1 \in 1..Len(q) /\ q[i + 1] = x /\ i + 1 # 1 /\ 1 \in 1..Len(q)
      BY <1>1, <2>1
    <3>2. QED
      BY <1>1, <1>4, <3>1 DEF NoDuplicates, OnQueue
  <2>2. ASSUME NEW i \in 1..Len(q), q[i] = x, x # Head(q) PROVE OnQueue(t, x)
    <3>1. i - 1 \in 1..Len(t) /\ t[i - 1] = x
      BY <1>1, <2>2
    <3>2. QED
      BY <3>1 DEF OnQueue
  <2>3. QED
    BY <2>1, <2>2, Zenon DEF OnQueue
<1>5. QED
  BY <1>1, <1>2, <1>3, <1>4

-----------------------------------------------------------------------------
\* Contexts are apart: two CPUs never run in the same one.
LEMMA OnContext ==
    ASSUME TypeOK, SchedInv
    PROVE  /\ \A c \in CPU : On(c) \in Context
           /\ \A c, d \in CPU : On(c) = On(d) => c = d
  BY IntrAssumption DEF TypeOK, SchedInv, On, Context, Thread

\* intr_init() leaves the invariant true.
LEMMA InitIInv == Init => IInv
<1> SUFFICES ASSUME Init PROVE IInv
  OBVIOUS
<1> USE IntrAssumption DEF Init
<1>1. TypeOK
  <2>1. Cardinality(Thread) \in Nat
    BY FS_CardinalityType, FS_Singleton, FS_Union, Zenon DEF Thread
  <2>2. runq \in Seq(Thread)
    BY <2>1
  <2>3. stage \in [Context -> Stage]
    BY Zenon DEF Stage
  <2>4. /\ running \in [CPU -> {"timer", "uart", NULL}] /\ cur \in [CPU -> Thread \cup {NULL}]
        /\ irq \in [Context -> {"timer", "uart", NULL}]
        /\ res \in [Context -> {"HANDLED", "SCHEDULE_THREAD", NULL}]
    BY Zenon
  <2>5. fifo \in 0..FifoDepth /\ drained \in 0..DrainMax
    OBVIOUS
  <2>6. QED
    BY <2>2, <2>3, <2>4, <2>5, Zenon DEF TypeOK
<1>2. SchedInv
  BY Zenon DEF SchedInv
<1>3. OffInv
  BY Zenon DEF OffInv, Context
<1>4. TrapInv
  BY Zenon DEF TrapInv
<1>5. OneOwesDeactivation
  BY Zenon DEF OneOwesDeactivation, TrapOwes, ThreadOwes
<1>6. PriorityIsBalanced
  BY Zenon DEF PriorityIsBalanced, On, Context
<1>7. QED
  BY <1>1, <1>2, <1>3, <1>4, <1>5, <1>6, Zenon DEF IInv

\* Receive keeps the invariant.
LEMMA ReceiveStep ==
    ASSUME IInv, Receive
    PROVE  IInv'
<1> USE IntrAssumption, OnContext DEF IInv, TypeOK, Receive, device, gic, sched, trap, ithread
<1>1. TypeOK'
  BY DEF Stage
<1>2. SchedInv'
  BY Zenon DEF SchedInv
<1>3. OffInv'
  BY Zenon DEF OffInv, Context
<1>4. TrapInv'
  BY Zenon DEF TrapInv
<1>5. OneOwesDeactivation'
  BY DEF OneOwesDeactivation, TrapOwes, ThreadOwes, TrapInv
<1>6. PriorityIsBalanced'
  BY Zenon DEF PriorityIsBalanced, On, SchedInv, Context
<1>7. QED
  BY <1>1, <1>2, <1>3, <1>4, <1>5, <1>6, Zenon

\* Raise keeps the invariant.
LEMMA RaiseStep ==
    ASSUME IInv, Raise
    PROVE  IInv'
<1> USE IntrAssumption, OnContext DEF IInv, TypeOK, Raise, device, gic, sched, trap, ithread
<1>1. TypeOK'
  BY Zenon DEF Stage
<1>2. SchedInv'
  BY Zenon DEF SchedInv
<1>3. OffInv'
  BY Zenon DEF OffInv, Context
<1>4. TrapInv'
  BY Zenon DEF TrapInv
<1>5. OneOwesDeactivation'
  BY DEF OneOwesDeactivation, TrapOwes, ThreadOwes, TrapInv
<1>6. PriorityIsBalanced'
  BY Zenon DEF PriorityIsBalanced, On, SchedInv, Context
<1>7. QED
  BY <1>1, <1>2, <1>3, <1>4, <1>5, <1>6, Zenon

\* Tick keeps the invariant.
LEMMA TickStep ==
    ASSUME IInv, NEW c \in CPU, Tick(c)
    PROVE  IInv'
<1> USE IntrAssumption, OnContext DEF IInv, TypeOK, Tick, device, gic, sched, trap, ithread
<1>1. TypeOK'
  BY Zenon DEF Stage
<1>2. SchedInv'
  BY Zenon DEF SchedInv
<1>3. OffInv'
  BY Zenon DEF OffInv, Context
<1>4. TrapInv'
  BY Zenon DEF TrapInv
<1>5. OneOwesDeactivation'
  BY DEF OneOwesDeactivation, TrapOwes, ThreadOwes, TrapInv
<1>6. PriorityIsBalanced'
  BY Zenon DEF PriorityIsBalanced, On, SchedInv, Context
<1>7. QED
  BY <1>1, <1>2, <1>3, <1>4, <1>5, <1>6, Zenon

\* FilterTimer keeps the invariant.
LEMMA FilterTimerStep ==
    ASSUME IInv, NEW c \in CPU, FilterTimer(c)
    PROVE  IInv'
<1> USE IntrAssumption, OnContext DEF IInv, TypeOK, FilterTimer, timer_tick, Advance, device, gic, sched, trap, ithread
<1>1. TypeOK'
  BY Zenon DEF Stage
<1>2. SchedInv'
  BY DEF SchedInv
<1>3. OffInv'
  BY Zenon DEF OffInv, Context
<1>4. TrapInv'
  BY Zenon DEF TrapInv
<1>5. OneOwesDeactivation'
  BY DEF OneOwesDeactivation, TrapOwes, ThreadOwes, TrapInv
<1>6. PriorityIsBalanced'
  BY DEF PriorityIsBalanced, On, SchedInv, Context
<1>7. QED
  BY <1>1, <1>2, <1>3, <1>4, <1>5, <1>6

\* FilterUart keeps the invariant.
LEMMA FilterUartStep ==
    ASSUME IInv, NEW c \in CPU, FilterUart(c)
    PROVE  IInv'
<1> USE IntrAssumption, OnContext DEF IInv, TypeOK, FilterUart, Advance, device, gic, sched, trap, ithread
<1>1. TypeOK'
  BY Zenon DEF Stage
<1>2. SchedInv'
  BY DEF SchedInv
<1>3. OffInv'
  BY Zenon DEF OffInv, Context
<1>4. TrapInv'
  BY Zenon DEF TrapInv
<1>5. OneOwesDeactivation'
  BY DEF OneOwesDeactivation, TrapOwes, ThreadOwes, TrapInv
<1>6. PriorityIsBalanced'
  BY DEF PriorityIsBalanced, On, SchedInv, Context
<1>7. QED
  BY <1>1, <1>2, <1>3, <1>4, <1>5, <1>6, Zenon

\* Wakeup keeps the invariant.
LEMMA WakeupStep ==
    ASSUME IInv, NEW c \in CPU, Wakeup(c)
    PROVE  IInv'
<1>0. /\ stage[On(c)] = "wakeup" /\ stage' = [stage EXCEPT ![On(c)] = "eoi"]
      /\ IF ipc = "asleep" THEN ipc' = "test" /\ runq' = Append(runq, Ithread)
                           ELSE UNCHANGED <<ipc, runq>>
      /\ UNCHANGED <<device, gic, cur, need_resched, irq, res, drained, pending>>
  BY Zenon DEF Wakeup, Advance
<1>1. /\ Append(runq, Ithread) \in Seq(Thread)
      /\ \A x : OnQueue(Append(runq, Ithread), x) <=> OnQueue(runq, x) \/ x = Ithread
      /\ ipc = "asleep" => NoDuplicates(Append(runq, Ithread))
  BY Enqueue DEF IInv, TypeOK, SchedInv, Thread
<1>2. /\ On(c) \in Context /\ stage \in [Context -> Stage]
      /\ \A d \in CPU : cur[d] # NULL => d # On(c)
  BY OnContext, IntrAssumption DEF IInv, TypeOK, On, Thread
<1>3. TypeOK'
  BY <1>0, <1>1, <1>2, Zenon DEF IInv, TypeOK, Stage, device, gic
<1>4. SchedInv'
  <2>1. CASE ipc = "asleep"
    <3>1. cur' = cur /\ ipc' = "test" /\ NoDuplicates(runq')
      BY <1>0, <1>1, <2>1, Zenon
    <3>2. ASSUME NEW d \in CPU, cur[d] # NULL
          PROVE  ~OnQueue(runq', cur[d]) /\ stage'[d] = "none"
      BY <1>0, <1>1, <1>2, <2>1, <3>2, Zenon DEF IInv, SchedInv, Context
    <3>3. QED
      BY <3>1, <3>2, Zenon DEF IInv, SchedInv
  <2>2. CASE ipc # "asleep"
    BY <1>0, <1>2, <2>2, Zenon DEF IInv, SchedInv, Context
  <2>3. QED
    BY <2>1, <2>2
<1>5. OffInv'
  <2>1. ASSUME NEW t \in Thread, OnQueue(runq', t) \/ (t = Ithread /\ ipc' = "asleep")
        PROVE  OnQueue(runq, t) \/ (t = Ithread /\ ipc = "asleep")
    BY <1>0, <1>1, <2>1, Zenon
  <2>2. \A t \in Thread : stage[t] = "none" => stage'[t] = "none"
    BY <1>0, <1>2, Zenon DEF Context
  <2>3. QED
    BY <2>1, <2>2 DEF IInv, OffInv
<1>6. TrapInv'
  BY <1>0, <1>2, Zenon DEF IInv, TrapInv
<1>7. OneOwesDeactivation'
  BY <1>0, <1>1, <1>2, Zenon DEF IInv, TypeOK, OneOwesDeactivation, TrapOwes, ThreadOwes, ithread, gic, Context
<1>8. PriorityIsBalanced'
  BY <1>0, <1>1, <1>2, OnContext DEF IInv, TypeOK, PriorityIsBalanced, On, SchedInv, gic, Context
<1>9. QED
  BY <1>3, <1>4, <1>5, <1>6, <1>7, <1>8 DEF IInv

\* Eoi keeps the invariant.
LEMMA EoiStep ==
    ASSUME IInv, NEW c \in CPU, Eoi(c)
    PROVE  IInv'
<1> USE IntrAssumption, OnContext DEF IInv, TypeOK, Eoi, Advance, Deactivates, device, gic, sched, trap, ithread
<1>1. TypeOK'
  BY Zenon DEF Stage
<1>2. SchedInv'
  BY DEF SchedInv
<1>3. OffInv'
  BY Zenon DEF OffInv, Context
<1>4. TrapInv'
  BY Zenon DEF TrapInv
<1>5. OneOwesDeactivation'
  BY DEF OneOwesDeactivation, TrapOwes, ThreadOwes, TrapInv
<1>6. PriorityIsBalanced'
  BY DEF PriorityIsBalanced, On, SchedInv, Context
<1>7. QED
  BY <1>1, <1>2, <1>3, <1>4, <1>5, <1>6, Zenon

\* Preempt keeps the invariant.
LEMMA PreemptStep ==
    ASSUME IInv, NEW c \in CPU, Preempt(c)
    PROVE  IInv'
<1>0. /\ stage[On(c)] = "preempt" /\ stage' = [stage EXCEPT ![On(c)] = "none"]
      /\ irq' = [irq EXCEPT ![On(c)] = NULL] /\ res' = [res EXCEPT ![On(c)] = NULL]
      /\ UNCHANGED <<device, gic, ithread>>
  BY Zenon DEF Preempt
<1>1. \/ /\ cur[c] # NULL /\ need_resched' = need_resched \ {c}
         /\ runq' = Append(runq, cur[c]) /\ cur' = [cur EXCEPT ![c] = NULL]
      \/ UNCHANGED <<need_resched, cur, runq>>
  BY Zenon DEF Preempt, Preempted, sched
<1>2. On(c) \in Context
  BY OnContext DEF IInv
<1>3. cur[c] # NULL =>
        /\ Append(runq, cur[c]) \in Seq(Thread)
        /\ \A x : OnQueue(Append(runq, cur[c]), x) <=> OnQueue(runq, x) \/ x = cur[c]
        /\ NoDuplicates(Append(runq, cur[c]))
  BY Enqueue DEF IInv, TypeOK, SchedInv
<1>4. TypeOK'
  <2>1. runq' \in Seq(Thread) /\ cur' \in [CPU -> Thread \cup {NULL}] /\ need_resched' \subseteq CPU
    BY <1>1, <1>3, Zenon DEF IInv, TypeOK
  <2>2. QED
    BY <1>0, <1>2, <2>1, Zenon DEF IInv, TypeOK, Stage, device, gic, ithread
<1>5. SchedInv'
  <2>1. CASE UNCHANGED <<need_resched, cur, runq>>
    BY <1>0, <1>2, <2>1, Zenon DEF IInv, TypeOK, SchedInv, Context, ithread
  <2>2. CASE /\ cur[c] # NULL
             /\ runq' = Append(runq, cur[c]) /\ cur' = [cur EXCEPT ![c] = NULL]
    <3>1. /\ NoDuplicates(runq') /\ ipc' = ipc
          /\ \A x : OnQueue(runq', x) <=> OnQueue(runq, x) \/ x = cur[c]
      BY <1>0, <1>3, <2>2, Zenon DEF ithread
    <3>2. ASSUME NEW d \in CPU, cur'[d] # NULL
          PROVE  d # c /\ cur'[d] = cur[d] /\ ~OnQueue(runq', cur[d]) /\ stage'[d] = "none"
      BY <1>0, <1>2, <2>2, <3>1, <3>2, Zenon DEF IInv, TypeOK, SchedInv, Context
    <3>3. \A d, e \in CPU : cur'[d] # NULL /\ cur'[d] = cur'[e] => d = e
      BY <3>2, Zenon DEF IInv, SchedInv
    <3>4. ASSUME ipc = "asleep"
          PROVE  ~OnQueue(runq', Ithread) /\ \A d \in CPU : cur'[d] # Ithread
      BY <2>2, <3>1, <3>2, <3>4, IntrAssumption, Zenon DEF IInv, SchedInv, Thread
    <3>5. QED
      BY <3>1, <3>2, <3>3, <3>4, Zenon DEF SchedInv
  <2>3. QED
    BY <1>1, <2>1, <2>2
<1>6. OffInv'
  <2>1. ASSUME NEW t \in Thread, OnQueue(runq', t) \/ (t = Ithread /\ ipc' = "asleep")
        PROVE  OnQueue(runq, t) \/ (t = Ithread /\ ipc = "asleep") \/ t = On(c)
    BY <1>0, <1>1, <1>3, <2>1, Zenon DEF On, ithread
  <2>2. \A t \in Thread : stage[t] = "none" \/ t = On(c) => stage'[t] = "none"
    BY <1>0, <1>2, Zenon DEF IInv, TypeOK, Context
  <2>3. QED
    BY <2>1, <2>2 DEF IInv, OffInv
<1>7. TrapInv'
  BY <1>0, <1>2, Zenon DEF IInv, TypeOK, TrapInv
<1>8. OneOwesDeactivation'
  BY <1>0, <1>1, <1>2, Zenon DEF IInv, TypeOK, OneOwesDeactivation, TrapOwes, ThreadOwes, ithread, gic, Context
<1>9. PriorityIsBalanced'
  BY <1>0, <1>1, <1>2, OnContext DEF IInv, TypeOK, PriorityIsBalanced, On, SchedInv, gic, Context
<1>10. QED
  BY <1>4, <1>5, <1>6, <1>7, <1>8, <1>9 DEF IInv

\* Dispatch keeps the invariant.
LEMMA DispatchStep ==
    ASSUME IInv, NEW c \in CPU, Dispatch(c)
    PROVE  IInv'
<1> USE IntrAssumption, OnContext DEF IInv, TypeOK, Dispatch, device, gic, sched, trap, ithread
<1>0. /\ Head(runq) \in Thread /\ Tail(runq) \in Seq(Thread)
      /\ OnQueue(runq, Head(runq)) /\ NoDuplicates(Tail(runq))
      /\ \A x : OnQueue(Tail(runq), x) <=> OnQueue(runq, x) /\ x # Head(runq)
  BY DequeueHead, Zenon DEF SchedInv
<1>1. TypeOK'
  BY <1>0, Zenon DEF Stage
<1>2. SchedInv'
  BY <1>0 DEF SchedInv
<1>3. OffInv'
  BY <1>0, Zenon DEF OffInv
<1>4. TrapInv'
  BY Zenon DEF TrapInv
<1>5. OneOwesDeactivation'
  BY DEF OneOwesDeactivation, TrapOwes, ThreadOwes, TrapInv
<1>6. PriorityIsBalanced'
  BY <1>0 DEF PriorityIsBalanced, On, SchedInv, OffInv, Context
<1>7. QED
  BY <1>1, <1>2, <1>3, <1>4, <1>5, <1>6, Zenon

\* IthreadTake keeps the invariant.
LEMMA IthreadTakeStep ==
    ASSUME IInv, NEW c \in CPU, IthreadTake(c)
    PROVE  IInv'
<1> USE IntrAssumption, OnContext DEF IInv, TypeOK, IthreadTake, Serving, device, gic, sched, trap, ithread
<1>1. TypeOK'
  BY Zenon DEF Stage
<1>2. SchedInv'
  BY Zenon DEF SchedInv
<1>3. OffInv'
  BY Zenon DEF OffInv, Context
<1>4. TrapInv'
  BY Zenon DEF TrapInv
<1>5. OneOwesDeactivation'
  BY Zenon DEF OneOwesDeactivation, TrapOwes, ThreadOwes, TrapInv
<1>6. PriorityIsBalanced'
  BY Zenon DEF PriorityIsBalanced, On, SchedInv, Context
<1>7. QED
  BY <1>1, <1>2, <1>3, <1>4, <1>5, <1>6, Zenon

\* IthreadTest keeps the invariant.
LEMMA IthreadTestStep ==
    ASSUME IInv, NEW c \in CPU, IthreadTest(c)
    PROVE  IInv'
<1> USE IntrAssumption, OnContext DEF IInv, TypeOK, IthreadTest, Serving, device, gic, sched, trap, ithread
<1>1. TypeOK'
  BY Zenon DEF Stage
<1>2. SchedInv'
  BY Zenon DEF SchedInv
<1>3. OffInv'
  BY Zenon DEF OffInv, Context
<1>4. TrapInv'
  BY Zenon DEF TrapInv
<1>5. OneOwesDeactivation'
  <2>1. ~ThreadOwes /\ ~(ThreadOwes')
    BY Zenon DEF ThreadOwes
  <2>2. /\ UNCHANGED <<uartActive, pending>>
        /\ \A x \in Context : TrapOwes(x)' <=> TrapOwes(x)
    BY Zenon DEF TrapOwes
  <2>3. QED
    BY <2>1, <2>2 DEF OneOwesDeactivation
<1>6. PriorityIsBalanced'
  BY Zenon DEF PriorityIsBalanced, On, SchedInv, Context
<1>7. QED
  BY <1>1, <1>2, <1>3, <1>4, <1>5, <1>6, Zenon

\* IthreadSleep keeps the invariant.
LEMMA IthreadSleepStep ==
    ASSUME IInv, NEW c \in CPU, IthreadSleep(c)
    PROVE  IInv'
<1> USE IntrAssumption, OnContext DEF IInv, TypeOK, IthreadSleep, Serving, device, gic, sched, trap, ithread
<1>1. TypeOK'
  BY Zenon DEF Stage
<1>2. SchedInv'
  BY DEF SchedInv
<1>3. OffInv'
  BY Zenon DEF OffInv, Context
<1>4. TrapInv'
  BY Zenon DEF TrapInv
<1>5. OneOwesDeactivation'
  BY DEF OneOwesDeactivation, TrapOwes, ThreadOwes, TrapInv
<1>6. PriorityIsBalanced'
  BY DEF PriorityIsBalanced, On, SchedInv, Context
<1>7. QED
  BY <1>1, <1>2, <1>3, <1>4, <1>5, <1>6

\* HandlerStart keeps the invariant.
LEMMA HandlerStartStep ==
    ASSUME IInv, NEW c \in CPU, HandlerStart(c)
    PROVE  IInv'
<1> USE IntrAssumption, OnContext DEF IInv, TypeOK, HandlerStart, Serving, device, gic, sched, trap, ithread
<1>1. TypeOK'
  BY DEF Stage
<1>2. SchedInv'
  BY Zenon DEF SchedInv
<1>3. OffInv'
  BY Zenon DEF OffInv, Context
<1>4. TrapInv'
  BY Zenon DEF TrapInv
<1>5. OneOwesDeactivation'
  BY Zenon DEF OneOwesDeactivation, TrapOwes, ThreadOwes, TrapInv
<1>6. PriorityIsBalanced'
  BY Zenon DEF PriorityIsBalanced, On, SchedInv, Context
<1>7. QED
  BY <1>1, <1>2, <1>3, <1>4, <1>5, <1>6, Zenon

\* HandlerGetc keeps the invariant.
LEMMA HandlerGetcStep ==
    ASSUME IInv, NEW c \in CPU, HandlerGetc(c)
    PROVE  IInv'
<1> USE IntrAssumption, OnContext DEF IInv, TypeOK, HandlerGetc, Serving, device, gic, sched, trap, ithread
<1>1. TypeOK'
  BY DEF Stage
<1>2. SchedInv'
  BY Zenon DEF SchedInv
<1>3. OffInv'
  BY Zenon DEF OffInv, Context
<1>4. TrapInv'
  BY Zenon DEF TrapInv
<1>5. OneOwesDeactivation'
  BY Zenon DEF OneOwesDeactivation, TrapOwes, ThreadOwes, TrapInv
<1>6. PriorityIsBalanced'
  BY Zenon DEF PriorityIsBalanced, On, SchedInv, Context
<1>7. QED
  BY <1>1, <1>2, <1>3, <1>4, <1>5, <1>6, Zenon

\* HandlerEnd keeps the invariant.
LEMMA HandlerEndStep ==
    ASSUME IInv, NEW c \in CPU, HandlerEnd(c)
    PROVE  IInv'
<1> USE IntrAssumption, OnContext DEF IInv, TypeOK, HandlerEnd, Serving, device, gic, sched, trap, ithread
<1>1. TypeOK'
  BY Zenon DEF Stage
<1>2. SchedInv'
  BY Zenon DEF SchedInv
<1>3. OffInv'
  BY Zenon DEF OffInv, Context
<1>4. TrapInv'
  BY Zenon DEF TrapInv
<1>5. OneOwesDeactivation'
  BY Zenon DEF OneOwesDeactivation, TrapOwes, ThreadOwes, TrapInv
<1>6. PriorityIsBalanced'
  BY Zenon DEF PriorityIsBalanced, On, SchedInv, Context
<1>7. QED
  BY <1>1, <1>2, <1>3, <1>4, <1>5, <1>6, Zenon

\* IthreadDeactivate keeps the invariant.
LEMMA IthreadDeactivateStep ==
    ASSUME IInv, NEW c \in CPU, IthreadDeactivate(c)
    PROVE  IInv'
<1> USE IntrAssumption, OnContext DEF IInv, TypeOK, IthreadDeactivate, Serving, device, gic, sched, trap, ithread
<1>1. TypeOK'
  BY Zenon DEF Stage
<1>2. SchedInv'
  BY Zenon DEF SchedInv
<1>3. OffInv'
  BY Zenon DEF OffInv, Context
<1>4. TrapInv'
  BY Zenon DEF TrapInv
<1>5. OneOwesDeactivation'
  BY Zenon DEF OneOwesDeactivation, TrapOwes, ThreadOwes, TrapInv
<1>6. PriorityIsBalanced'
  BY Zenon DEF PriorityIsBalanced, On, SchedInv, Context
<1>7. QED
  BY <1>1, <1>2, <1>3, <1>4, <1>5, <1>6, Zenon

\* Acknowledge keeps the invariant.
LEMMA AcknowledgeStep ==
    ASSUME IInv, NEW c \in CPU, NEW j \in {"timer", "uart"}, Acknowledge(c, j)
    PROVE  IInv'
<1>0. /\ stage[On(c)] = "none" /\ stage' = [stage EXCEPT ![On(c)] = "filter"]
      /\ irq' = [irq EXCEPT ![On(c)] = j] /\ running' = [running EXCEPT ![c] = j]
      /\ j = "timer" => timerActive' = timerActive \cup {c} /\ uartActive' = uartActive
      /\ j = "uart" => uartActive' = TRUE /\ timerActive' = timerActive /\ ~uartActive
      /\ UNCHANGED <<device, cur, runq, need_resched, res, ithread>>
  BY Zenon DEF Acknowledge, Unmasked, Advance, Signalled, sched
<1>1. On(c) \in Context
  BY OnContext DEF IInv
<1>2. TypeOK'
  BY <1>0, <1>1, Zenon DEF IInv, TypeOK, Stage, device, ithread
<1>3. SchedInv'
  <2>1. \A d \in CPU : cur[d] # NULL => d # On(c)
    BY IntrAssumption DEF IInv, TypeOK, On, Thread
  <2>2. QED
    BY <1>0, <1>1, <2>1, Zenon DEF IInv, TypeOK, SchedInv, Context, ithread
<1>4. OffInv'
  <2>1. \A t \in Thread : OnQueue(runq, t) \/ (t = Ithread /\ ipc = "asleep") => t # On(c)
    BY IntrAssumption DEF IInv, TypeOK, SchedInv, On, Thread
  <2>2. QED
    BY <1>0, <1>1, <2>1, Zenon DEF IInv, TypeOK, OffInv, Context, ithread
<1>5. TrapInv'
  BY <1>0, <1>1, Zenon DEF IInv, TypeOK, TrapInv
<1>6. OneOwesDeactivation'
  BY <1>0, <1>1 DEF IInv, TypeOK, OneOwesDeactivation, TrapOwes, ThreadOwes, ithread, gic, Context
<1>7. PriorityIsBalanced'
  BY <1>0, <1>1, OnContext DEF IInv, TypeOK, PriorityIsBalanced, On, SchedInv, gic, Context
<1>8. QED
  BY <1>2, <1>3, <1>4, <1>5, <1>6, <1>7 DEF IInv

\* Every step keeps the invariant.
LEMMA NextIInv == IInv /\ [Next]_vars => IInv'
<1> SUFFICES ASSUME IInv, [Next]_vars PROVE IInv'
  OBVIOUS
<1>1. CASE Receive \/ Raise
  BY <1>1, ReceiveStep, RaiseStep
<1>2. ASSUME NEW c \in CPU, TrapStep(c) PROVE IInv'
  BY <1>2, FilterTimerStep, FilterUartStep, WakeupStep, EoiStep, PreemptStep DEF TrapStep
<1>3. ASSUME NEW c \in CPU, IthreadStep(c) PROVE IInv'
  BY <1>3, IthreadTakeStep, IthreadTestStep, IthreadSleepStep, HandlerStartStep,
     HandlerGetcStep, HandlerEndStep, IthreadDeactivateStep DEF IthreadStep
<1>4. CASE UNCHANGED vars
  BY <1>4 DEF IInv, TypeOK, SchedInv, OffInv, TrapInv, OneOwesDeactivation, TrapOwes,
     ThreadOwes, PriorityIsBalanced, On, vars
<1>5. QED
  BY <1>1, <1>2, <1>3, <1>4, TickStep, AcknowledgeStep, DispatchStep DEF Next

\* The invariant of trap_irq(), intr_dispatch() and ithread_loop() together.
THEOREM IntrInvariant == Spec => []IInv
<1>1. QED
  BY InitIInv, NextIInv, PTL DEF Spec

\* Each active interrupt is deactivated by exactly one party, whatever threads and CPUs
\* there are.
THEOREM OneDeactivation == Spec => []OneOwesDeactivation
<1>1. IInv => OneOwesDeactivation
  BY DEF IInv
<1>2. QED
  BY <1>1, IntrInvariant, PTL

\* Acknowledge and end of an interrupt happen on the same CPU, however threads migrate.
THEOREM PrioritiesBalance == Spec => []PriorityIsBalanced
<1>1. IInv => PriorityIsBalanced
  BY DEF IInv
<1>2. QED
  BY <1>1, IntrInvariant, PTL

=============================================================================

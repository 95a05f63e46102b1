------------------------------- MODULE MCProc -------------------------------
(* Proc on small sets of CPUs and procs. *)
EXTENDS Proc, TLC

\* The procs other than init are interchangeable, and so are the CPUs.
Symmetry == Permutations(Cpu) \cup Permutations(Proc \ {initproc})

\* A liveness run cannot use the symmetry.  The behaviours are closed under it, so
\* what one proc other than init is promised, each of them is.
AnyProc == CHOOSE p \in Proc \ {initproc} : TRUE

\* FIFO scheduling starves no process other than init: whatever the CPUs dequeue, and
\* however often the others yield, one that is RUNNABLE gets a CPU.
RunnableRuns == GetsCpu(AnyProc)

\* exit() of a child reaches a parent other than init that is in wait() at any point of
\* its scan, of sleep() or of its wake-up on another CPU: that wait() returns.
WaitReturns == LeavesWait(AnyProc)
=============================================================================

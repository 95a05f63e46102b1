---------------------------- MODULE ConsoleInput ----------------------------
(***************************************************************************)
(* The input half of src/dev/console.c: the ring cons with its read, write *)
(* and edit indices, console_intr(), which the UART's interrupt thread     *)
(* runs, and console_read(), which any number of processes may call.       *)
(*                                                                         *)
(* cons_lock is held over whole calls and given up in sleep() only.  That  *)
(* sleep() gives it up and falls asleep in one step as far as wakeup() can *)
(* tell is the subject of Proc.                                            *)
(***************************************************************************)
EXTENDS Integers, Sequences, FiniteSets

CONSTANTS
    Reader,         \* processes that read the console
    NULL,
    BufSize,        \* INPUT_BUF_SIZE
    DrainMax,       \* CONSOLE_DRAIN_MAX
    ReadMax,        \* the most a call asks for
    FifoDepth,      \* external: the receive FIFO of the UART
    MaxIn           \* bound: characters that arrive in all

ASSUME InputAssumption ==
    /\ BufSize \in Nat \ {0} /\ DrainMax \in Nat \ {0} /\ ReadMax \in Nat
    /\ "intr" \notin Reader /\ NULL \notin Reader

\* What the code tells apart: a plain character, newline (or CR, which becomes
\* one), ^D, ^U, backspace or DEL, and what is dropped: NUL and faulty characters.
Key == {"x", "nl", "eof", "kill", "erase", "void"}

VARIABLES
    fifo,               \* external: received, not read by uart_getc()
    arrived,            \* how many have arrived
    buf, r, w, e,       \* cons
    lock,               \* cons_lock
    drained,            \* local of console_intr()
    pc, n, target, dst, \* the calls of console_read()
    flagged,            \* p->killed
    screen,             \* what console_echo() leaves on the terminal
    taken,              \* history: what readers took out of the ring
    eofs                \* history: calls that returned 0 to end the file

vars == <<fifo, arrived, buf, r, w, e, lock, drained, pc, n, target, dst, flagged,
          screen, taken, eofs>>
ring == <<buf, r, w, e>>
calls == <<pc, n, target, dst>>
history == <<taken, eofs>>

Slot(i) == i % BufSize

Init ==
    /\ fifo = <<>> /\ arrived = 0
    /\ buf = [i \in 0..BufSize - 1 |-> "void"]
    /\ r = 0 /\ w = 0 /\ e = 0
    /\ lock = NULL
    /\ drained = 0
    /\ pc = [p \in Reader |-> "user"]
    /\ n = [p \in Reader |-> 0] /\ target = n
    /\ dst = [p \in Reader |-> <<>>]
    /\ flagged = {}
    /\ screen = <<>> /\ taken = <<>> /\ eofs = 0

-----------------------------------------------------------------------------
(* console_intr() *)

\* External: the UART receives a character.
Receive(key) ==
    /\ arrived < MaxIn
    /\ Len(fifo) < FifoDepth
    /\ fifo' = Append(fifo, key)
    /\ arrived' = arrived + 1
    /\ UNCHANGED <<ring, lock, drained, calls, flagged, screen, history>>

\* External: the interrupt has come and the thread calls the handler.
IntrStart ==
    /\ fifo # <<>>
    /\ lock = NULL
    /\ lock' = "intr"
    /\ drained' = 0
    /\ UNCHANGED <<fifo, arrived, ring, calls, flagged, screen, history>>

IntrEnd ==
    /\ lock = "intr"
    /\ fifo = <<>> \/ drained = DrainMax
    /\ lock' = NULL
    /\ UNCHANGED <<fifo, arrived, ring, drained, calls, flagged, screen, history>>

\* uart_getc()
Getc(key) ==
    /\ lock = "intr"
    /\ drained < DrainMax
    /\ fifo # <<>> /\ Head(fifo) = key
    /\ fifo' = Tail(fifo)
    /\ drained' = drained + 1
    /\ UNCHANGED <<arrived, lock, n, target, dst, flagged, history>>

\* Back to where the loop of ^U stops: the start of the line, or the newline
\* before it.
KillTo(to) ==
    /\ to \in w..e
    /\ \A i \in to..e - 1 : buf[Slot(i)] # "nl"
    /\ to = w \/ buf[Slot(to - 1)] = "nl"

IntrKill ==
    /\ Getc("kill")
    /\ \E to \in 0..e :
        /\ KillTo(to)
        /\ e' = to
        /\ screen' = SubSeq(screen, 1, Len(screen) - (e - to))
    /\ UNCHANGED <<buf, r, w, pc>>

Erasable == e # w

IntrErase ==
    /\ Getc("erase")
    /\ IF Erasable
       THEN e' = e - 1 /\ screen' = SubSeq(screen, 1, Len(screen) - 1)
       ELSE UNCHANGED <<e, screen>>
    /\ UNCHANGED <<buf, r, w, pc>>

Room == e - r < BufSize

\* The line is complete, or the ring is full.
Commits(key) == key \in {"nl", "eof"} \/ e + 1 - r = BufSize

\* wakeup(&cons.r)
Wake == pc' = [p \in Reader |-> IF pc[p] = "asleep" THEN "lock" ELSE pc[p]]

Commit(key) == IF Commits(key) THEN w' = e + 1 /\ Wake ELSE UNCHANGED <<w, pc>>

\* Mutant: the echo comes before the test for room.
IntrStoreEchoFirst(key) ==
    /\ key \in {"x", "nl", "eof"}
    /\ Getc(key)
    /\ screen' = Append(screen, key)
    /\ IF Room
       THEN /\ buf' = [buf EXCEPT ![Slot(e)] = key]
            /\ e' = e + 1
            /\ Commit(key)
       ELSE UNCHANGED <<buf, e, w, pc>>
    /\ UNCHANGED r

IntrStore(key) ==
    /\ key \in {"x", "nl", "eof"}
    /\ Getc(key)
    /\ IF Room
       THEN /\ screen' = Append(screen, key)
            /\ buf' = [buf EXCEPT ![Slot(e)] = key]
            /\ e' = e + 1
            /\ Commit(key)
       ELSE UNCHANGED <<screen, buf, e, w, pc>>
    /\ UNCHANGED r

IntrDrop == Getc("void") /\ UNCHANGED <<ring, pc, screen>>

-----------------------------------------------------------------------------
(* console_read() *)

Goto(p, point) == pc' = [pc EXCEPT ![p] = point]

\* sys_read(), which returns at once when asked for nothing.
ReadCall(p, size) ==
    /\ pc[p] = "user"
    /\ Goto(p, "lock")
    /\ n' = [n EXCEPT ![p] = size] /\ target' = [target EXCEPT ![p] = size]
    /\ dst' = [dst EXCEPT ![p] = <<>>]
    /\ UNCHANGED <<fifo, arrived, ring, lock, drained, flagged, screen, history>>

\* acquire_spinlock(&cons_lock), at the start and at the end of sleep().
ReadLock(p) ==
    /\ pc[p] = "lock"
    /\ lock = NULL
    /\ lock' = p
    /\ Goto(p, "loop")
    /\ UNCHANGED <<fifo, arrived, ring, drained, n, target, dst, flagged, screen, history>>

\* A process that has been killed exits on its way back, in usertrap_sync().
Leave(p) == lock' = NULL /\ Goto(p, IF p \in flagged THEN "exit" ELSE "user")

\* The loop ends with n = 0.
ReadFull(p) ==
    /\ pc[p] = "loop" /\ n[p] = 0
    /\ Leave(p)
    /\ UNCHANGED <<fifo, arrived, ring, drained, n, target, dst, flagged, screen, history>>

\* Nothing to read, and killed(): return -1.
ReadKilled(p) ==
    /\ pc[p] = "loop" /\ n[p] > 0 /\ r = w
    /\ p \in flagged
    /\ Leave(p)
    /\ dst' = [dst EXCEPT ![p] = <<>>]
    /\ UNCHANGED <<fifo, arrived, ring, drained, n, target, flagged, screen, history>>

\* Mutant: the lock is given up before the process sleeps.
ReadWaitUnlocked(p) ==
    /\ pc[p] = "loop" /\ n[p] > 0 /\ r = w
    /\ p \notin flagged
    /\ Goto(p, "sleep")
    /\ lock' = NULL
    /\ UNCHANGED <<fifo, arrived, ring, drained, n, target, dst, flagged, screen, history>>

\* Nothing to read: killed() says no, and then it is on its way into sleep().
ReadWait(p) ==
    /\ pc[p] = "loop" /\ n[p] > 0 /\ r = w
    /\ p \notin flagged
    /\ Goto(p, "sleep")
    /\ UNCHANGED <<fifo, arrived, ring, lock, drained, n, target, dst, flagged, screen, history>>

ReadSleep(p) ==
    /\ pc[p] = "sleep"
    /\ Goto(p, "asleep")
    /\ lock' = NULL
    /\ UNCHANGED <<fifo, arrived, ring, drained, n, target, dst, flagged, screen, history>>

MayRead(p) == pc[p] = "loop" /\ n[p] > 0 /\ r # w

\* Mutant: ^D is taken also when it ends a line.
TakesEofAlways(p) == TRUE

\* ^D is taken when nothing was read before it, and left for the next call else.
TakesEof(p) == n[p] = target[p]

ReadEof(p) ==
    /\ MayRead(p) /\ buf[Slot(r)] = "eof"
    /\ IF TakesEof(p)
       THEN r' = r + 1 /\ taken' = Append(taken, "eof")
       ELSE UNCHANGED <<r, taken>>
    /\ eofs' = IF dst[p] = <<>> THEN eofs + 1 ELSE eofs
    /\ Leave(p)
    /\ UNCHANGED <<fifo, arrived, buf, w, e, drained, n, target, dst, flagged, screen>>

EndsLine(key) == key = "nl"

ReadChar(p) ==
    /\ MayRead(p) /\ buf[Slot(r)] # "eof"
    /\ r' = r + 1
    /\ taken' = Append(taken, buf[Slot(r)])
    /\ dst' = [dst EXCEPT ![p] = Append(@, buf[Slot(r)])]
    /\ n' = [n EXCEPT ![p] = @ - 1]
    /\ IF EndsLine(buf[Slot(r)]) THEN Leave(p) ELSE UNCHANGED <<lock, pc>>
    /\ UNCHANGED <<fifo, arrived, buf, w, e, drained, target, flagged, screen, eofs>>

\* kill() of a process that has not been killed.
Kill(p) ==
    /\ p \notin flagged
    /\ flagged' = flagged \cup {p}
    /\ pc' = IF pc[p] = "asleep" THEN [pc EXCEPT ![p] = "lock"] ELSE pc
    /\ UNCHANGED <<fifo, arrived, ring, lock, drained, n, target, dst, screen, history>>

-----------------------------------------------------------------------------
Next ==
    \/ \E key \in Key : Receive(key) \/ IntrStore(key)
    \/ IntrStart \/ IntrEnd \/ IntrKill \/ IntrErase \/ IntrDrop
    \/ \E p \in Reader :
        \/ \E size \in 1..ReadMax : ReadCall(p, size)
        \/ ReadLock(p) \/ ReadFull(p) \/ ReadKilled(p) \/ ReadWait(p) \/ ReadSleep(p)
        \/ ReadEof(p) \/ ReadChar(p) \/ Kill(p)

Spec == Init /\ [][Next]_vars

-----------------------------------------------------------------------------
(* Properties *)

\* The terminal shows what was read followed by what is still in the ring: nothing
\* is echoed that no reader gets, nothing is read that was not echoed, and the
\* order stays, also when the ring wraps.
ScreenIsInput ==
    screen = taken \o [i \in 1..e - r |-> buf[Slot(r + i - 1)]]

\* Nobody sleeps while there is something to read, although the lock does not cover
\* kill() and ^D goes back into the ring without a wakeup().
NobodySleepsOnInput == \A p \in Reader : pc[p] = "asleep" => r = w

\* Every ^D that leaves the ring ends the file for one caller with a result of 0,
\* the comment at "Save ^D for next time, so caller gets 0-byte result".
EveryEofIsSeen == eofs = Cardinality({i \in DOMAIN taken : taken[i] = "eof"})
=============================================================================

------------------------------- MODULE Console -------------------------------
(***************************************************************************)
(* The output half of src/dev/console.c with vprintk() of src/kern/        *)
(* printk.c: threads add records to the log and drain it to the port under *)
(* cons_out_lock, while others go on adding.  kmsg_lock is taken and       *)
(* dropped inside every call of kmsg.c, so the log moves between any two   *)
(* steps of a drain.                                                       *)
(***************************************************************************)
EXTENDS Kmsg, SequencesExt

CONSTANTS
    Thread,     \* processes and interrupt handlers that print
    CallerOf,   \* kmsg_caller() of each; a handler has that of its CPU's process
    Format,     \* the lines vsnprintf() is to produce
    NUL,        \* the character that ends a C string
    NULL

\* vsnprintf() into the staging buffer: a line that does not fit loses its end to
\* the terminating NUL, which the length passed to kmsg_add() then includes.
Formatted(text) ==
    IF Len(text) < RecordMax THEN text
    ELSE Append(SubSeq(text, 1, RecordMax - 1), NUL)

ASSUME ConsoleAssumption ==
    /\ CallerOf \in [Thread -> Caller]
    /\ NULL \notin Thread
    /\ \A line \in Format : Formatted(line) \in Text

VARIABLES
    cons_out_lock,  \* the thread holding it, or NULL
    cons_seq,       \* next record to render
    pc,             \* where each thread is
    end,            \* console_drain()'s end, console_replay()'s last
    pos,            \* console_replay()'s seq
    port,           \* what the drains wrote to the UART
    replayed        \* the records the running console_replay() wrote

consVars == <<cons_out_lock, cons_seq, pc, end, pos, port, replayed>>
vars == <<kmsgVars, consVars>>

Points == {"idle", "flush_upto", "flush", "drain", "drain_first",
           "replay", "replay_last", "replay_read", "replay_first"}

Readable(seq) == Read(seq) # <<>>

Line(seq) == [kind |-> "line", seq |-> seq, text |-> Read(seq), n |-> 1]
Dropped(n) == [kind |-> "dropped", seq |-> 0, text |-> <<>>, n |-> n]

\* The lock, the positions in the log and the threads are well formed.
TypeOK ==
    /\ KmsgTypeOK
    /\ cons_out_lock \in Thread \cup {NULL}
    /\ cons_seq \in 0..next_seq
    /\ pc \in [Thread -> Points]
    /\ end \in [Thread -> 0..next_seq]
    /\ pos \in [Thread -> 0..next_seq]
    /\ \A i \in 1..Len(port) : port[i].kind \in {"line", "dropped"}

Init ==
    /\ KmsgInit
    /\ cons_out_lock = NULL
    /\ cons_seq = 0
    /\ pc = [t \in Thread |-> "idle"]
    /\ end = [t \in Thread |-> 0]
    /\ pos = [t \in Thread |-> 0]
    /\ port = <<>>
    /\ replayed = <<>>

Goto(t, point) == pc' = [pc EXCEPT ![t] = point]

Lock(t, point) ==
    /\ cons_out_lock = NULL
    /\ cons_out_lock' = t
    /\ Goto(t, point)

\* The lock is released and the caller's locals are gone.
Unlock(t) ==
    /\ cons_out_lock' = NULL
    /\ Goto(t, "idle")
    /\ end' = [end EXCEPT ![t] = 0]
    /\ pos' = [pos EXCEPT ![t] = 0]
    /\ replayed' = <<>>

-----------------------------------------------------------------------------
(* vprintk(), and kmsg_finalize() with console_flush() *)

\* Mutant: the flush stops before the record that was just added.
PrintkShort(t, cont, text) ==
    /\ pc[t] = "idle"
    /\ Add(CallerOf[t], cont, Formatted(text))
    /\ end' = [end EXCEPT ![t] = AddedSeq(CallerOf[t], cont, Formatted(text))]
    /\ Goto(t, "flush_upto")
    /\ UNCHANGED <<cons_out_lock, cons_seq, pos, port, replayed>>

\* kmsg_add(), then console_flush_upto() of the record that has the text.
Printk(t, cont, text) ==
    /\ pc[t] = "idle"
    /\ Add(CallerOf[t], cont, Formatted(text))
    /\ end' = [end EXCEPT ![t] = AddedSeq(CallerOf[t], cont, Formatted(text)) + 1]
    /\ Goto(t, "flush_upto")
    /\ UNCHANGED <<cons_out_lock, cons_seq, pos, port, replayed>>

\* kmsg_finalize(), then console_flush(), with locking on as the tests call them.
Finalize(t) ==
    /\ pc[t] = "idle"
    /\ KmsgFinalize
    /\ Goto(t, "flush")
    /\ UNCHANGED <<cons_out_lock, cons_seq, end, pos, port, replayed>>

\* console_flush_upto() has the port.
FlushUpto(t) ==
    /\ pc[t] = "flush_upto"
    /\ Lock(t, "drain")
    /\ UNCHANGED <<kmsgVars, cons_seq, end, pos, port, replayed>>

\* console_flush() has the port and takes the end of the log.
Flush(t) ==
    /\ pc[t] = "flush"
    /\ Lock(t, "drain")
    /\ end' = [end EXCEPT ![t] = next_seq]
    /\ UNCHANGED <<kmsgVars, cons_seq, pos, port, replayed>>

-----------------------------------------------------------------------------
(* console_drain() *)

DrainEnd(t) ==
    /\ pc[t] = "drain"
    /\ cons_seq >= end[t]
    /\ Unlock(t)
    /\ UNCHANGED <<kmsgVars, cons_seq, port>>

\* Mutant: what was added meanwhile is drained as well.
DrainReadOn(t) ==
    /\ pc[t] = "drain"
    /\ cons_seq < end[t]
    /\ Readable(cons_seq)
    /\ port' = Append(port, Line(cons_seq))
    /\ cons_seq' = cons_seq + 1
    /\ end' = [end EXCEPT ![t] = next_seq]
    /\ UNCHANGED <<kmsgVars, cons_out_lock, pc, pos, replayed>>

\* kmsg_read() has the record: console_render().
DrainRead(t) ==
    /\ pc[t] = "drain"
    /\ cons_seq < end[t]
    /\ Readable(cons_seq)
    /\ port' = Append(port, Line(cons_seq))
    /\ cons_seq' = cons_seq + 1
    /\ UNCHANGED <<kmsgVars, cons_out_lock, pc, end, pos, replayed>>

\* kmsg_read() fails.
DrainMiss(t) ==
    /\ pc[t] = "drain"
    /\ cons_seq < end[t]
    /\ ~Readable(cons_seq)
    /\ Goto(t, "drain_first")
    /\ UNCHANGED <<kmsgVars, cons_out_lock, cons_seq, end, pos, port, replayed>>

\* Mutant: the note counts the record that is rendered next as well.
DrainSkipOne(t) ==
    /\ pc[t] = "drain_first"
    /\ cons_seq < FirstSeq
    /\ port' = Append(port, Dropped(FirstSeq - cons_seq + 1))
    /\ cons_seq' = FirstSeq
    /\ Goto(t, "drain")
    /\ UNCHANGED <<kmsgVars, cons_out_lock, end, pos, replayed>>

\* kmsg_first_seq(): the record was overwritten, go on with the oldest one.
DrainSkip(t) ==
    /\ pc[t] = "drain_first"
    /\ cons_seq < FirstSeq
    /\ port' = Append(port, Dropped(FirstSeq - cons_seq))
    /\ cons_seq' = FirstSeq
    /\ Goto(t, "drain")
    /\ UNCHANGED <<kmsgVars, cons_out_lock, end, pos, replayed>>

\* kmsg_first_seq(): the record is open, stop here.
DrainBreak(t) ==
    /\ pc[t] = "drain_first"
    /\ cons_seq >= FirstSeq
    /\ Unlock(t)
    /\ UNCHANGED <<kmsgVars, cons_seq, port>>

-----------------------------------------------------------------------------
(* console_replay() *)

ReplayCall(t) ==
    /\ pc[t] = "idle"
    /\ Goto(t, "replay")
    /\ UNCHANGED <<kmsgVars, cons_out_lock, cons_seq, end, pos, port, replayed>>

\* The lock, and seq = kmsg_first_seq().
ReplayFirst(t) ==
    /\ pc[t] = "replay"
    /\ Lock(t, "replay_last")
    /\ pos' = [pos EXCEPT ![t] = FirstSeq]
    /\ UNCHANGED <<kmsgVars, cons_seq, end, port, replayed>>

\* last = kmsg_next_seq()
ReplayLast(t) ==
    /\ pc[t] = "replay_last"
    /\ end' = [end EXCEPT ![t] = next_seq]
    /\ Goto(t, "replay_read")
    /\ UNCHANGED <<kmsgVars, cons_out_lock, cons_seq, pos, port, replayed>>

ReplayRead(t) ==
    /\ pc[t] = "replay_read"
    /\ pos[t] < end[t]
    /\ Readable(pos[t])
    /\ replayed' = Append(replayed, pos[t])
    /\ pos' = [pos EXCEPT ![t] = @ + 1]
    /\ UNCHANGED <<kmsgVars, cons_out_lock, cons_seq, pc, end, port>>

ReplayMiss(t) ==
    /\ pc[t] = "replay_read"
    /\ pos[t] < end[t]
    /\ ~Readable(pos[t])
    /\ Goto(t, "replay_first")
    /\ UNCHANGED <<kmsgVars, cons_out_lock, cons_seq, end, pos, port, replayed>>

\* Mutant: a record that was overwritten ends the replay.
ReplayStops(t) ==
    /\ pc[t] = "replay_first"
    /\ pos[t] < FirstSeq
    /\ Unlock(t)
    /\ UNCHANGED <<kmsgVars, cons_seq, port>>

ReplaySkip(t) ==
    /\ pc[t] = "replay_first"
    /\ pos[t] < FirstSeq
    /\ pos' = [pos EXCEPT ![t] = FirstSeq]
    /\ Goto(t, "replay_read")
    /\ UNCHANGED <<kmsgVars, cons_out_lock, cons_seq, end, port, replayed>>

ReplayBreak(t) ==
    /\ pc[t] = "replay_first"
    /\ pos[t] >= FirstSeq
    /\ Unlock(t)
    /\ UNCHANGED <<kmsgVars, cons_seq, port>>

ReplayEnd(t) ==
    /\ pc[t] = "replay_read"
    /\ pos[t] >= end[t]
    /\ Unlock(t)
    /\ UNCHANGED <<kmsgVars, cons_seq, port>>

-----------------------------------------------------------------------------
\* What a thread does once it has called into the console.
ThreadStep(t) ==
    \/ FlushUpto(t) \/ Flush(t)
    \/ DrainEnd(t) \/ DrainRead(t) \/ DrainMiss(t) \/ DrainSkip(t) \/ DrainBreak(t)
    \/ ReplayFirst(t) \/ ReplayLast(t) \/ ReplayRead(t) \/ ReplayMiss(t)
    \/ ReplaySkip(t) \/ ReplayBreak(t) \/ ReplayEnd(t)

Call(t) ==
    \/ \E cont \in BOOLEAN, line \in Format :
         next_seq < MaxSeq /\ Printk(t, cont, line)
    \/ Finalize(t)
    \/ ReplayCall(t)

Next == \E t \in Thread : ThreadStep(t) \/ Call(t)

Spec == Init /\ [][Next]_vars

-----------------------------------------------------------------------------
(* Properties *)

Shown(n) == FoldLeft(LAMBDA k, e : k + e.n, 0, SubSeq(port, 1, n))

\* What the port shows accounts for every record below cons_seq: each was
\* rendered once, in order, or is counted by one "messages dropped" note, however
\* the drains and kmsg_add() of other CPUs interleave.
EveryRecordAccounted ==
    /\ \A i \in 1..Len(port) : port[i].kind = "line" => port[i].seq = Shown(i - 1)
    /\ Shown(Len(port)) = cons_seq

\* When nobody is printing, nothing printable is left behind: the flushes of all
\* threads together drained every record but one that is still open.
QuietMeansFlushed ==
    (\A t \in Thread : pc[t] = "idle" \/ pc[t] = "replay") =>
        \A seq \in FirstSeq..next_seq - 1 : seq >= cons_seq => ~Readable(seq)

\* A console_replay() that returns has rendered every record it found when it
\* started and that is still held, although kmsg_add() dropped others under it;
\* the newest of them may have been open when the replay came to it.
ReplayHasNoGap ==
    [][\A t \in Thread :
         pc[t] \in {"replay_read", "replay_first"} /\ pc'[t] = "idle" =>
             \A seq \in FirstSeq..end[t] - 2 : Contains(replayed, seq)]_vars

\* The loops of console_drain() and console_replay(), and how far each is from its end:
\* two turns a record, one to find it missing and one to go on from the oldest.
InLoop(t) == pc[t] \in {"drain", "drain_first", "replay_read", "replay_first"}
Left(t) ==
    LET seq == IF pc[t] \in {"drain", "drain_first"} THEN cons_seq ELSE pos[t]
    IN  2 * Cardinality(seq..end[t] - 1) + (IF pc[t] \in {"drain", "replay_read"} THEN 1 ELSE 0)

\* A CPU in one of the loops cannot be kept there by others that go on adding records
\* and overwriting the ones it is at, nor by a record that stays open: each step of its
\* own brings it nearer to the end, and no step of another takes it further away.  So a
\* loop ends however many records are added.
LoopsWindDown ==
    [][\A t \in Thread : InLoop(t) /\ InLoop(t)' =>
         Left(t)' <= Left(t) /\ (ThreadStep(t) => Left(t)' < Left(t))]_vars
=============================================================================

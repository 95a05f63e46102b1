-------------------------------- MODULE Kmsg --------------------------------
(***************************************************************************)
(* The message ring of src/kern/kmsg.c: a ring of descriptors and a ring   *)
(* of text.  Every operation holds kmsg_lock from its first to its last    *)
(* access, so each is one step.  Levels and timestamps are left out.       *)
(***************************************************************************)
EXTENDS Naturals, Sequences

CONSTANTS Caller, Text, NL, RecordMax, NDesc, TextSz, MaxSeq   \* see Log

ASSUME KmsgAssumption ==
    /\ RecordMax \in Nat \ {0} /\ NDesc \in Nat \ {0} /\ TextSz \in Nat
    /\ RecordMax <= TextSz
    /\ MaxSeq \in Nat
    /\ \A t \in Text : t \in Seq(STRING) /\ t # <<>>

VARIABLES desc, textbuf, dhead, dtail, ndesc, thead, ttail, tused, next_seq

kmsgVars == <<desc, textbuf, dhead, dtail, ndesc, thead, ttail, tused, next_seq>>

Descriptor == [seq : 0..MaxSeq, off : 0..TextSz - 1, len : 0..RecordMax,
               caller : Caller, final : BOOLEAN]

Char == UNION {{t[i] : i \in 1..Len(t)} : t \in Text}

\* One type invariant; the counters never pass the size of their ring.
KmsgTypeOK ==
    /\ desc \in [0..NDesc - 1 -> Descriptor]
    /\ textbuf \in [0..TextSz - 1 -> Char]
    /\ dhead \in 0..NDesc - 1 /\ dtail \in 0..NDesc - 1 /\ ndesc \in 0..NDesc
    /\ thead \in 0..TextSz - 1 /\ ttail \in 0..TextSz - 1 /\ tused \in 0..TextSz
    /\ next_seq \in 0..MaxSeq

\* The static storage is zero; what the unused slots hold is never read.
KmsgInit ==
    /\ desc = [i \in 0..NDesc - 1 |->
                 [seq |-> 0, off |-> 0, len |-> 0, final |-> FALSE,
                  caller |-> CHOOSE c \in Caller : TRUE]]
    /\ textbuf = [i \in 0..TextSz - 1 |-> CHOOSE c \in Char : TRUE]
    /\ dhead = 0 /\ dtail = 0 /\ ndesc = 0
    /\ thead = 0 /\ ttail = 0 /\ tused = 0
    /\ next_seq = 0

-----------------------------------------------------------------------------
\* kmsg_drop_oldest() on the tail part of the ring.
DropOldest(q) ==
    LET len == desc[q.dtail].len IN
    [ttail |-> (q.ttail + len) % TextSz,
     tused |-> q.tused - len,
     dtail |-> (q.dtail + 1) % NDesc,
     ndesc |-> q.ndesc - 1]

\* Mutant: the loop makes room in the text ring only.
RECURSIVE MakeRoomForText(_, _)
MakeRoomForText(q, len) ==
    IF q.tused + len > TextSz THEN MakeRoomForText(DropOldest(q), len) ELSE q

\* The loop of kmsg_add() that drops records until both rings have room.
RECURSIVE MakeRoom(_, _)
MakeRoom(q, len) ==
    IF q.ndesc = NDesc \/ q.tused + len > TextSz
    THEN MakeRoom(DropOldest(q), len) ELSE q

\* kmsg_write_text(): the text ring with text stored at offset off.
Written(off, text) ==
    [i \in 0..TextSz - 1 |->
        LET k == (i + TextSz - off) % TextSz IN
        IF k < Len(text) THEN text[k + 1] ELSE textbuf[i]]

\* kmsg_last(), where ndesc # 0.
last == (dhead + NDesc - 1) % NDesc

EndsLine(text) == text[Len(text)] = NL

\* The early returns of kmsg_append_last().
CanAppend(caller, text) ==
    /\ ndesc # 0
    /\ ~desc[last].final
    /\ desc[last].caller = caller
    /\ desc[last].len + Len(text) <= RecordMax
    /\ tused + Len(text) <= TextSz

\* kmsg_append_last()
AppendLast(text) ==
    /\ textbuf' = Written(thead, text)
    /\ thead' = (thead + Len(text)) % TextSz
    /\ tused' = tused + Len(text)
    /\ desc' = [desc EXCEPT ![last].len = @ + Len(text),
                            ![last].final = @ \/ EndsLine(text)]
    /\ UNCHANGED <<dhead, dtail, ndesc, ttail, next_seq>>

\* Mutant: the newest record is left open behind the new one.
StartRecordOverOpen(caller, text) ==
    LET q == MakeRoom([ttail |-> ttail, tused |-> tused,
                       dtail |-> dtail, ndesc |-> ndesc], Len(text))
        new == [seq |-> next_seq, off |-> thead, len |-> Len(text),
                caller |-> caller, final |-> EndsLine(text)]
    IN  /\ ttail' = q.ttail /\ dtail' = q.dtail
        /\ tused' = q.tused + Len(text)
        /\ ndesc' = q.ndesc + 1
        /\ desc' = [desc EXCEPT ![dhead] = new]
        /\ textbuf' = Written(thead, text)
        /\ thead' = (thead + Len(text)) % TextSz
        /\ dhead' = (dhead + 1) % NDesc
        /\ next_seq' = next_seq + 1

\* The rest of kmsg_add(): close the newest record, make room, fill a descriptor.
StartRecord(caller, text) ==
    LET q == MakeRoom([ttail |-> ttail, tused |-> tused,
                       dtail |-> dtail, ndesc |-> ndesc], Len(text))
        closed == IF ndesc = 0 THEN desc ELSE [desc EXCEPT ![last].final = TRUE]
        new == [seq |-> next_seq, off |-> thead, len |-> Len(text),
                caller |-> caller, final |-> EndsLine(text)]
    IN  /\ ttail' = q.ttail /\ dtail' = q.dtail
        /\ tused' = q.tused + Len(text)
        /\ ndesc' = q.ndesc + 1
        /\ desc' = [closed EXCEPT ![dhead] = new]
        /\ textbuf' = Written(thead, text)
        /\ thead' = (thead + Len(text)) % TextSz
        /\ dhead' = (dhead + 1) % NDesc
        /\ next_seq' = next_seq + 1

Truncated(text) == IF Len(text) > RecordMax THEN SubSeq(text, 1, RecordMax) ELSE text

\* kmsg_add() of a text that is not empty, by a CPU that is not inside it.
Add(caller, cont, text) ==
    LET t == Truncated(text) IN
    IF cont /\ CanAppend(caller, t) THEN AppendLast(t) ELSE StartRecord(caller, t)

\* What it returns.
AddedSeq(caller, cont, text) ==
    IF cont /\ CanAppend(caller, Truncated(text)) THEN desc[last].seq ELSE next_seq

\* kmsg_finalize()
KmsgFinalize ==
    /\ desc' = IF ndesc = 0 THEN desc ELSE [desc EXCEPT ![last].final = TRUE]
    /\ UNCHANGED <<textbuf, dhead, dtail, ndesc, thead, ttail, tused, next_seq>>

\* kmsg_first_seq()
FirstSeq == IF ndesc = 0 THEN next_seq ELSE desc[dtail].seq

\* The text of a descriptor, put together across the end of the ring.
TextOf(d) == [i \in 1..d.len |-> textbuf[(d.off + i - 1) % TextSz]]

\* Where kmsg_read() looks for record seq.
Index(seq) == (dtail + (seq - desc[dtail].seq)) % NDesc

\* kmsg_read(): the text, which is never empty, or the empty sequence for -1.
Read(seq) ==
    IF ndesc = 0 \/ seq < desc[dtail].seq \/ seq >= next_seq THEN <<>>
    ELSE IF ~desc[Index(seq)].final THEN <<>> ELSE TextOf(desc[Index(seq)])

-----------------------------------------------------------------------------
(* Properties of whatever calls these operations. *)

Live(i) == desc[(dtail + i) % NDesc]

\* The log the ring stands for: the live descriptors in order with their text.
L == INSTANCE Log WITH
        first <- FirstSeq,
        rec <- [i \in 1..ndesc |->
                  [text |-> TextOf(Live(i - 1)), final |-> Live(i - 1).final,
                   caller |-> Live(i - 1).caller]]

\* The ring implements the log of kmsg.h: the records kmsg_add() stores, extends
\* and drops are the ones it promises, with their text intact.
ImplementsLog == L!LogSpec

=============================================================================

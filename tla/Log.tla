--------------------------------- MODULE Log ---------------------------------
(***************************************************************************)
(* What src/include/sys/kmsg.h promises of the kernel log: the newest      *)
(* records that fit, numbered without a gap.  The newest one may be open,  *)
(* and then its own caller may extend it with KERN_CONT.                   *)
(***************************************************************************)
EXTENDS Naturals, Sequences, SequencesExt, FiniteSetsExt

CONSTANTS
    Caller,     \* pids, and CPU numbers where no process runs
    Text,       \* what kmsg_add() may be given: sequences of characters
    NL,         \* the character that ends a line
    RecordMax,  \* KMSG_RECORD_MAX
    NDesc,      \* KMSG_NDESC
    TextSz,     \* KMSG_TEXTSZ
    MaxSeq      \* bound: the number of records of a behaviour

VARIABLES
    first,      \* the sequence number of the oldest record held
    rec         \* the records held, oldest first

logVars == <<first, rec>>

LogInit == first = 0 /\ rec = <<>>

\* kmsg_next_seq()
NextSeq == first + Len(rec)

Truncated(text) == IF Len(text) > RecordMax THEN SubSeq(text, 1, RecordMax) ELSE text

EndsLine(text) == text[Len(text)] = NL

Bytes(rs) == FoldLeft(LAMBDA n, r : n + Len(r.text), 0, rs)

Fits(rs) == Len(rs) <= NDesc /\ Bytes(rs) <= TextSz

Closed(rs) == IF rs = <<>> THEN rs ELSE [rs EXCEPT ![Len(rs)].final = TRUE]

\* The newest record can take the text: it is open, of this caller, and neither
\* the record nor the log is full.
CanContinue(caller, text) ==
    /\ rec # <<>>
    /\ ~rec[Len(rec)].final
    /\ rec[Len(rec)].caller = caller
    /\ Len(rec[Len(rec)].text) + Len(text) <= RecordMax
    /\ Bytes(rec) + Len(text) <= TextSz

Continue(text) ==
    /\ rec' = [rec EXCEPT ![Len(rec)].text = @ \o text,
                          ![Len(rec)].final = EndsLine(text)]
    /\ UNCHANGED first

\* A new record closes the newest one; the fewest oldest records make room.
Start(caller, text) ==
    LET new == [text |-> text, final |-> EndsLine(text), caller |-> caller]
        all == Append(Closed(rec), new)
        dropped == Min({k \in 0..Len(rec) : Fits(SubSeq(all, k + 1, Len(all)))})
    IN  /\ rec' = SubSeq(all, dropped + 1, Len(all))
        /\ first' = first + dropped

\* kmsg_add() of a text that is not empty.
LogAdd(caller, cont, text) ==
    LET t == Truncated(text) IN
    IF cont /\ CanContinue(caller, t) THEN Continue(t) ELSE Start(caller, t)

\* The sequence number kmsg_add() returns.
AddedSeq(caller, cont, text) ==
    IF cont /\ CanContinue(caller, Truncated(text)) THEN NextSeq - 1 ELSE NextSeq

\* kmsg_finalize()
LogFinalize == rec' = Closed(rec) /\ UNCHANGED first

\* kmsg_read() returns the text of a final record that is held.
Readable(seq) == seq >= first /\ seq < NextSeq /\ rec[seq - first + 1].final

TextOf(seq) == rec[seq - first + 1].text

LogNext ==
    \/ \E caller \in Caller, cont \in BOOLEAN, text \in Text :
         NextSeq < MaxSeq /\ LogAdd(caller, cont, text)
    \/ LogFinalize

LogSpec == LogInit /\ [][LogNext]_logVars
=============================================================================

------------------------- MODULE ConsoleInputProofs -------------------------
(***************************************************************************)
(* Theorems about ConsoleInput for any number of readers and any size of   *)
(* the ring: what is echoed is what is read, no reader sleeps on input,    *)
(* and every ^D that leaves the ring is seen.                              *)
(***************************************************************************)
EXTENDS ConsoleInput, FiniteSetTheorems, TLAPS

TypeOK ==
    /\ buf \in [0..BufSize - 1 -> Key]
    /\ r \in Nat /\ w \in Nat /\ e \in Nat
    /\ pc \in [Reader -> {"user", "lock", "loop", "sleep", "asleep", "exit"}]
    /\ n \in [Reader -> Nat] /\ target \in [Reader -> Nat]
    /\ dst \in [Reader -> Seq(Key)]
    /\ screen \in Seq(Key) /\ taken \in Seq(Key) /\ eofs \in Nat

\* The indices stay in order, and what lies between them fits the ring.
RingInv == r <= w /\ w <= e /\ e <= r + BufSize

\* cons_lock is with the reader whose call is past acquire_spinlock().
HolderInv == \A p \in Reader : lock = p <=> pc[p] \in {"loop", "sleep"}

\* A reader that is about to sleep, or asleep, has nothing to read.
WaitInv == \A p \in Reader : pc[p] \in {"sleep", "asleep"} => r = w

\* A call has copied what it no longer asks for.
CountInv == \A p \in Reader : pc[p] \notin {"user", "exit"} => target[p] = n[p] + Len(dst[p])

\* ScreenIsInput, character by character: the indices count from the first
\* character ever stored.
EchoInv ==
    /\ Len(taken) = r /\ Len(screen) = e
    /\ \A j \in 1..r : screen[j] = taken[j]
    /\ \A j \in r + 1..e : screen[j] = buf[Slot(j - 1)]

\* The inductive invariant.
IInv == TypeOK /\ RingInv /\ HolderInv /\ WaitInv /\ CountInv /\ EchoInv /\ EveryEofIsSeen

-----------------------------------------------------------------------------
(* Sequences and the ring.                                                 *)

\* Every index has its slot.
LEMMA SlotType == \A i \in Nat : Slot(i) \in 0..BufSize - 1
  BY InputAssumption DEF Slot

\* Two indices less than the size of the ring apart have different slots.
LEMMA SlotDistinct ==
    ASSUME NEW i \in Nat, NEW j \in Nat, i < j, j < i + BufSize
    PROVE  Slot(i) # Slot(j)
<1> DEFINE a == i \div BufSize
           b == j \div BufSize
           B == BufSize
<1>0. B \in Nat /\ B > 0 /\ j < i + B
  BY InputAssumption
<1>a. \A k \in Nat, m \in Nat : m > 0 => k \div m \in Int /\ k = m * (k \div m) + (k % m)
  BY SMTT(30)
<1>1. /\ B \in Nat /\ B > 0 /\ j < i + B /\ a \in Int /\ b \in Int
      /\ i = B * a + (i % B) /\ j = B * b + (j % B)
  BY <1>0, <1>a
<1> SUFFICES ASSUME i % B = j % B PROVE FALSE
  BY DEF Slot
<1>2. i % B \in Int
  BY <1>1
<1> HIDE DEF a, b, B
<1>3. PICK d \in Int : d = b - a
  BY <1>1
<1>4. B * b = B * a + B * d
  BY <1>1, <1>3
<1>5. j - i = B * d
  BY <1>1, <1>2, <1>4
<1>6. CASE d <= 0
  <2>1. B * d <= 0
    BY <1>1, <1>3, <1>6
  <2>2. QED
    BY <1>5, <2>1
<1>7. CASE d >= 1
  <2>1. B * d >= B
    BY <1>1, <1>3, <1>7
  <2>2. QED
    BY <1>1, <1>5, <2>1
<1>8. QED
  BY <1>3, <1>6, <1>7

\* What Append() does, one character at a time.
LEMMA Appended ==
    ASSUME NEW s \in Seq(Key), NEW x \in Key
    PROVE  /\ Append(s, x) \in Seq(Key) /\ Len(s) \in Nat
           /\ Len(Append(s, x)) = Len(s) + 1
           /\ \A j \in 1..Len(s) : Append(s, x)[j] = s[j]
           /\ Append(s, x)[Len(s) + 1] = x
  OBVIOUS

\* Cutting a sequence keeps what comes before the cut.
LEMMA Cut ==
    ASSUME NEW s \in Seq(Key), NEW k \in 0..Len(s)
    PROVE  /\ SubSeq(s, 1, k) \in Seq(Key) /\ Len(SubSeq(s, 1, k)) = k
           /\ \A j \in 1..k : SubSeq(s, 1, k)[j] = s[j]
  OBVIOUS

\* Where a sequence has a ^D.
Eofs(s) == {i \in DOMAIN s : s[i] = "eof"}

\* The number of ^D in a sequence goes up by one when one is appended, and by
\* nothing else.
LEMMA CountEofs ==
    ASSUME NEW s \in Seq(Key), NEW x \in Key
    PROVE  Cardinality(Eofs(Append(s, x))) =
                IF x = "eof" THEN Cardinality(Eofs(s)) + 1 ELSE Cardinality(Eofs(s))
<1> DEFINE a == Append(s, x)
<1>1. /\ Len(s) \in Nat /\ DOMAIN s = 1..Len(s) /\ DOMAIN a = 1..Len(s) + 1
      /\ \A j \in 1..Len(s) : a[j] = s[j]
      /\ a[Len(s) + 1] = x
  BY Appended
<1>2. IsFiniteSet(1..Len(s)) /\ Eofs(s) \subseteq 1..Len(s)
  BY <1>1, FS_Interval DEF Eofs
<1>3. IsFiniteSet(Eofs(s)) /\ Cardinality(Eofs(s)) \in Nat
  BY <1>2, FS_Subset, FS_CardinalityType
<1>4. CASE x = "eof"
  <2>1. Eofs(a) = Eofs(s) \cup {Len(s) + 1} /\ Len(s) + 1 \notin Eofs(s)
    BY <1>1, <1>4 DEF Eofs
  <2>2. Cardinality(Eofs(s) \cup {Len(s) + 1}) = Cardinality(Eofs(s)) + 1
    BY <1>3, <2>1, FS_AddElement, Zenon
  <2>3. QED
    BY <1>3, <1>4, <2>1, <2>2, Zenon
<1>5. CASE x # "eof"
  <2>1. Eofs(a) = Eofs(s)
    BY <1>1, <1>5 DEF Eofs
  <2>2. QED
    BY <1>3, <1>5, <2>1
<1>6. QED
  BY <1>4, <1>5

-----------------------------------------------------------------------------
(* The initial states, and the steps that leave the ring alone.            *)

\* Init establishes the invariant.
LEMMA InitInv == Init => IInv
<1> SUFFICES ASSUME Init PROVE IInv
  OBVIOUS
<1> USE InputAssumption DEF Init
<1>1. TypeOK
  BY DEF TypeOK, Key
<1>2. RingInv /\ HolderInv /\ WaitInv /\ CountInv
  BY DEF RingInv, HolderInv, WaitInv, CountInv
<1>3. EchoInv
  BY DEF EchoInv
<1>4. EveryEofIsSeen
  <2>1. {i \in DOMAIN taken : taken[i] = "eof"} = {}
    OBVIOUS
  <2>2. QED
    BY <2>1, FS_EmptySet DEF EveryEofIsSeen
<1>5. QED
  BY <1>1, <1>2, <1>3, <1>4 DEF IInv

\* A step that leaves ring, terminal and history alone keeps what is said of them.
LEMMA RingFrame ==
    ASSUME IInv, UNCHANGED <<buf, r, w, e, screen, taken, eofs>>
    PROVE  /\ RingInv' /\ EchoInv' /\ EveryEofIsSeen'
           /\ buf' \in [0..BufSize - 1 -> Key] /\ r' \in Nat /\ w' \in Nat /\ e' \in Nat
           /\ screen' \in Seq(Key) /\ taken' \in Seq(Key) /\ eofs' \in Nat
  BY Zenon DEF IInv, TypeOK, RingInv, EchoInv, EveryEofIsSeen

\* The same, where the calls stay as they are too.
LEMMA IdleFrame ==
    ASSUME IInv, UNCHANGED <<ring, screen, taken, eofs, calls>>,
           \A p \in Reader : lock' = p <=> lock = p
    PROVE  IInv'
<1>1. UNCHANGED <<buf, r, w, e, screen, taken, eofs, pc, n, target, dst>>
  BY Zenon DEF ring, calls
<1>2. TypeOK' /\ HolderInv' /\ WaitInv' /\ CountInv'
  BY <1>1, RingFrame, Zenon DEF IInv, TypeOK, HolderInv, WaitInv, CountInv
<1>3. QED
  BY <1>1, <1>2, RingFrame, Zenon DEF IInv

\* Receive, IntrStart, IntrEnd and IntrDrop keep the invariant.
LEMMA IdleStep ==
    ASSUME IInv, \/ \E key \in Key : Receive(key)
                 \/ IntrStart \/ IntrEnd \/ IntrDrop
    PROVE  IInv'
<1>1. UNCHANGED <<ring, screen, taken, eofs, calls>>
  BY Zenon DEF Receive, IntrStart, IntrEnd, IntrDrop, Getc, history, calls
<1>2. lock' = lock \/ {lock, lock'} \subseteq {NULL, "intr"}
  BY Zenon DEF Receive, IntrStart, IntrEnd, IntrDrop, Getc
<1>3. \A p \in Reader : lock' = p <=> lock = p
  BY <1>2, InputAssumption, Zenon
<1>4. QED
  BY <1>1, <1>3, IdleFrame, Zenon

\* What a step of a call that touches neither ring nor terminal has to show.
LEMMA CallFrame ==
    ASSUME IInv, UNCHANGED <<ring, screen, taken, eofs>>, NEW p \in Reader, NEW point,
           point \in {"user", "lock", "loop", "sleep", "asleep", "exit"}, Goto(p, point),
           \A q \in Reader : q # p =>
                n'[q] = n[q] /\ target'[q] = target[q] /\ dst'[q] = dst[q] /\ (lock' = q <=> lock = q),
           n' \in [Reader -> Nat], target' \in [Reader -> Nat], dst' \in [Reader -> Seq(Key)],
           lock' = p <=> point \in {"loop", "sleep"},
           point \in {"sleep", "asleep"} => r = w,
           point \notin {"user", "exit"} => target'[p] = n'[p] + Len(dst'[p])
    PROVE  IInv'
<1>1. UNCHANGED <<buf, r, w, e, screen, taken, eofs>>
  BY Zenon DEF ring
<1>2. /\ pc' \in [Reader -> {"user", "lock", "loop", "sleep", "asleep", "exit"}]
      /\ pc'[p] = point /\ \A q \in Reader : q # p => pc'[q] = pc[q]
  BY Zenon DEF IInv, TypeOK, Goto
<1>3. TypeOK'
  BY <1>1, <1>2, RingFrame, Zenon DEF TypeOK
<1>4. HolderInv'
  BY <1>2, Zenon DEF IInv, HolderInv
<1>5. WaitInv'
  BY <1>1, <1>2, Zenon DEF IInv, WaitInv
<1>6. CountInv'
  BY <1>2, Zenon DEF IInv, CountInv
<1>7. QED
  BY <1>1, <1>3, <1>4, <1>5, <1>6, RingFrame, Zenon DEF IInv

\* The steps of console_read() that take nothing from the ring keep the invariant.
LEMMA CallStep ==
    ASSUME IInv, NEW p \in Reader,
           \/ \E size \in 1..ReadMax : ReadCall(p, size)
           \/ ReadLock(p) \/ ReadFull(p) \/ ReadKilled(p) \/ ReadWait(p) \/ ReadSleep(p)
    PROVE  IInv'
<1> USE InputAssumption
<1>0. /\ pc[p] \in {"user", "lock", "loop", "sleep", "asleep", "exit"}
      /\ n \in [Reader -> Nat] /\ target \in [Reader -> Nat] /\ dst \in [Reader -> Seq(Key)]
      /\ lock = p <=> pc[p] \in {"loop", "sleep"}
      /\ pc[p] \notin {"user", "exit"} => target[p] = n[p] + Len(dst[p])
      /\ pc[p] = "sleep" => r = w
  BY Zenon DEF IInv, TypeOK, HolderInv, WaitInv, CountInv
<1>1. ASSUME NEW size \in 1..ReadMax, ReadCall(p, size) PROVE IInv'
  <2>1. /\ pc[p] = "user" /\ Goto(p, "lock") /\ lock' = lock
        /\ UNCHANGED <<ring, screen, taken, eofs>>
        /\ n' = [n EXCEPT ![p] = size] /\ target' = [target EXCEPT ![p] = size]
        /\ dst' = [dst EXCEPT ![p] = <<>>]
    BY <1>1, Zenon DEF ReadCall, history
  <2>2. size \in Nat /\ size = size + Len(<<>>) /\ <<>> \in Seq(Key)
    OBVIOUS
  <2>3. /\ n' \in [Reader -> Nat] /\ target' \in [Reader -> Nat] /\ dst' \in [Reader -> Seq(Key)]
        /\ n'[p] = size /\ target'[p] = size /\ dst'[p] = <<>>
        /\ \A q \in Reader : q # p => n'[q] = n[q] /\ target'[q] = target[q] /\ dst'[q] = dst[q]
    BY <1>0, <2>1, <2>2, Zenon
  <2>4. target'[p] = n'[p] + Len(dst'[p])
    BY <2>2, <2>3, Zenon
  <2>5. QED
    BY <1>0, <2>1, <2>3, <2>4, CallFrame, Zenon
<1>2. CASE ReadLock(p)
  <2>1. /\ pc[p] = "lock" /\ lock = NULL /\ lock' = p /\ Goto(p, "loop")
        /\ UNCHANGED <<ring, n, target, dst, screen, taken, eofs>>
    BY <1>2, Zenon DEF ReadLock, history
  <2>2. QED
    BY <1>0, <2>1, CallFrame, Zenon
<1>3. CASE ReadFull(p) \/ ReadKilled(p)
  <2>1. PICK point \in {"exit", "user"} :
          /\ pc[p] = "loop" /\ lock' = NULL /\ Goto(p, point)
          /\ UNCHANGED <<ring, n, target, screen, taken, eofs>>
          /\ dst' = dst \/ dst' = [dst EXCEPT ![p] = <<>>]
    BY <1>3, Zenon DEF ReadFull, ReadKilled, Leave, history
  <2>2. <<>> \in Seq(Key)
    OBVIOUS
  <2>3. dst' \in [Reader -> Seq(Key)] /\ \A q \in Reader : q # p => dst'[q] = dst[q]
    BY <1>0, <2>1, <2>2, Zenon
  <2>4. QED
    BY <1>0, <2>1, <2>3, CallFrame, ZenonT(60)
<1>4. CASE ReadWait(p)
  <2>1. /\ pc[p] = "loop" /\ r = w /\ lock' = lock /\ Goto(p, "sleep")
        /\ UNCHANGED <<ring, n, target, dst, screen, taken, eofs>>
    BY <1>4, Zenon DEF ReadWait, history
  <2>2. QED
    BY <1>0, <2>1, CallFrame, Zenon
<1>5. CASE ReadSleep(p)
  <2>1. /\ pc[p] = "sleep" /\ lock' = NULL /\ Goto(p, "asleep")
        /\ UNCHANGED <<ring, n, target, dst, screen, taken, eofs>>
    BY <1>5, Zenon DEF ReadSleep, history
  <2>2. QED
    BY <1>0, <2>1, CallFrame, Zenon
<1>6. QED
  BY <1>1, <1>2, <1>3, <1>4, <1>5, Zenon

\* Kill keeps the invariant: it wakes a sleeper, and takes no lock.
LEMMA KillStep ==
    ASSUME IInv, NEW p \in Reader, Kill(p)
    PROVE  IInv'
<1>1. UNCHANGED <<ring, lock, n, target, dst, screen, taken, eofs>>
  BY Zenon DEF Kill, history
<1>2. CASE pc[p] = "asleep"
  <2>1. Goto(p, "lock")
    BY <1>2, Zenon DEF Kill, Goto
  <2>2. QED
    BY <1>1, <1>2, <2>1, CallFrame, Zenon DEF IInv, TypeOK, HolderInv, CountInv
<1>3. CASE pc[p] # "asleep"
  <2>1. UNCHANGED calls
    BY <1>1, <1>3, Zenon DEF Kill, calls
  <2>2. QED
    BY <1>1, <2>1, IdleFrame, Zenon
<1>4. QED
  BY <1>2, <1>3, Zenon

-----------------------------------------------------------------------------
(* console_intr() and the ring.                                            *)

\* Taking back characters that are not committed keeps the invariant.
LEMMA TakeBack ==
    ASSUME IInv, NEW to \in Nat, w <= to, to <= e, e' = to, screen' = SubSeq(screen, 1, to),
           UNCHANGED <<buf, r, w, lock, pc, n, target, dst, taken, eofs>>
    PROVE  IInv'
<1>1. /\ r \in Nat /\ w \in Nat /\ e \in Nat /\ screen \in Seq(Key) /\ Len(screen) = e
      /\ r <= w /\ e <= r + BufSize /\ BufSize \in Nat
  BY InputAssumption DEF IInv, TypeOK, RingInv, EchoInv
<1>2. /\ screen' \in Seq(Key) /\ Len(screen') = to
      /\ \A j \in 1..to : screen'[j] = screen[j]
  BY <1>1, Cut
<1>3. TypeOK' /\ HolderInv' /\ WaitInv' /\ CountInv' /\ EveryEofIsSeen'
  BY <1>2, Zenon DEF IInv, TypeOK, HolderInv, WaitInv, CountInv, EveryEofIsSeen
<1>4. RingInv'
  BY <1>1 DEF RingInv
<1>5. EchoInv'
  <2>1. (\A j \in 1..r : j \in 1..to) /\ (\A j \in r + 1..to : j \in 1..to /\ j \in r + 1..e)
    BY <1>1
  <2>2. QED
    BY <1>2, <2>1, Zenon DEF IInv, EchoInv
<1>6. QED
  BY <1>3, <1>4, <1>5, Zenon DEF IInv

\* ^U keeps the invariant: its loop stops at the committed lines.
LEMMA IntrKillStep ==
    ASSUME IInv, IntrKill
    PROVE  IInv'
<1>1. PICK to \in 0..e :
        /\ to \in w..e /\ e' = to /\ screen' = SubSeq(screen, 1, Len(screen) - (e - to))
  BY Zenon DEF IntrKill, KillTo
<1>2. UNCHANGED <<buf, r, w, lock, pc, n, target, dst, taken, eofs>>
  BY Zenon DEF IntrKill, Getc, history
<1>3. to \in Nat /\ w <= to /\ to <= e /\ Len(screen) - (e - to) = to
  BY <1>1 DEF IInv, TypeOK, EchoInv
<1>4. QED
  BY <1>1, <1>2, <1>3, TakeBack, Zenon

\* Backspace keeps the invariant: it takes back one character or none.
LEMMA IntrEraseStep ==
    ASSUME IInv, IntrErase
    PROVE  IInv'
<1>1. UNCHANGED <<buf, r, w, lock, pc, n, target, dst, taken, eofs>>
  BY Zenon DEF IntrErase, Getc, history
<1>2. CASE Erasable
  <2>1. e' = e - 1 /\ screen' = SubSeq(screen, 1, Len(screen) - 1)
    BY <1>2, Zenon DEF IntrErase
  <2>2. e - 1 \in Nat /\ w <= e - 1 /\ e - 1 <= e /\ Len(screen) - 1 = e - 1
    BY <1>2 DEF Erasable, IInv, TypeOK, RingInv, EchoInv
  <2>3. QED
    BY <1>1, <2>1, <2>2, TakeBack, Zenon
<1>3. CASE ~Erasable
  <2>1. UNCHANGED <<ring, screen, taken, eofs, calls>> /\ lock' = lock
    BY <1>1, <1>3, Zenon DEF IntrErase, ring, calls
  <2>2. QED
    BY <2>1, IdleFrame, Zenon
<1>4. QED
  BY <1>2, <1>3, Zenon

\* Storing a character keeps what the terminal shows in step with the ring: it
\* goes to a slot that holds nothing a reader may still take.
LEMMA StoreEcho ==
    ASSUME IInv, NEW key \in Key, Room, e' = e + 1, screen' = Append(screen, key),
           buf' = [buf EXCEPT ![Slot(e)] = key], UNCHANGED <<r, taken>>
    PROVE  /\ EchoInv' /\ e' \in Nat /\ e' <= r + BufSize /\ screen' \in Seq(Key)
           /\ buf' \in [0..BufSize - 1 -> Key]
<1>1. /\ r \in Nat /\ w \in Nat /\ e \in Nat /\ screen \in Seq(Key) /\ Len(screen) = e
      /\ r <= e /\ e - r < BufSize /\ BufSize \in Nat
  BY InputAssumption DEF IInv, TypeOK, RingInv, EchoInv, Room
<1>2. /\ screen' \in Seq(Key) /\ Len(screen') = e + 1
      /\ \A j \in 1..e : screen'[j] = screen[j]
      /\ screen'[e + 1] = key
  BY <1>1, Appended
<1>3. /\ buf \in [0..BufSize - 1 -> Key] /\ Slot(e) \in 0..BufSize - 1
      /\ \A j \in Nat : Slot(j) \in 0..BufSize - 1
  BY <1>1, SlotType, Zenon DEF IInv, TypeOK
<1>4. /\ buf' \in [0..BufSize - 1 -> Key] /\ buf'[Slot(e)] = key
      /\ \A k \in 0..BufSize - 1 : k # Slot(e) => buf'[k] = buf[k]
  BY <1>3, Zenon
<1>5. ASSUME NEW j \in r + 1..e PROVE screen'[j] = buf'[Slot(j - 1)]
  <2>1. j - 1 \in Nat /\ j - 1 < e /\ e < (j - 1) + BufSize /\ j \in 1..e
    BY <1>1
  <2>2. Slot(j - 1) # Slot(e)
    BY <1>1, <2>1, SlotDistinct
  <2>3. screen[j] = buf[Slot(j - 1)]
    BY Zenon DEF IInv, EchoInv
  <2>4. QED
    BY <1>2, <1>3, <1>4, <2>1, <2>2, <2>3, Zenon
<1>6. screen'[e + 1] = buf'[Slot((e + 1) - 1)]
  <2>1. (e + 1) - 1 = e
    BY <1>1
  <2>2. QED
    BY <1>2, <1>4, <2>1, Zenon
<1>7. EchoInv'
  <2>1. /\ \A j \in 1..r : j \in 1..e
        /\ \A j \in r + 1..e + 1 : j \in r + 1..e \/ j = e + 1
    BY <1>1
  <2>2. \A j \in 1..r : screen'[j] = taken[j]
    BY <1>2, <2>1, Zenon DEF IInv, EchoInv
  <2>3. \A j \in r + 1..e + 1 : screen'[j] = buf'[Slot(j - 1)]
    BY <1>5, <1>6, <2>1, Zenon
  <2>4. QED
    BY <1>2, <2>2, <2>3, Zenon DEF IInv, EchoInv
<1>8. QED
  BY <1>1, <1>2, <1>4, <1>7

\* IntrStore keeps the invariant: whoever sleeps is woken when w moves.
LEMMA IntrStoreStep ==
    ASSUME IInv, NEW key \in Key, IntrStore(key)
    PROVE  IInv'
<1>1. /\ lock = "intr" /\ r' = r
      /\ UNCHANGED <<lock, n, target, dst, taken, eofs>>
  BY Zenon DEF IntrStore, Getc, history
<1>2. CASE Room
  <2>1. /\ screen' = Append(screen, key) /\ buf' = [buf EXCEPT ![Slot(e)] = key]
        /\ e' = e + 1 /\ Commit(key)
    BY <1>2, Zenon DEF IntrStore
  <2>2. /\ EchoInv' /\ e' \in Nat /\ e' <= r + BufSize /\ screen' \in Seq(Key)
        /\ buf' \in [0..BufSize - 1 -> Key]
    BY <1>1, <1>2, <2>1, StoreEcho, Zenon
  <2>3. /\ r \in Nat /\ w \in Nat /\ e \in Nat /\ r <= w /\ w <= e
    BY DEF IInv, TypeOK, RingInv
  <2>4. w' \in {w, e + 1}
    BY <2>1, Zenon DEF Commit
  <2>5. RingInv' /\ w' \in Nat
    BY <1>1, <2>1, <2>2, <2>3, <2>4 DEF RingInv
  <2>6. \A p \in Reader : pc[p] \notin {"loop", "sleep"}
    BY <1>1, InputAssumption, Zenon DEF IInv, HolderInv
  <2>7. \/ w' = w /\ pc' = pc
        \/ pc' = [p \in Reader |-> IF pc[p] = "asleep" THEN "lock" ELSE pc[p]]
    BY <2>1, Zenon DEF Commit, Wake
  <2>8. \A p \in Reader :
          \/ w' = w /\ pc'[p] = pc[p]
          \/ pc[p] = "asleep" /\ pc'[p] = "lock"
          \/ pc[p] # "asleep" /\ pc'[p] = pc[p]
    BY <2>7, Zenon
  <2>9. pc' \in [Reader -> {"user", "lock", "loop", "sleep", "asleep", "exit"}]
    BY <2>7 DEF IInv, TypeOK
  <2>10. TypeOK'
    BY <1>1, <2>2, <2>5, <2>9, Zenon DEF IInv, TypeOK
  <2>11. HolderInv'
    BY <1>1, <2>6, <2>8, Zenon DEF IInv, HolderInv
  <2>12. WaitInv'
    BY <1>1, <2>6, <2>8, Zenon DEF IInv, WaitInv
  <2>13. CountInv'
    BY <1>1, <2>8, Zenon DEF IInv, CountInv
  <2>14. EveryEofIsSeen'
    BY <1>1, Zenon DEF IInv, EveryEofIsSeen
  <2>15. QED
    BY <2>2, <2>5, <2>10, <2>11, <2>12, <2>13, <2>14, Zenon DEF IInv
<1>3. CASE ~Room
  <2>1. UNCHANGED <<ring, screen, taken, eofs, calls>>
    BY <1>1, <1>3, Zenon DEF IntrStore, ring, calls
  <2>2. QED
    BY <1>1, <2>1, IdleFrame, Zenon
<1>4. QED
  BY <1>2, <1>3, Zenon

-----------------------------------------------------------------------------
(* console_read() and the ring.                                            *)

\* Taking the next character keeps terminal, ring and history in step.
LEMMA TakeEcho ==
    ASSUME IInv, r # w, r' = r + 1, taken' = Append(taken, buf[Slot(r)]),
           UNCHANGED <<buf, w, e, screen>>
    PROVE  EchoInv' /\ RingInv' /\ r' \in Nat /\ taken' \in Seq(Key) /\ buf[Slot(r)] \in Key
<1>1. /\ r \in Nat /\ w \in Nat /\ e \in Nat /\ taken \in Seq(Key) /\ Len(taken) = r
      /\ r + 1 <= w /\ w <= e /\ e <= r + BufSize /\ BufSize \in Nat
  BY InputAssumption DEF IInv, TypeOK, RingInv, EchoInv
<1>2. buf[Slot(r)] \in Key
  BY <1>1, SlotType, Zenon DEF IInv, TypeOK
<1>3. /\ taken' \in Seq(Key) /\ Len(taken') = r + 1
      /\ \A j \in 1..r : taken'[j] = taken[j]
      /\ taken'[r + 1] = buf[Slot(r)]
  BY <1>1, <1>2, Appended
<1>4. RingInv' /\ r' \in Nat
  BY <1>1 DEF RingInv
<1>5. EchoInv'
  <2>1. /\ r + 1 \in r + 1..e /\ (r + 1) - 1 = r
        /\ \A j \in 1..r + 1 : j \in 1..r \/ j = r + 1
        /\ \A j \in (r + 1) + 1..e : j \in r + 1..e
    BY <1>1
  <2>2. screen[r + 1] = buf[Slot(r)]
    BY <2>1 DEF IInv, EchoInv
  <2>3. \A j \in 1..r + 1 : screen[j] = taken'[j]
    BY <1>3, <2>1, <2>2, Zenon DEF IInv, EchoInv
  <2>4. QED
    BY <1>3, <2>1, <2>3, Zenon DEF IInv, EchoInv
<1>6. QED
  BY <1>2, <1>3, <1>4, <1>5, Zenon

\* A reader that may take a character has the lock, and nobody is asleep or about
\* to be.
LEMMA Busy ==
    ASSUME IInv, NEW p \in Reader, MayRead(p)
    PROVE  /\ lock = p /\ r # w
           /\ \A q \in Reader : pc[q] \notin {"sleep", "asleep"}
           /\ target[p] = n[p] + Len(dst[p])
  BY Zenon DEF IInv, HolderInv, WaitInv, CountInv, MayRead

\* A reader that leaves with the lock keeps what is said of locks and sleepers.
LEMMA LeaveFrame ==
    ASSUME IInv, NEW p \in Reader, MayRead(p), Leave(p)
    PROVE  /\ HolderInv' /\ WaitInv'
           /\ pc' \in [Reader -> {"user", "lock", "loop", "sleep", "asleep", "exit"}]
           /\ pc'[p] \in {"user", "exit"}
           /\ \A q \in Reader : q # p => pc'[q] = pc[q]
<1>1. PICK point \in {"user", "exit"} : lock' = NULL /\ pc' = [pc EXCEPT ![p] = point]
  BY Zenon DEF Leave, Goto
<1>2. /\ pc' \in [Reader -> {"user", "lock", "loop", "sleep", "asleep", "exit"}]
      /\ pc'[p] \in {"user", "exit"}
      /\ \A q \in Reader : q # p => pc'[q] = pc[q]
  BY <1>1, Zenon DEF IInv, TypeOK
<1>3. HolderInv' /\ WaitInv'
  BY <1>1, <1>2, Busy, InputAssumption, Zenon DEF IInv, HolderInv, WaitInv
<1>4. QED
  BY <1>2, <1>3, Zenon

\* ReadEof keeps the invariant: the call that takes ^D out has copied nothing, so
\* it is the one that returns 0.
LEMMA ReadEofStep ==
    ASSUME IInv, NEW p \in Reader, ReadEof(p)
    PROVE  IInv'
<1>1. /\ MayRead(p) /\ buf[Slot(r)] = "eof" /\ Leave(p)
      /\ UNCHANGED <<buf, w, e, n, target, dst, screen>>
  BY Zenon DEF ReadEof
<1>2. /\ n[p] \in Nat /\ target[p] \in Nat /\ dst[p] \in Seq(Key) /\ eofs \in Nat
      /\ taken \in Seq(Key)
  BY Zenon DEF IInv, TypeOK
<1>3. TakesEof(p) <=> dst[p] = <<>>
  BY <1>1, <1>2, Busy DEF TakesEof
<1>4. CountInv'
  BY <1>1, LeaveFrame, Zenon DEF IInv, CountInv
<1>5. CASE TakesEof(p)
  <2>1. r' = r + 1 /\ taken' = Append(taken, "eof") /\ eofs' = eofs + 1
    BY <1>3, <1>5 DEF ReadEof
  <2>2. EchoInv' /\ RingInv' /\ r' \in Nat /\ taken' \in Seq(Key)
    BY <1>1, <2>1, Busy, TakeEcho, Zenon
  <2>3. EveryEofIsSeen' /\ eofs' \in Nat
    <3>1. eofs = Cardinality(Eofs(taken))
      BY Zenon DEF IInv, EveryEofIsSeen, Eofs
    <3>2. eofs + 1 = Cardinality(Eofs(taken'))
      BY <1>2, <2>1, <3>1, CountEofs DEF Key
    <3>3. EveryEofIsSeen'
      BY <2>1, <3>2, Zenon DEF EveryEofIsSeen, Eofs
    <3>4. QED
      BY <1>2, <2>1, <3>3
  <2>4. TypeOK'
    BY <1>1, <2>2, <2>3, LeaveFrame, Zenon DEF IInv, TypeOK
  <2>5. QED
    BY <1>1, <1>4, <2>2, <2>3, <2>4, LeaveFrame, Zenon DEF IInv
<1>6. CASE ~TakesEof(p)
  <2>1. UNCHANGED <<buf, r, w, e, screen, taken, eofs>>
    BY <1>1, <1>3, <1>6 DEF ReadEof
  <2>2. TypeOK'
    BY <1>1, <2>1, RingFrame, LeaveFrame, Zenon DEF IInv, TypeOK
  <2>3. QED
    BY <1>1, <1>4, <2>1, <2>2, RingFrame, LeaveFrame, Zenon DEF IInv
<1>7. QED
  BY <1>5, <1>6, Zenon

\* ReadChar keeps the invariant: what the call still asks for goes down as what
\* it has copied goes up.
LEMMA ReadCharStep ==
    ASSUME IInv, NEW p \in Reader, ReadChar(p)
    PROVE  IInv'
<1> DEFINE c == buf[Slot(r)]
<1>1. /\ MayRead(p) /\ c # "eof" /\ r' = r + 1 /\ taken' = Append(taken, c)
      /\ dst' = [dst EXCEPT ![p] = Append(dst[p], c)] /\ n' = [n EXCEPT ![p] = n[p] - 1]
      /\ Leave(p) \/ UNCHANGED <<lock, pc>>
      /\ UNCHANGED <<buf, w, e, target, screen, eofs>>
  BY Zenon DEF ReadChar
<1>2. EchoInv' /\ RingInv' /\ r' \in Nat /\ taken' \in Seq(Key) /\ c \in Key
  BY <1>1, Busy, TakeEcho, Zenon
<1> HIDE DEF c
<1>3. /\ n \in [Reader -> Nat] /\ target \in [Reader -> Nat] /\ dst \in [Reader -> Seq(Key)]
      /\ taken \in Seq(Key) /\ n[p] > 0 /\ pc[p] = "loop"
  BY <1>1, Zenon DEF IInv, TypeOK, MayRead
<1>4. /\ n[p] - 1 \in Nat /\ Append(dst[p], c) \in Seq(Key)
      /\ n[p] - 1 + Len(Append(dst[p], c)) = n[p] + Len(dst[p])
  BY <1>2, <1>3
<1>5. /\ n' \in [Reader -> Nat] /\ dst' \in [Reader -> Seq(Key)]
      /\ n'[p] = n[p] - 1 /\ dst'[p] = Append(dst[p], c)
      /\ \A q \in Reader : q # p => n'[q] = n[q] /\ dst'[q] = dst[q]
  BY <1>1, <1>3, <1>4, Zenon
<1>6. /\ HolderInv' /\ WaitInv'
      /\ pc' \in [Reader -> {"user", "lock", "loop", "sleep", "asleep", "exit"}]
      /\ \A q \in Reader : q # p => pc'[q] = pc[q]
  <2>1. CASE Leave(p)
    BY <1>1, <2>1, LeaveFrame, Zenon
  <2>2. CASE UNCHANGED <<lock, pc>>
    BY <1>1, <2>2, Busy, Zenon DEF IInv, TypeOK, HolderInv, WaitInv
  <2>3. QED
    BY <1>1, <2>1, <2>2, Zenon
<1>7. CountInv'
  <2>1. target'[p] = n'[p] + Len(dst'[p])
    BY <1>1, <1>4, <1>5, Busy, Zenon
  <2>2. QED
    BY <1>1, <1>5, <1>6, <2>1, Zenon DEF IInv, CountInv
<1>8. EveryEofIsSeen'
  <2>1. eofs = Cardinality(Eofs(taken))
    BY Zenon DEF IInv, EveryEofIsSeen, Eofs
  <2>2. eofs = Cardinality(Eofs(taken'))
    BY <1>1, <1>2, <1>3, <2>1, CountEofs
  <2>3. QED
    BY <1>1, <2>2, Zenon DEF EveryEofIsSeen, Eofs
<1>9. TypeOK'
  BY <1>1, <1>2, <1>5, <1>6, Zenon DEF IInv, TypeOK
<1>10. QED
  BY <1>2, <1>6, <1>7, <1>8, <1>9, Zenon DEF IInv

-----------------------------------------------------------------------------
(* The theorems.                                                           *)

\* Every step of Spec keeps the invariant.
LEMMA NextInv == IInv /\ [Next]_vars => IInv'
<1> SUFFICES ASSUME IInv, [Next]_vars PROVE IInv'
  OBVIOUS
<1>1. CASE \E key \in Key : Receive(key) \/ IntrStore(key)
  BY <1>1, IdleStep, IntrStoreStep, Zenon
<1>2. CASE IntrStart \/ IntrEnd \/ IntrKill \/ IntrErase \/ IntrDrop
  BY <1>2, IdleStep, IntrKillStep, IntrEraseStep, Zenon
<1>3. ASSUME NEW p \in Reader,
             \/ \E size \in 1..ReadMax : ReadCall(p, size)
             \/ ReadLock(p) \/ ReadFull(p) \/ ReadKilled(p) \/ ReadWait(p) \/ ReadSleep(p)
             \/ ReadEof(p) \/ ReadChar(p) \/ Kill(p)
      PROVE  IInv'
  BY <1>3, CallStep, ReadEofStep, ReadCharStep, KillStep, Zenon
<1>4. CASE UNCHANGED vars
  <2>1. UNCHANGED <<ring, lock, screen, taken, eofs, calls>>
    BY <1>4, Zenon DEF vars, ring, calls
  <2>2. QED
    BY <2>1, IdleFrame, Zenon
<1>5. QED
  BY <1>1, <1>2, <1>3, <1>4, Zenon DEF Next

\* The invariant of the console's input holds in every reachable state.
THEOREM InputInvariant == Spec => []IInv
  BY InitInv, NextInv, PTL DEF Spec

\* console_intr() and console_read(): whatever is typed, edited and read, by any
\* number of readers and through a ring of any size, the terminal shows what was
\* read followed by what is still in the ring.
THEOREM EchoMatchesInput == Spec => []ScreenIsInput
<1>1. IInv => ScreenIsInput
  <2> SUFFICES ASSUME IInv PROVE ScreenIsInput
    OBVIOUS
  <2> DEFINE rest == [i \in 1..e - r |-> buf[Slot(r + i - 1)]]
             all == taken \o rest
  <2>0. r \in Nat /\ w \in Nat /\ e \in Nat /\ r <= w /\ w <= e
    BY Zenon DEF IInv, TypeOK, RingInv
  <2>a. r <= e /\ e - r \in Nat
    BY <2>0
  <2>1. /\ r \in Nat /\ e \in Nat /\ r <= e /\ e - r \in Nat
        /\ screen \in Seq(Key) /\ taken \in Seq(Key) /\ Len(taken) = r /\ Len(screen) = e
        /\ \A j \in 1..r : screen[j] = taken[j]
        /\ \A j \in r + 1..e : screen[j] = buf[Slot(j - 1)]
    BY <2>0, <2>a, Zenon DEF IInv, TypeOK, EchoInv
  <2>2. rest \in Seq(Key) /\ Len(rest) = e - r
    <3>1. \A i \in 1..e - r : r + i - 1 \in Nat
      BY <2>1
    <3>2. \A i \in 1..e - r : buf[Slot(r + i - 1)] \in Key
      BY <3>1, SlotType, Zenon DEF IInv, TypeOK
    <3>3. QED
      BY <2>1, <3>2
  <2>3. ASSUME NEW i \in 1..e - r PROVE screen[r + i] = rest[i]
    <3>1. r + i \in r + 1..e /\ (r + i) - 1 = r + i - 1
      BY <2>1
    <3>2. screen[r + i] = buf[Slot((r + i) - 1)]
      BY <2>1, <3>1, Zenon
    <3>3. QED
      BY <3>1, <3>2, Zenon
  <2> HIDE DEF rest
  <2>4. /\ all \in Seq(Key) /\ Len(all) = e
        /\ \A j \in 1..r : all[j] = taken[j]
        /\ \A j \in r + 1..e : all[j] = rest[j - r]
    BY <2>1, <2>2
  <2> HIDE DEF all
  <2>5. ASSUME NEW j \in 1..e PROVE screen[j] = all[j]
    <3>1. CASE j <= r
      BY <2>1, <2>4, <3>1
    <3>2. CASE j > r
      <4>1. j - r \in 1..e - r /\ r + (j - r) = j /\ j \in r + 1..e
        BY <2>1, <3>2
      <4>2. QED
        BY <2>3, <2>4, <4>1
    <3>3. QED
      BY <2>1, <3>1, <3>2
  <2>6. screen = all
    BY <2>1, <2>4, <2>5
  <2>7. QED
    BY <2>6 DEF ScreenIsInput, all, rest
<1>2. QED
  BY <1>1, InputInvariant, PTL

\* console_read() and wakeup(&cons.r): no reader stays asleep once a line, a ^D or
\* a full ring is there to be read, whoever is killed meanwhile.
THEOREM NoSleepOnInput == Spec => []NobodySleepsOnInput
<1>1. IInv => NobodySleepsOnInput
  BY Zenon DEF IInv, WaitInv, NobodySleepsOnInput
<1>2. QED
  BY <1>1, InputInvariant, PTL

\* console_read(): as many calls have returned 0 for an end of file as ^D have
\* left the ring.
THEOREM EofsAreSeen == Spec => []EveryEofIsSeen
<1>1. IInv => EveryEofIsSeen
  BY Zenon DEF IInv
<1>2. QED
  BY <1>1, InputInvariant, PTL

=============================================================================

------------------------------- MODULE MCBoot ------------------------------
(* Boot for TLC: two-byte pages, "2 MB" blocks of two pages, "1 GB" blocks   *)
(* of two of those, RAM from 8 to below 32, cells of 16 values.              *)
EXTENDS Boot

MCImageAddr == {8, 9, 10, 11, 12, 16, 20, 24}

BankAddr == {6, 8, 9, 10, 12, 14, 16, 20, 23, 24, 32, 34}
Bank == {[base |-> pa, size |-> limit - pa] : <<pa, limit>> \in
            {x \in BankAddr \X BankAddr : x[1] < x[2]}}
Wide == [base |-> 8, size |-> 16]
Narrow == [base |-> 16, size |-> 4]

Plain == [acells |-> 2, scells |-> 2, memory |-> <<<<Wide>>>>, cpus |-> <<0>>, uart |-> 0,
          timer |-> 1, clock |-> "own", shape |-> "plain"]

\* Banks in one node and in two, in any order.
MemoryMachines ==
    {[Plain EXCEPT !.memory = <<<<b>>>>] : b \in Bank}
        \cup {[Plain EXCEPT !.memory = IF b.base < c.base THEN <<<<b, c>>>> ELSE <<<<b>>, <<c>>>>] :
                b, c \in Bank}
        \cup {[Plain EXCEPT !.memory = <<<<b, Narrow>>, <<c>>>>] :
                b, c \in {x \in Bank : x.size \in {2, 7}}}

\* Banks of nothing, and machines that differ in how they are described.
CpuMachines ==
    {[Plain EXCEPT !.cpus = c] : c \in UNION {[1..n -> {0, 1, 2, 18}] : n \in 0..4}}
        \cup {[Plain EXCEPT !.acells = a, !.scells = s,
                            !.memory = <<<<[base |-> 8, size |-> z]>>, <<>>>>] :
                a \in 0..3, s \in 0..3, z \in {0, 12}}
        \cup {[Plain EXCEPT !.uart = u, !.timer = t, !.clock = c, !.shape = b] :
                u \in 0..2, t \in 0..2, c \in {"own", "phandle"}, b \in {"plain", "nops", "cut"}}

MCMachine == MemoryMachines \cup CpuMachines
=============================================================================

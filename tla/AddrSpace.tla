----------------------------- MODULE AddrSpace -----------------------------
(***************************************************************************)
(* What the user half of memory promises to a process: pages from 0 up to  *)
(* the break, private to the process, that fork() copies, sbrk() extends   *)
(* with zeroes or cuts off, exec() replaces and exit() drops.  A call that *)
(* fails changes nothing.  Sizes are in bytes.                             *)
(***************************************************************************)
EXTENDS Naturals

CONSTANTS
    Proc, InitProc,
    PGSIZE,
    MaxSize,        \* the largest address space
    Value           \* what a program may leave in a page, 0 among it

VARIABLES
    size,           \* the break of every process, 0 for one that is not there
    memory          \* its pages

spaceVars == <<size, memory>>

PageCount(bytes) == (bytes + PGSIZE - 1) \div PGSIZE

\* A program image of n pages that hold v, and a page of stack.
Image(n, v) == [i \in 0..n |-> IF i < n THEN v ELSE 0]

Live(p) == size[p] > 0

SpaceInit ==
    /\ size = [p \in Proc |-> IF p = InitProc THEN 2 * PGSIZE ELSE 0]
    /\ \E v \in Value : memory = [p \in Proc |-> IF p = InitProc THEN Image(1, v) ELSE <<>>]

Store(p, i, v) ==
    /\ UNCHANGED size
    /\ memory' = [memory EXCEPT ![p][i] = v]

\* Pages that stay keep what they hold, new ones are zero.
Resize(p, bytes) ==
    /\ Live(p)
    /\ size' = [size EXCEPT ![p] = bytes]
    /\ memory' = [memory EXCEPT ![p] =
            [i \in 0..PageCount(bytes) - 1 |-> IF i \in DOMAIN @ THEN @[i] ELSE 0]]

Fork(p, child) ==
    /\ p # child /\ Live(p)
    /\ size' = [size EXCEPT ![child] = size[p]]
    /\ memory' = [memory EXCEPT ![child] = memory[p]]

Exec(p, n, v) ==
    /\ size' = [size EXCEPT ![p] = (n + 1) * PGSIZE]
    /\ memory' = [memory EXCEPT ![p] = Image(n, v)]

Exit(p) ==
    /\ p # InitProc
    /\ size' = [size EXCEPT ![p] = 0]
    /\ memory' = [memory EXCEPT ![p] = <<>>]

SpaceNext ==
    \E p \in Proc :
        \/ \E i \in DOMAIN memory[p], v \in Value : Store(p, i, v)
        \/ \E bytes \in 0..MaxSize : Resize(p, bytes)
        \/ \E child \in Proc : Fork(p, child)
        \/ \E n \in 1..PageCount(MaxSize), v \in Value : Exec(p, n, v)
        \/ Exit(p)

SpaceSpec == SpaceInit /\ [][SpaceNext]_spaceVars
=============================================================================

-------------------------------- MODULE Runq --------------------------------
(* The FIFO of src/kern/proc.c, struct proc_list runq, as a sequence.        *)
EXTENDS Naturals, Sequences

OnQueue(q, p) == \E i \in 1..Len(q) : q[i] = p

NoDuplicates(q) == \A i, j \in 1..Len(q) : q[i] = q[j] => i = j
=============================================================================

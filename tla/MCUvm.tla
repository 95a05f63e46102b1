------------------------------- MODULE MCUvm -------------------------------
(* Two processes over a pool that holds two small address spaces and part  *)
(* of a third.  Which page plays which part is of no consequence, so TLC   *)
(* tells states apart by the shape of the trees, what their leaves hold    *)
(* and how many pages are free; a state in which a page is lost or shared  *)
(* differs from every state in which none is.                              *)
EXTENDS Uvm

RECURSIVE Shape(_, _)
Shape(page, level) ==
    IF page = NULL THEN <<>>
    ELSE IF level > LEAF THEN <<data[page]>>
    ELSE [e \in Entry |-> Shape(tab[page][e], level + 1)]

UpToRenaming ==
    <<[p \in Proc |-> Shape(pagetable[p], 0)], sz, Cardinality(free), bad, PagesOwnedOnce>>
=============================================================================

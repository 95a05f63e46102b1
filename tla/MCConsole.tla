------------------------------ MODULE MCConsole ------------------------------
(* Console for TLC: two threads on two CPUs, with callers of their own.      *)
EXTENDS Console

CONSTANTS t1, t2, k1, k2

MCThread == {t1, t2}
MCCallerOf == (t1 :> k1) @@ (t2 :> k2)
MCFormat == {<<"a">>, <<"n">>, <<"a", "n">>}
MCText == {<<"a">>, <<"n">>, <<"a", "0">>}
MCNL == "n"
MCNUL == "0"
=============================================================================

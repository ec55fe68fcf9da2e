------------------------------ MODULE MCRunNet ------------------------------
(* Two processes that run scenarios of up to two nodes under two ids.  The *)
(* processes are interchangeable.                                          *)
EXTENDS RunNet, TLC

CONSTANTS a, b

TwoProcs == {a, b}

Swap == Permutations(TwoProcs)
=============================================================================

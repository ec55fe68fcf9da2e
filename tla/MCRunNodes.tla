---------------------------- MODULE MCRunNodes ----------------------------
(* Two nodes over three process numbers and three descriptor numbers.      *)
EXTENDS RunNodes

CONSTANTS p1, p2, p3, d1, d2, d3

ThreePids == {p1, p2, p3}
ThreeFds  == {d1, d2, d3}
=============================================================================

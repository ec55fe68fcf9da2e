---------------------------- MODULE MCWorkloads ----------------------------
(***************************************************************************)
(* Names over one stem and the default name, with members in and beyond    *)
(* the counts, and one with a leading zero.                                *)
(***************************************************************************)
EXTENDS Workloads

N(st, sfx)     == [stem |-> st, sfx |-> sfx]
Sfx(v, p)      == <<[v |-> v, pad |-> p]>>
X              == N("x", <<>>)
X0             == N("x", Sfx(0, 0))
X1             == N("x", Sfx(1, 0))
X00            == N("x", Sfx(0, 1))
Submitted      == N("submitted", <<>>)

Step(k, as, bare, cnt, dur, id) ==
    [k |-> k, as |-> as, bare |-> bare, cnt |-> cnt, dur |-> dur, id |-> id]

MCSteps ==
    {Step("submit", Submitted, TRUE, 0, 0, FALSE),
     Step("submit", X, FALSE, 0, 0, TRUE),
     Step("bench", X, FALSE, 0, 1, FALSE),
     Step("bench", X, FALSE, 2, 1, FALSE),
     Step("ramp", X, FALSE, 0, 2, FALSE)}
    \union {Step("submit", n, FALSE, c, 0, FALSE) : n \in {X, X0, X1}, c \in 0..3}
    \union {Step("bench", n, FALSE, c, 0, FALSE) : n \in {X, X0, X1}, c \in {1, 3}}
    \union {Step("submit", X00, FALSE, 0, 0, FALSE)}
    \union {Step(k, n, FALSE, 0, 0, FALSE) :
                k \in {"stop", "update", "cond"}, n \in {X, X0, X1, X00, Submitted}}
=============================================================================

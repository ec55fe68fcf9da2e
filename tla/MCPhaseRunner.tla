--------------------------- MODULE MCPhaseRunner ---------------------------
(* Scenario files for the phase runner.                                    *)
EXTENDS PhaseRunner

Until(c, t, h, n) ==
    [until |-> TRUE, cond |-> c, timeout |-> t, hold |-> h, steps |-> n]
Sustain(c, t) ==
    [until |-> FALSE, cond |-> c, timeout |-> t, hold |-> 0, steps |-> 0]

\* A fault step and a wait for a list answer, then a watch on one; a watch
\* on a journal; and a dwell on a log line.
ThreeFiles == {<<Until("list", 2, 0, 1), Sustain("list", 2)>>,
               <<Sustain("read", 2)>>,
               <<Until("read", 3, 1, 0)>>}
=============================================================================

----------------------------- MODULE MCNemesis -----------------------------
(***************************************************************************)
(* Nemesis with two files of the user's beside those of the generator: one *)
(* whose update and agree hang on a submit, which trial_valid does not     *)
(* know of, and one with many steps in a phase.                            *)
(***************************************************************************)
EXTENDS Nemesis, TrialText

MCPhase(n, steps, kind) ==
    [name |-> n, steps |-> steps, cond |-> [kind |-> kind, n |-> 1]]

MCGiven ==
    {[sut |-> "concord",
      file |-> <<MCPhase(0, <<>>, "mesh"),
                 MCPhase(1, <<S("submit", 0)>>, "assigned"),
                 MCPhase(2, <<S("update", 0)>>, "agree")>>],
     [sut |-> "weld",
      file |-> <<MCPhase(0, <<S("drop", 0), S("pub", 1), S("heal", 0)>>, "mesh"),
                 MCPhase(1, <<S("kill", 1), S("restart", 1)>>, "observed")>>]}

\* The cuts of Nemesis are those that suite/nemesis.c makes on lines: in the
\* generator's own layout for each file it can write, and in all layouts for
\* the files of the user's; a cut at the end of the phases also loses the keys
\* of the file that follow them.  See CutsMean.
CutsAgree ==
    stage = "input" => CutsMean(cur, IF Generated THEN {Own} ELSE Layout)

=============================================================================

------------------------------ MODULE Nemesis ------------------------------
(***************************************************************************)
(* rsuite nemesis and rsuite minimize (suite/nemesis.c, cmd/main.c).  The  *)
(* generator writes a scenario of random faults, phase by phase.  The      *)
(* minimizer takes a failing scenario, cuts a phase or a step at a time,   *)
(* and keeps a cut when the oracle, a real run in a forked child, still    *)
(* fails.  A system under test may be flaky: the oracle may answer         *)
(* differently for the same file.                                          *)
(*                                                                         *)
(* Here the file that the generator wrote, or a file of the user's, goes   *)
(* into the minimizer.                                                     *)
(***************************************************************************)
EXTENDS Scenario

CONSTANTS
    MaxPhases,   \* bound on the phases asked for; kMaxPh in the code
    MaxFaults,   \* bound on the max_drop, max_kill and max_restart asked for
    Given,       \* files of the user's, with their sut
    MaxTry,      \* kMaxTry: cuts the minimizer tries
    MaxPass,     \* kMaxPass: sweeps over the steps
    OracleCap    \* OracleCap: runs that do_minimize pays for

ASSUME NemesisAssumption ==
    /\ MaxPhases \in Nat /\ MaxFaults \in Nat
    /\ MaxTry \in Nat /\ MaxPass \in Nat \ {0} /\ OracleCap \in Nat
    /\ \A g \in Given : g.sut \in Suts /\ g.file \in Seq(Phase)

VARIABLES
    prof,     \* NemProfile
    left,     \* faults the generator may still use
    pend,     \* the node that is dropped and not healed; -1 in the code
    stage,    \* "gen" "input" "phases" "steps" "write" "over"
    cur,      \* the text as it is: what is generated, then what is shrunk
    j, k,     \* the phase and the step tried next
    pass,     \* sweeps over the steps that kept a cut
    tries,    \* cuts tried
    calls,    \* runs of the oracle
    tripped,  \* OracleSt.tripped
    exit,     \* exit code of do_minimize
    \* History:
    real,     \* the last answer kept came from a run, and cur is its file
    lost,     \* a fork failed in the oracle
    refused   \* cuts of cur that were tried and not kept

genVars == <<prof, left, pend>>
minVars == <<j, k, pass, tries, calls, tripped, exit, real, lost, refused>>
vars == <<genVars, stage, cur, minVars>>

NoNode == Nodes  \* pend = -1

Profile == [sut : Suts, nphases : Nat, submit : BOOLEAN, stop : BOOLEAN]
Faults == [drop : Nat, kill : Nat, rest : Nat]
Stages == {"gen", "input", "phases", "steps", "write", "over"}

TypeOK ==
    /\ prof \in Profile /\ left \in Faults /\ pend \in 0..Nodes
    /\ stage \in Stages
    /\ cur \in Seq(Phase)
    /\ j \in 0..Len(cur) /\ k \in Nat
    /\ stage = "steps" => j > 0 /\ k <= Len(cur[j].steps)
    /\ pass \in 0..MaxPass /\ tries \in 0..MaxTry /\ calls \in 0..OracleCap
    /\ tripped \in BOOLEAN /\ real \in BOOLEAN /\ lost \in BOOLEAN
    /\ exit \in {"none", "ok", "fail"} /\ (exit = "none") = (stage # "over")
    /\ \A f \in refused : f \in Seq(Phase)

-----------------------------------------------------------------------------
(* The generator.                                                          *)

S(verb, node) == [verb |-> verb, node |-> node]
P(steps, kind, n) ==
    [name |-> Len(cur), steps |-> steps, cond |-> [kind |-> kind, n |-> n]]

Conc == prof.sut = "concord"

emit_mesh == P(<<>>, IF Conc THEN "peers" ELSE "mesh", Nodes)
emit_dwell == P(<<>>, "peers", Nodes)
emit_drop(nd) == P(<<S("drop", nd)>>, "mesh", Nodes)
emit_heal(nd) == P(<<S("heal", nd)>>, "mesh", Nodes)
emit_kill(nd) == P(<<S("kill", nd), S("restart", nd)>>, "mesh", Nodes)
emit_submit(nd) == P(<<S("submit", nd)>>, "assigned", 0)
emit_stop == P(<<S("stop", 0)>>, "absent", 0)
emit_substop == P(<<S("submit", 0), S("stop", 0)>>, "mesh", 1)

emit_pub(from, on) == P(<<S("pub", from)>>, "observed", on)
emit_wdrop(nd, from, on) == P(<<S("drop", nd), S("pub", from)>>, "observed", on)
emit_wheal(nd, from, on) == P(<<S("heal", nd), S("pub", from)>>, "observed", on)
emit_wkill(nd, from, on) ==
    P(<<S("kill", nd), S("restart", nd), S("pub", from)>>, "observed", on)

\* Where gen_conc puts the submit and the stop.
sub_at == IF prof.submit THEN 1 ELSE 0
stop_at ==
    IF ~(prof.submit /\ prof.stop) THEN 0
    ELSE IF prof.nphases = 2 THEN 1 ELSE prof.nphases - 1

Idx == Len(cur)  \* the phase written next; 0 is the mesh gate

\* profile_ok refuses a profile; the rest of it is in the types.
profile_ok == prof.nphases \in 2..12 /\ Nodes \in 2..5

GenRefuse ==
    /\ stage = "gen" /\ Idx = 0 /\ ~profile_ok
    /\ stage' = "over" /\ exit' = "fail"
    /\ UNCHANGED <<genVars, cur, j, k, pass, tries, calls, tripped, real, lost,
                   refused>>

Writing ==
    /\ stage = "gen" /\ Idx > 0 /\ Idx < prof.nphases
    /\ UNCHANGED <<prof, stage, minVars>>

GenMesh ==
    /\ stage = "gen" /\ Idx = 0 /\ profile_ok
    /\ cur' = <<emit_mesh>>
    /\ UNCHANGED <<genVars, stage, minVars>>

GenSubstop ==
    /\ Writing /\ Conc /\ Idx = sub_at /\ Idx = stop_at
    /\ cur' = Append(cur, emit_substop)
    /\ UNCHANGED <<left, pend>>

GenSubmit(nd) ==
    /\ Writing /\ Conc /\ Idx = sub_at /\ Idx # stop_at
    /\ cur' = Append(cur, emit_submit(nd))
    /\ UNCHANGED <<left, pend>>

GenStop ==
    /\ Writing /\ Conc /\ Idx # sub_at /\ Idx = stop_at
    /\ cur' = Append(cur, emit_stop)
    /\ UNCHANGED <<left, pend>>

\* Neither the phase of the submit nor that of the stop.
Free == Writing /\ (Conc => Idx # sub_at /\ Idx # stop_at)

GenHeal(from, on) ==
    /\ Free /\ pend # NoNode
    /\ cur' = Append(cur, IF Conc THEN emit_heal(pend) ELSE emit_wheal(pend, from, on))
    /\ pend' = NoNode
    /\ UNCHANGED left

\* A draw of 0 with drops left.
GenDrop(nd, from, on) ==
    /\ Free /\ pend = NoNode /\ left.drop > 0
    /\ cur' = Append(cur, IF Conc THEN emit_drop(nd) ELSE emit_wdrop(nd, from, on))
    /\ pend' = nd
    /\ left' = [left EXCEPT !.drop = @ - 1]

\* A draw of 1 with kills and restarts left.
GenKill(nd, from, on) ==
    /\ Free /\ pend = NoNode /\ left.kill > 0 /\ left.rest > 0
    /\ cur' = Append(cur, IF Conc THEN emit_kill(nd) ELSE emit_wkill(nd, from, on))
    /\ left' = [left EXCEPT !.kill = @ - 1, !.rest = @ - 1]
    /\ UNCHANGED pend

\* Any other draw, or nothing left for it.
GenQuiet(from, on) ==
    /\ Free /\ pend = NoNode
    /\ cur' = Append(cur, IF Conc THEN emit_dwell ELSE emit_pub(from, on))
    /\ UNCHANGED <<left, pend>>

GenDone ==
    /\ stage = "gen" /\ Idx = prof.nphases
    /\ stage' = "input"
    /\ UNCHANGED <<genVars, cur, minVars>>

Generate ==
    \/ GenRefuse \/ GenMesh \/ GenSubstop \/ GenStop \/ GenDone
    \/ \E nd, from, on \in Node :
           \/ GenSubmit(nd)
           \/ GenHeal(from, on)
           \/ GenDrop(nd, from, on)
           \/ GenKill(nd, from, on)
           \/ GenQuiet(from, on)

-----------------------------------------------------------------------------
(* The oracle.                                                             *)

\* run_file_code: a file that the lint refuses fails, any other passes, fails
\* or is skipped.
Verdicts(f) == IF val_top(f, prof.sut) THEN {"pass", "fail", "skip"} ELSE {"fail"}

\* oracle_cb and oracle_run.  Past the cap, and when fork fails, the answer is
\* "fail" although nothing has run.
Answers(f) ==
    IF calls >= OracleCap
    THEN {[v |-> "fail", ran |-> FALSE, trips |-> TRUE]}
    ELSE {[v |-> v, ran |-> TRUE, trips |-> FALSE] : v \in Verdicts(f)}
         \union {[v |-> "fail", ran |-> FALSE, trips |-> FALSE]}

\* Slip: the call past the cap leaves no trace.
BillSilent(a) ==
    /\ calls' = IF a.trips THEN calls ELSE calls + 1
    /\ tripped' = tripped
    /\ lost' = (lost \/ (~a.ran /\ ~a.trips))

Bill(a) ==
    /\ calls' = IF a.trips THEN calls ELSE calls + 1
    /\ tripped' = (tripped \/ a.trips)
    /\ lost' = (lost \/ (~a.ran /\ ~a.trips))

-----------------------------------------------------------------------------
(* The minimizer.                                                          *)

\* Fails before the file has been shrunk: not valid, or it does not fail.
InputRefused ==
    /\ stage = "input"
    /\ \/ ~trial_valid(cur) /\ UNCHANGED <<calls, tripped, lost>>
       \/ trial_valid(cur) /\ \E a \in Answers(cur) : a.v # "fail" /\ Bill(a)
    /\ stage' = "over" /\ exit' = "fail"
    /\ UNCHANGED <<genVars, cur, j, k, pass, tries, real, refused>>

InputFails ==
    /\ stage = "input" /\ trial_valid(cur)
    /\ \E a \in Answers(cur) : a.v = "fail" /\ Bill(a) /\ real' = a.ran
    /\ stage' = "phases" /\ j' = Len(cur)
    /\ UNCHANGED <<genVars, cur, k, pass, tries, exit, refused>>

Keeps(a) == a.v = "fail"

\* A cut is tried: kept, refused by the check, or refused by the oracle.
Kept(f) ==
    /\ trial_valid(f)
    /\ \E a \in Answers(f) : Keeps(a) /\ Bill(a) /\ real' = a.ran
    /\ cur' = f /\ refused' = {}

Refused(f) ==
    /\ \/ ~trial_valid(f) /\ UNCHANGED <<calls, tripped, lost>>
       \/ trial_valid(f) /\ \E a \in Answers(f) : ~Keeps(a) /\ Bill(a)
    /\ refused' = refused \union {f}
    /\ UNCHANGED <<cur, real>>

PhaseTried ==
    /\ stage = "phases" /\ j > 1 /\ tries < MaxTry
    /\ tries' = tries + 1
    /\ UNCHANGED <<genVars, k, pass, exit>>

\* Slip: the sweep goes on after a cut, below the phase that is gone.
CutPhaseGoesOn ==
    /\ PhaseTried
    /\ Kept(trial_no_phase(cur, j))
    /\ j' = j - 1
    /\ UNCHANGED stage

\* A phase goes, and the sweep starts again at the last one.  Every cut resets
\* the pass counter, so kMaxPass does not bound this loop.
CutPhase ==
    /\ PhaseTried
    /\ Kept(trial_no_phase(cur, j))
    /\ j' = Len(cur')
    /\ UNCHANGED stage

KeepPhase ==
    /\ PhaseTried
    /\ Refused(trial_no_phase(cur, j))
    /\ j' = j - 1
    /\ UNCHANGED stage

\* The sweep over the steps starts at the last step of the last phase.
AtLastStep(f) == j' = Len(f) /\ k' = Len(f[Len(f)].steps)

\* Slip: a sweep that runs out of tries is not left.
PhasesDoneSwept ==
    /\ stage = "phases" /\ j <= 1
    /\ stage' = "steps" /\ AtLastStep(cur)
    /\ refused' = {}
    /\ UNCHANGED <<genVars, cur, pass, tries, calls, tripped, exit, real, lost>>

PhasesDone ==
    /\ stage = "phases" /\ (j <= 1 \/ tries >= MaxTry)
    /\ stage' = "steps" /\ AtLastStep(cur)
    /\ refused' = {}
    /\ UNCHANGED <<genVars, cur, pass, tries, calls, tripped, exit, real, lost>>

StepTried ==
    /\ stage = "steps" /\ k > 0 /\ tries < MaxTry
    /\ tries' = tries + 1
    /\ UNCHANGED <<genVars, exit>>

CutStep ==
    /\ StepTried
    /\ Kept(trial_no_step(cur, j, k))
    /\ pass' = pass + 1
    /\ stage' = IF pass' < MaxPass /\ tries' < MaxTry THEN "steps" ELSE "write"
    /\ AtLastStep(cur')

KeepStep ==
    /\ StepTried
    /\ Refused(trial_no_step(cur, j, k))
    /\ k' = k - 1
    /\ UNCHANGED <<stage, j, pass>>

PhaseAbove ==
    /\ stage = "steps" /\ k = 0 /\ j > 1
    /\ j' = j - 1 /\ k' = Len(cur[j - 1].steps)
    /\ UNCHANGED <<genVars, stage, cur, pass, tries, calls, tripped, exit, real,
                   lost, refused>>

StepsDone ==
    /\ stage = "steps"
    /\ (j = 1 /\ k = 0) \/ (k > 0 /\ tries >= MaxTry)
    /\ stage' = "write"
    /\ UNCHANGED <<genVars, cur, minVars>>

\* mkstemp or the write of the trial fails: no answer, and minimize fails.
NoTrialFile ==
    /\ \/ stage = "phases" /\ j > 1 /\ tries < MaxTry
          /\ trial_valid(trial_no_phase(cur, j))
       \/ stage = "steps" /\ k > 0 /\ tries < MaxTry
          /\ trial_valid(trial_no_step(cur, j, k))
    /\ tries' = tries + 1
    /\ stage' = "over" /\ exit' = "fail"
    /\ UNCHANGED <<genVars, cur, j, k, pass, calls, tripped, real, lost, refused>>

\* write_all, and the code that do_minimize returns.
Write ==
    /\ stage = "write"
    /\ stage' = "over"
    /\ exit' \in IF tripped THEN {"fail"} ELSE {"ok", "fail"}
    /\ UNCHANGED <<genVars, cur, j, k, pass, tries, calls, tripped, real, lost,
                   refused>>

Minimize ==
    \/ InputRefused \/ InputFails
    \/ CutPhase \/ KeepPhase \/ PhasesDone
    \/ CutStep \/ KeepStep \/ PhaseAbove \/ StepsDone
    \/ NoTrialFile \/ Write

MinInit ==
    /\ j = 0 /\ k = 0 /\ pass = 0 /\ tries = 0 /\ calls = 0
    /\ tripped = FALSE /\ exit = "none"
    /\ real = FALSE /\ lost = FALSE /\ refused = {}

Init ==
    /\ pend = NoNode /\ MinInit
    /\ \/ /\ stage = "gen" /\ cur = <<>>
          /\ prof \in [sut : Suts, nphases : 1..MaxPhases,
                       submit : BOOLEAN, stop : BOOLEAN]
          /\ prof.sut = "weld" => ~prof.submit /\ ~prof.stop  \* not read there
          /\ left \in [drop : 0..MaxFaults, kill : 0..MaxFaults, rest : 0..MaxFaults]
       \/ \E g \in Given :
              /\ stage = "input" /\ cur = g.file
              /\ prof = [sut |-> g.sut, nphases |-> 0, submit |-> FALSE,
                         stop |-> FALSE]
              /\ left = [drop |-> 0, kill |-> 0, rest |-> 0]

Next == Generate \/ Minimize

Spec == Init /\ [][Next]_vars

\* Both commands run until they return; nothing in them waits for ever but
\* the oracle, whose runs end (PhaseRunner).
FairSpec == Spec /\ WF_vars(Next)

-----------------------------------------------------------------------------
(* Properties.                                                             *)

Generated == prof.nphases > 0

\* What the generator writes is accepted by the lint and by the minimizer's
\* check, and so is every file that it is cut down to: gen_conc places submit
\* and stop, trial_valid guards the cuts, and the two know enough of the lint
\* of suite/exec.c.  A cut that breaks the lint fails in the oracle for that
\* reason alone, and would be kept.
FilesLint ==
    Generated /\ stage \notin {"gen", "over"} =>
        val_top(cur, prof.sut) /\ trial_valid(cur)

\* nemesis_minimize: "True keeps fail".  When minimize exits 0, the file it
\* wrote is one that the oracle has run and seen fail, although past the cap
\* of runs oracle_cb answers "fail" without a run; a fork that failed counts
\* as a failing run in oracle_run, and is excepted.
KeepsFail == exit = "ok" => real \/ lost

\* A sweep ends only when no single cut of the file is left untried: all
\* phases but the gate, then all steps; or when the tries or the passes are
\* used up.
SweepsWhole ==
    [][/\ stage = "phases" /\ stage' = "steps" =>
              \/ tries >= MaxTry
              \/ \A i \in 2..Len(cur) : trial_no_phase(cur, i) \in refused
       /\ stage = "steps" /\ stage' = "write" =>
              \/ tries' >= MaxTry
              \/ pass' >= MaxPass
              \/ \A i \in DOMAIN cur : \A l \in DOMAIN cur[i].steps :
                     trial_no_step(cur, i, l) \in refused]_vars

\* Generator and minimizer come to an end, whatever the oracle answers.
MinimizeEnds == <>(exit # "none")
=============================================================================

--------------------------- MODULE ScenarioProofs ---------------------------
(***************************************************************************)
(* Scenario files: the ones that rsuite nemesis writes and minimize cuts   *)
(* (Nemesis), and the names of the workloads in any of them (Workloads).   *)
(* The two modules share no variable.                                      *)
(*                                                                         *)
(* First what an exit of 0 of rsuite minimize stands for, for every        *)
(* scenario, every bound and every behaviour of the oracle.  KeepsFail is  *)
(* not inductive: it needs what holds of the file that is being shrunk.    *)
(* While the sweeps run, the last answer kept came from a run, or a fork   *)
(* failed, or the cap was passed; each of these is kept by Bill for good.  *)
(***************************************************************************)
EXTENDS Nemesis, Workloads, SequenceTheorems, TLAPS

\* The flags are Boolean: the oracle's state and the history.
Flags == tripped \in BOOLEAN /\ real \in BOOLEAN /\ lost \in BOOLEAN

\* The file that is being shrunk was seen to fail, or one knows why not.
Shrinking ==
    stage \in {"phases", "steps", "write"} => real \/ lost \/ tripped

\* An exit of 0 stands for a file that was seen to fail.
Verdict == exit = "ok" => stage = "over" /\ ~tripped /\ (real \/ lost)

IInv == Flags /\ Shrinking /\ Verdict

\* An answer of the oracle is Boolean where it says whether it ran, and an
\* answer without a run is a failed fork or the cap.
LEMMA AnswersKnown ==
    ASSUME NEW f, NEW a \in Answers(f)
    PROVE  a.ran \in BOOLEAN /\ a.trips \in BOOLEAN
<1>1. CASE a = [v |-> "fail", ran |-> FALSE, trips |-> TRUE]
  BY <1>1
<1>2. CASE a = [v |-> "fail", ran |-> FALSE, trips |-> FALSE]
  BY <1>2
<1>3. CASE \E v \in Verdicts(f) : a = [v |-> v, ran |-> TRUE, trips |-> FALSE]
  BY <1>3
<1> QED
  BY <1>1, <1>2, <1>3, Zenon DEF Answers

\* Once the oracle has answered, and its answer is the last one kept, the
\* file was run, or a fork failed, or the cap was passed.
LEMMA BilledKnown ==
    ASSUME Flags, NEW f, NEW a \in Answers(f), Bill(a)
    PROVE  /\ tripped' \in BOOLEAN /\ lost' \in BOOLEAN
           /\ tripped => tripped'
           /\ lost => lost'
           /\ a.ran \/ lost' \/ tripped'
<1>1. a.ran \in BOOLEAN /\ a.trips \in BOOLEAN
  BY AnswersKnown
<1>2. /\ tripped' = (tripped \/ a.trips)
      /\ lost' = (lost \/ (~a.ran /\ ~a.trips))
  BY DEF Bill
<1>3. tripped' \in BOOLEAN /\ lost' \in BOOLEAN
  BY <1>2, Zenon
<1> QED
  BY <1>1, <1>2, <1>3, Zenon DEF Flags

\* A cut that is kept leaves a file about which this is known.
LEMMA KeptKnown ==
    ASSUME IInv, NEW f, Kept(f)
    PROVE  Flags' /\ (real' \/ lost' \/ tripped')
<1>1. PICK a \in Answers(f) : Keeps(a) /\ Bill(a) /\ real' = a.ran
  BY DEF Kept
<1>2. a.ran \in BOOLEAN
  BY AnswersKnown
<1>3. /\ tripped' \in BOOLEAN /\ lost' \in BOOLEAN
      /\ a.ran \/ lost' \/ tripped'
  BY <1>1, BilledKnown DEF IInv
<1> QED
  BY <1>1, <1>2, <1>3 DEF Flags

\* A cut that is refused leaves what was known.
LEMMA RefusedKnown ==
    ASSUME IInv, NEW f, Refused(f), real \/ lost \/ tripped
    PROVE  Flags' /\ (real' \/ lost' \/ tripped')
<1>1. real' = real
  BY DEF Refused
<1>2. CASE UNCHANGED <<calls, tripped, lost>>
  BY <1>1, <1>2 DEF IInv, Flags
<1>3. CASE \E a \in Answers(f) : ~Keeps(a) /\ Bill(a)
  <2>1. PICK a \in Answers(f) : Bill(a)
    BY <1>3
  <2> QED
    BY <1>1, <2>1, BilledKnown DEF IInv, Flags
<1> QED
  BY <1>2, <1>3 DEF Refused

\* The generator and everything that answers nothing leave the flags alone.
LEMMA GenerateKeeps == IInv /\ Generate => IInv'
<1> SUFFICES ASSUME IInv, Generate PROVE IInv'
  OBVIOUS
<1>1. CASE GenRefuse
  BY <1>1 DEF GenRefuse, IInv, Flags, Shrinking, Verdict
<1>2. CASE GenMesh
  BY <1>2 DEF GenMesh, minVars, IInv, Flags, Shrinking, Verdict
<1>3. CASE GenDone
  BY <1>3 DEF GenDone, minVars, IInv, Flags, Shrinking, Verdict
<1>4. ASSUME Writing PROVE IInv'
  BY <1>4 DEF Writing, minVars, IInv, Flags, Shrinking, Verdict
<1>5. CASE GenSubstop \/ GenStop
  BY <1>4, <1>5 DEF GenSubstop, GenStop
<1>6. CASE \E nd, from, on \in Node :
              \/ GenSubmit(nd)
              \/ GenHeal(from, on)
              \/ GenDrop(nd, from, on)
              \/ GenKill(nd, from, on)
              \/ GenQuiet(from, on)
  BY <1>4, <1>6 DEF GenSubmit, GenHeal, GenDrop, GenKill, GenQuiet, Free
<1> QED
  BY <1>1, <1>2, <1>3, <1>5, <1>6 DEF Generate

\* So does a step of the minimizer, by what is known of the cut it tries.
LEMMA MinimizeKeeps == IInv /\ Minimize => IInv'
<1> SUFFICES ASSUME IInv, Minimize PROVE IInv'
  OBVIOUS
<1>0. exit # "ok" \/ stage = "over"
  BY DEF IInv, Verdict
<1>1. CASE InputRefused
  <2>1. real' = real /\ stage' = "over" /\ exit' = "fail"
    BY <1>1 DEF InputRefused
  <2>2. tripped' \in BOOLEAN /\ lost' \in BOOLEAN
    <3>1. CASE UNCHANGED <<calls, tripped, lost>>
      BY <3>1 DEF IInv, Flags
    <3>2. CASE \E a \in Answers(cur) : a.v # "fail" /\ Bill(a)
      <4>1. PICK a \in Answers(cur) : Bill(a)
        BY <3>2
      <4> QED
        BY <4>1, BilledKnown DEF IInv
    <3> QED
      BY <1>1, <3>1, <3>2 DEF InputRefused
  <2> QED
    BY <2>1, <2>2 DEF IInv, Flags, Shrinking, Verdict
<1>2. CASE InputFails
  <2>1. PICK a \in Answers(cur) : Bill(a) /\ real' = a.ran
    BY <1>2 DEF InputFails
  <2>2. Flags' /\ (real' \/ lost' \/ tripped')
    BY <2>1, AnswersKnown, BilledKnown DEF IInv, Flags
  <2>3. exit' = exit /\ exit # "ok"
    BY <1>0, <1>2 DEF InputFails
  <2> QED
    BY <2>2, <2>3 DEF IInv, Shrinking, Verdict
<1>3. CASE CutPhase \/ CutStep
  <2>1. Flags' /\ (real' \/ lost' \/ tripped')
    BY <1>3, KeptKnown DEF CutPhase, CutStep
  <2>2. exit' = exit /\ exit # "ok"
    BY <1>0, <1>3 DEF CutPhase, CutStep, PhaseTried, StepTried
  <2> QED
    BY <2>1, <2>2 DEF IInv, Shrinking, Verdict
<1>4. CASE KeepPhase \/ KeepStep
  <2>1. real \/ lost \/ tripped
    BY <1>4 DEF KeepPhase, KeepStep, PhaseTried, StepTried, IInv, Shrinking
  <2>2. Flags' /\ (real' \/ lost' \/ tripped')
    BY <1>4, <2>1, RefusedKnown DEF KeepPhase, KeepStep
  <2>3. exit' = exit /\ exit # "ok"
    BY <1>0, <1>4 DEF KeepPhase, KeepStep, PhaseTried, StepTried
  <2> QED
    BY <2>2, <2>3 DEF IInv, Shrinking, Verdict
<1>5. CASE PhasesDone
  BY <1>5 DEF PhasesDone, IInv, Flags, Shrinking, Verdict
<1>6. CASE PhaseAbove
  BY <1>6 DEF PhaseAbove, IInv, Flags, Shrinking, Verdict
<1>7. CASE StepsDone
  BY <1>7 DEF StepsDone, minVars, IInv, Flags, Shrinking, Verdict
<1>8. CASE NoTrialFile
  BY <1>8 DEF NoTrialFile, IInv, Flags, Shrinking, Verdict
<1>9. CASE Write
  <2>1. real \/ lost \/ tripped
    BY <1>9 DEF Write, IInv, Shrinking
  <2>2. UNCHANGED <<tripped, real, lost>> /\ stage' = "over"
    BY <1>9 DEF Write
  <2>3. exit' = "ok" => ~tripped
    BY <1>9 DEF Write
  <2> QED
    BY <2>1, <2>2, <2>3 DEF IInv, Flags, Shrinking, Verdict
<1> QED
  BY <1>1, <1>2, <1>3, <1>4, <1>5, <1>6, <1>7, <1>8, <1>9 DEF Minimize

\* What is known of the file that is being shrunk is inductive.
LEMMA FlagsInductive == Spec => []IInv
<1>1. Init => IInv
  BY DEF Init, MinInit, IInv, Flags, Shrinking, Verdict
<1>2. IInv /\ [Next]_vars => IInv'
  <2>1. ASSUME IInv, UNCHANGED vars PROVE IInv'
    BY <2>1 DEF vars, minVars, IInv, Flags, Shrinking, Verdict
  <2> QED
    BY <2>1, GenerateKeeps, MinimizeKeeps DEF Next
<1> QED
  BY <1>1, <1>2, PTL DEF Spec

\* nemesis_minimize and do_minimize: an exit of 0 stands for a file that the
\* oracle has run and seen fail (or for which a fork failed), for every file,
\* every bound and every way in which the oracle may answer.
THEOREM ExitStandsForFail == Spec => []KeepsFail
<1>1. IInv => KeepsFail
  BY DEF IInv, Verdict, KeepsFail
<1> QED
  BY <1>1, FlagsInductive, PTL

-----------------------------------------------------------------------------
(* The types.  The parts of TypeOK, with what makes them inductive: the    *)
(* sweeps are over a file that has phases, and a pass is left for the      *)
(* steps.                                                                  *)

GenType == prof \in Profile /\ left \in Faults /\ pend \in 0..Nodes
EndType == stage \in Stages /\ exit \in {"none", "ok", "fail"} /\ (exit = "none" <=> stage # "over")
CountType ==
    /\ pass \in 0..MaxPass /\ tries \in 0..MaxTry /\ calls \in 0..OracleCap
    /\ stage \in {"gen", "input", "phases"} => pass = 0
    /\ stage = "steps" => pass < MaxPass
CurType ==
    /\ cur \in Seq(Phase)
    /\ stage \in {"phases", "steps"} => Len(cur) > 0
PlaceType ==
    /\ j \in 0..Len(cur) /\ k \in Nat
    /\ stage \in {"gen", "input"} => j = 0
    /\ stage = "steps" => j > 0 /\ k <= Len(cur[j].steps)
CutType == refused \subseteq Seq(Phase)

TInv == GenType /\ EndType /\ CountType /\ CurType /\ PlaceType /\ CutType

\* A sequence without one of its elements.
LEMMA WithoutOne ==
    ASSUME NEW T, NEW q \in Seq(T), NEW i \in 1..Len(q)
    PROVE  /\ Without(q, i) \in Seq(T) /\ Len(Without(q, i)) = Len(q) - 1
           /\ \A x \in 1..(Len(q) - 1) :
                  Without(q, i)[x] = IF x < i THEN q[x] ELSE q[x + 1]
<1> DEFINE a == SubSeq(q, 1, i - 1)
           b == SubSeq(q, i + 1, Len(q))
<1>1. /\ a \in Seq(T) /\ Len(a) = i - 1
      /\ \A x \in 1..(i - 1) : a[x] = q[x]
  OBVIOUS
<1>2. /\ b \in Seq(T) /\ Len(b) = Len(q) - i
      /\ \A x \in 1..(Len(q) - i) : b[x] = q[i + x]
  OBVIOUS
<1> HIDE DEF a, b
<1>3. Len(q) \in Nat
  OBVIOUS
<1>4. /\ a \o b \in Seq(T) /\ Len(a \o b) = Len(a) + Len(b)
      /\ \A x \in 1..(Len(a) + Len(b)) :
             (a \o b)[x] = IF x <= Len(a) THEN a[x] ELSE b[x - Len(a)]
  BY <1>1, <1>2, ConcatProperties
<1>5. ASSUME NEW x \in 1..(Len(q) - 1)
      PROVE  (a \o b)[x] = IF x < i THEN q[x] ELSE q[x + 1]
  <2>1. (a \o b)[x] = IF x <= i - 1 THEN a[x] ELSE b[x - (i - 1)]
    BY <1>1, <1>2, <1>3, <1>4
  <2>2. CASE x < i
    BY <1>1, <1>3, <2>1, <2>2
  <2>3. CASE ~(x < i)
    <3>1. x - (i - 1) \in 1..(Len(q) - i) /\ i + (x - (i - 1)) = x + 1 /\ ~(x <= i - 1)
      BY <1>3, <2>3
    <3>2. b[x - (i - 1)] = q[x + 1]
      BY <1>2, <3>1
    <3> QED BY <2>1, <2>3, <3>1, <3>2
  <2> QED BY <2>2, <2>3
<1>6. Len(a \o b) = Len(q) - 1
  BY <1>1, <1>2, <1>3, <1>4
<1>7. Without(q, i) = a \o b
  BY DEF Without, a, b
<1> QED BY <1>4, <1>5, <1>6, <1>7

\* The cuts of a file are files.
LEMMA NoPhase ==
    ASSUME CurType, NEW i \in 1..Len(cur)
    PROVE  trial_no_phase(cur, i) \in Seq(Phase)
  BY WithoutOne DEF CurType, trial_no_phase

LEMMA NoStep ==
    ASSUME CurType, NEW i \in 1..Len(cur), NEW l \in 1..Len(cur[i].steps)
    PROVE  LET f == trial_no_step(cur, i, l)
           IN  /\ f \in Seq(Phase) /\ Len(f) = Len(cur)
               /\ \A x \in 1..Len(cur) : x # i => f[x] = cur[x]
               /\ f[i].name = cur[i].name /\ f[i].cond = cur[i].cond
               /\ f[i].steps = Without(cur[i].steps, l)
<1> DEFINE p == cur[i]
           w == Without(p.steps, l)
           f == trial_no_step(cur, i, l)
<1>1. cur \in Seq(Phase) /\ p \in Phase /\ p.steps \in Seq(Step)
  <2>1. cur \in Seq(Phase)
    BY DEF CurType
  <2>2. p \in Phase
    BY <2>1
  <2> QED BY <2>1, <2>2 DEF Phase
<1>2. w \in Seq(Step)
  BY <1>1, WithoutOne
<1> HIDE DEF w
<1>3. f = [cur EXCEPT ![i] = [p EXCEPT !.steps = w]]
  BY DEF trial_no_step, w
<1>4. /\ [p EXCEPT !.steps = w] \in Phase /\ [p EXCEPT !.steps = w].steps = w
      /\ [p EXCEPT !.steps = w].name = p.name /\ [p EXCEPT !.steps = w].cond = p.cond
  BY <1>1, <1>2 DEF Phase
<1> HIDE DEF p
<1>5. /\ f \in Seq(Phase) /\ Len(f) = Len(cur) /\ f[i] = [p EXCEPT !.steps = w]
      /\ \A x \in 1..Len(cur) : x # i => f[x] = cur[x]
  BY <1>1, <1>3, <1>4
<1> QED BY <1>4, <1>5 DEF p, w

\* What the generator writes next is a phase.
LEMMA EmitsPhase ==
    ASSUME TInv, Generate, stage' = "gen"
    PROVE  UNCHANGED minVars /\ \E p \in Phase : cur' = Append(cur, p)
<1>0. Node \subseteq Nat /\ Nodes \in Nat /\ Len(cur) \in Nat /\ 0 \in Nat /\ 1 \in Nat
  BY NodesAssumption DEF Node, TInv, CurType
<1>1. ASSUME NEW kind \in Kinds, NEW n \in Nat, NEW steps \in Seq(Step)
      PROVE  P(steps, kind, n) \in Phase
  BY <1>0 DEF P, Phase, Cond
<1>2. \A v \in Verbs, n \in Nat : S(v, n) \in Step
  BY DEF S, Step
<1>3. /\ <<>> \in Seq(Step)
      /\ \A a \in Step : <<a>> \in Seq(Step)
      /\ \A a, b \in Step : <<a, b>> \in Seq(Step)
      /\ \A a, b, c \in Step : <<a, b, c>> \in Seq(Step)
  OBVIOUS
<1>4. /\ {"drop", "heal", "kill", "restart", "submit", "stop", "update", "pub"} = Verbs
      /\ {"peers", "mesh", "assigned", "absent", "agree", "observed"} = Kinds
  BY DEF Verbs, Kinds
<1>5. /\ emit_mesh \in Phase /\ emit_dwell \in Phase /\ emit_stop \in Phase
      /\ emit_substop \in Phase
  BY <1>0, <1>1, <1>2, <1>3, <1>4 DEF emit_mesh, emit_dwell, emit_stop, emit_substop
<1>6. \A nd \in Nat : /\ emit_drop(nd) \in Phase /\ emit_heal(nd) \in Phase
                      /\ emit_kill(nd) \in Phase /\ emit_submit(nd) \in Phase
  BY <1>0, <1>1, <1>2, <1>3, <1>4 DEF emit_drop, emit_heal, emit_kill, emit_submit
<1>7. \A nd, from, on \in Nat :
          /\ emit_pub(from, on) \in Phase /\ emit_wdrop(nd, from, on) \in Phase
          /\ emit_wheal(nd, from, on) \in Phase /\ emit_wkill(nd, from, on) \in Phase
  BY <1>0, <1>1, <1>2, <1>3, <1>4 DEF emit_pub, emit_wdrop, emit_wheal, emit_wkill
<1> HIDE DEF emit_mesh, emit_dwell, emit_stop, emit_substop, emit_drop, emit_heal,
             emit_kill, emit_submit, emit_pub, emit_wdrop, emit_wheal, emit_wkill
<1>8. pend \in Nat
  BY <1>0 DEF TInv, GenType
<1>9. CASE GenMesh
  <2>1. cur = <<>> /\ cur' = <<emit_mesh>>
    BY <1>9 DEF GenMesh, Idx, TInv, CurType
  <2> QED BY <1>5, <1>9, <2>1 DEF GenMesh
<1>10. CASE GenSubstop \/ GenStop
  BY <1>5, <1>10 DEF GenSubstop, GenStop, Writing
<1>11. ASSUME NEW nd \in Node, NEW from \in Node, NEW on \in Node,
              \/ GenSubmit(nd) \/ GenHeal(from, on) \/ GenDrop(nd, from, on)
              \/ GenKill(nd, from, on) \/ GenQuiet(from, on)
       PROVE  UNCHANGED minVars /\ \E p \in Phase : cur' = Append(cur, p)
  BY <1>0, <1>5, <1>6, <1>7, <1>8, <1>11
     DEF GenSubmit, GenHeal, GenDrop, GenKill, GenQuiet, Free, Writing
<1> QED BY <1>9, <1>10, <1>11 DEF Generate, GenRefuse, GenDone

LEMMA GenTypeStep == TInv /\ [Next]_vars => GenType'
<1> SUFFICES ASSUME TInv, [Next]_vars PROVE GenType'
  OBVIOUS
<1> USE DEF TInv, GenType
<1>1. CASE UNCHANGED genVars
  BY <1>1 DEF genVars
<1>2. ASSUME NEW nd \in Node, NEW from \in Node, NEW on \in Node,
             \/ GenSubmit(nd) \/ GenHeal(from, on) \/ GenDrop(nd, from, on)
             \/ GenKill(nd, from, on) \/ GenQuiet(from, on)
      PROVE  GenType'
  <2>1. prof' = prof
    BY <1>2 DEF GenSubmit, GenHeal, GenDrop, GenKill, GenQuiet, Free, Writing
  <2>2. pend' \in 0..Nodes
    BY <1>2, NodesAssumption
       DEF GenSubmit, GenHeal, GenDrop, GenKill, GenQuiet, NoNode, Node
  <2>3. left' \in Faults
    <3>1. CASE left' = left
      BY <3>1
    <3>2. CASE left' = [left EXCEPT !.drop = @ - 1] /\ left.drop > 0
      BY <3>2 DEF Faults
    <3>3. CASE left' = [left EXCEPT !.kill = @ - 1, !.rest = @ - 1] /\ left.kill > 0 /\ left.rest > 0
      <4>1. left.kill - 1 \in Nat /\ left.rest - 1 \in Nat /\ left \in Faults
        BY <3>3 DEF Faults
      <4>2. left' = [drop |-> left.drop, kill |-> left.kill - 1, rest |-> left.rest - 1]
        BY <3>3, <4>1 DEF Faults
      <4> QED BY <4>1, <4>2 DEF Faults
    <3> QED BY <1>2, <3>1, <3>2, <3>3 DEF GenSubmit, GenHeal, GenDrop, GenKill, GenQuiet
  <2> QED BY <2>1, <2>2, <2>3
<1>3. CASE GenSubstop \/ GenStop
  BY <1>3 DEF GenSubstop, GenStop, Writing
<1>4. ASSUME Minimize PROVE UNCHANGED genVars
  BY <1>4 DEF Minimize, InputRefused, InputFails, CutPhase, KeepPhase, PhaseTried, PhasesDone,
              CutStep, KeepStep, StepTried, PhaseAbove, StepsDone, NoTrialFile, Write
<1>5. ASSUME GenRefuse \/ GenMesh \/ GenDone PROVE UNCHANGED genVars
  BY <1>5 DEF GenRefuse, GenMesh, GenDone
<1> QED BY <1>1, <1>2, <1>3, <1>4, <1>5 DEF Next, Generate, vars

LEMMA EndTypeStep == TInv /\ [Next]_vars => EndType'
<1> SUFFICES ASSUME TInv, [Next]_vars PROVE EndType'
  OBVIOUS
<1> USE DEF TInv, EndType, Stages
<1>1. CASE UNCHANGED <<stage, exit>>
  BY <1>1
<1>2. CASE GenRefuse \/ InputRefused \/ NoTrialFile \/ Write
  BY <1>2 DEF GenRefuse, InputRefused, NoTrialFile, Write
<1>3. CASE GenDone \/ InputFails \/ PhasesDone \/ CutStep \/ StepsDone
  BY <1>3 DEF GenDone, InputFails, PhasesDone, CutStep, StepTried, StepsDone, minVars
<1>4. CASE Minimize
  BY <1>1, <1>2, <1>3, <1>4
     DEF Minimize, CutPhase, KeepPhase, PhaseTried, KeepStep, StepTried, PhaseAbove
<1>5. CASE Generate
  <2>1. GenMesh \/ Writing => UNCHANGED <<stage, exit>>
    BY DEF GenMesh, Writing, minVars
  <2> QED BY <1>1, <1>2, <1>3, <1>5, <2>1
          DEF Generate, GenSubstop, GenStop, GenSubmit, GenHeal, GenDrop, GenKill, GenQuiet, Free
<1> QED BY <1>1, <1>4, <1>5 DEF Next, vars, minVars

\* A call is paid for below the cap, and none past it.
LEMMA CallsBounded ==
    ASSUME CountType, NEW f, NEW a \in Answers(f), Bill(a)
    PROVE  calls' \in 0..OracleCap
<1>1. CASE calls >= OracleCap
  <2>1. a.trips
    BY <1>1 DEF Answers
  <2> QED BY <2>1 DEF Bill, CountType
<1>2. CASE ~(calls >= OracleCap)
  <2>1. calls + 1 \in 0..OracleCap /\ calls \in 0..OracleCap
    BY <1>2, NemesisAssumption DEF CountType
  <2> QED BY <2>1 DEF Bill
<1> QED BY <1>1, <1>2

\* A cut that is tried is one more, and leaves the calls in their bound.
LEMMA TriedBounded ==
    ASSUME CountType, NEW f, Kept(f) \/ Refused(f)
    PROVE  calls' \in 0..OracleCap
<1>1. CASE calls' = calls
  BY <1>1 DEF CountType
<1>2. CASE \E a \in Answers(f) : Bill(a)
  BY <1>2, CallsBounded
<1> QED BY <1>1, <1>2 DEF Kept, Refused

LEMMA CountTypeStep == TInv /\ [Next]_vars => CountType'
<1> SUFFICES ASSUME TInv, [Next]_vars PROVE CountType'
  OBVIOUS
<1>0. CountType /\ MaxTry \in Nat /\ MaxPass \in Nat \ {0}
  BY NemesisAssumption DEF TInv
<1>1. CASE UNCHANGED <<stage, pass, tries, calls>>
  BY <1>0, <1>1 DEF CountType
<1>2. CASE Generate
  <2>1. UNCHANGED <<pass, tries, calls>>
    BY <1>2 DEF Generate, GenRefuse, GenMesh, GenDone, GenSubstop, GenStop, GenSubmit, GenHeal,
                GenDrop, GenKill, GenQuiet, Free, Writing, minVars
  <2>2. stage = "gen" /\ stage' # "steps"
    BY <1>2 DEF Generate, GenRefuse, GenMesh, GenDone, GenSubstop, GenStop, GenSubmit, GenHeal,
                GenDrop, GenKill, GenQuiet, Free, Writing
  <2> QED BY <1>0, <2>1, <2>2 DEF CountType
<1>3. CASE InputRefused \/ InputFails
  <2>1. calls' \in 0..OracleCap
    <3>1. CASE calls' = calls
      BY <1>0, <3>1 DEF CountType
    <3>2. CASE \E a \in Answers(cur) : Bill(a)
      BY <1>0, <3>2, CallsBounded
    <3> QED BY <1>3, <3>1, <3>2 DEF InputRefused, InputFails
  <2> QED BY <1>0, <1>3, <2>1 DEF InputRefused, InputFails, CountType
<1>4. CASE CutPhase \/ KeepPhase
  <2>1. calls' \in 0..OracleCap
    BY <1>0, <1>4, TriedBounded DEF CutPhase, KeepPhase
  <2>2. tries' \in 0..MaxTry
    BY <1>0, <1>4 DEF CutPhase, KeepPhase, PhaseTried, CountType
  <2> QED BY <1>0, <1>4, <2>1, <2>2 DEF CutPhase, KeepPhase, PhaseTried, CountType
<1>5. CASE CutStep \/ KeepStep
  <2>1. calls' \in 0..OracleCap
    BY <1>0, <1>5, TriedBounded DEF CutStep, KeepStep
  <2>2. tries' \in 0..MaxTry /\ pass < MaxPass /\ pass \in 0..MaxPass
    BY <1>0, <1>5 DEF CutStep, KeepStep, StepTried, CountType
  <2>3. CASE CutStep
    <3>1. pass' = pass + 1 /\ stage' \in {"steps", "write"}
          /\ (stage' = "steps" => pass' < MaxPass)
      BY <2>3 DEF CutStep
    <3> QED BY <1>0, <2>1, <2>2, <3>1 DEF CountType
  <2>4. CASE KeepStep
    <3>1. pass' = pass /\ stage' = "steps"
      BY <2>4 DEF KeepStep, StepTried
    <3> QED BY <1>0, <2>1, <2>2, <3>1 DEF CountType
  <2> QED BY <1>5, <2>3, <2>4
<1>6. CASE PhasesDone \/ PhaseAbove \/ StepsDone \/ Write
  BY <1>0, <1>6 DEF PhasesDone, PhaseAbove, StepsDone, Write, minVars, CountType
<1>7. CASE NoTrialFile
  <2>1. /\ tries' = tries + 1 /\ tries < MaxTry /\ stage' = "over"
        /\ UNCHANGED <<pass, calls>>
    BY <1>7 DEF NoTrialFile
  <2> QED BY <1>0, <2>1 DEF CountType
<1> QED BY <1>1, <1>2, <1>3, <1>4, <1>5, <1>6, <1>7 DEF Next, Minimize, vars, minVars

\* A step of the generator keeps the file or writes one more phase.
LEMMA GenerateWrites ==
    ASSUME TInv, Generate
    PROVE  /\ cur' = cur \/ \E p \in Phase : cur' = Append(cur, p)
           /\ UNCHANGED <<j, k, refused>>
           /\ stage = "gen" /\ stage' \in {"gen", "input", "over"}
<1>1. CASE GenRefuse \/ GenDone
  BY <1>1 DEF GenRefuse, GenDone, minVars
<1>2. CASE ~(GenRefuse \/ GenDone)
  <2>1. stage = "gen" /\ stage' = stage
    BY <1>2 DEF Generate, GenMesh, GenSubstop, GenStop, GenSubmit, GenHeal, GenDrop, GenKill,
                GenQuiet, Free, Writing
  <2> QED BY <2>1, EmitsPhase DEF minVars
<1> QED BY <1>1, <1>2

\* What a step does to the file: a cut, of a phase or a step it has, that
\* passes trial_valid, or nothing.
LEMMA MinimizeCuts ==
    ASSUME TInv, Minimize
    PROVE  \/ cur' = cur
           \/ CutPhase /\ j \in 2..Len(cur) /\ cur' = trial_no_phase(cur, j) /\ trial_valid(cur')
           \/ /\ CutStep /\ j \in 1..Len(cur) /\ k \in 1..Len(cur[j].steps)
              /\ cur' = trial_no_step(cur, j, k) /\ trial_valid(cur')
<1>0. /\ j \in 0..Len(cur) /\ k \in Nat /\ Len(cur) \in Nat
      /\ stage = "steps" => j > 0 /\ k <= Len(cur[j].steps)
  BY DEF TInv, PlaceType, CurType
<1>1. CASE CutPhase
  BY <1>0, <1>1 DEF CutPhase, PhaseTried, Kept
<1>2. CASE CutStep
  <2>1. j \in 1..Len(cur)
    BY <1>0, <1>2 DEF CutStep, StepTried
  <2>2. cur[j].steps \in Seq(Step)
    <3>1. cur[j] \in Phase
      BY <2>1 DEF TInv, CurType
    <3> QED BY <3>1 DEF Phase
  <2>3. Len(cur[j].steps) \in Nat
    BY <2>2
  <2>4. k \in 1..Len(cur[j].steps)
    BY <1>0, <1>2, <2>3 DEF CutStep, StepTried
  <2> QED BY <1>2, <2>1, <2>4 DEF CutStep, Kept
<1>3. CASE ~(CutPhase \/ CutStep)
  BY <1>3 DEF Minimize, InputRefused, InputFails, KeepPhase, KeepStep, Refused, PhasesDone,
              PhaseAbove, StepsDone, NoTrialFile, Write
<1> QED BY <1>1, <1>2, <1>3

LEMMA CurTypeStep == TInv /\ [Next]_vars => CurType'
<1> SUFFICES ASSUME TInv, [Next]_vars PROVE CurType'
  OBVIOUS
<1>0. CurType /\ cur \in Seq(Phase)
  BY DEF TInv, CurType
<1>1. CASE UNCHANGED vars
  BY <1>0, <1>1 DEF vars, CurType
<1>2. CASE Generate
  <2>1. cur' \in Seq(Phase)
    BY <1>0, <1>2, GenerateWrites
  <2> QED BY <1>2, <2>1, GenerateWrites DEF CurType
<1>3. CASE Minimize
  <2>1. CASE cur' = cur
    <3>1. stage' \in {"phases", "steps"} =>
              stage \in {"phases", "steps"} \/ trial_valid(cur)
      BY <1>3 DEF Minimize, InputRefused, InputFails, CutPhase, KeepPhase, PhaseTried,
                  PhasesDone, CutStep, KeepStep, StepTried, PhaseAbove, StepsDone,
                  NoTrialFile, Write
    <3>2. trial_valid(cur) => Len(cur) > 0
      BY DEF trial_valid
    <3> QED BY <1>0, <2>1, <3>1, <3>2 DEF CurType
  <2>2. ASSUME trial_valid(cur') PROVE Len(cur') > 0
    BY <2>2 DEF trial_valid
  <2>3. CASE j \in 2..Len(cur) /\ cur' = trial_no_phase(cur, j) /\ trial_valid(cur')
    BY <1>0, <2>2, <2>3, NoPhase DEF CurType
  <2>4. CASE /\ j \in 1..Len(cur) /\ k \in 1..Len(cur[j].steps)
             /\ cur' = trial_no_step(cur, j, k) /\ trial_valid(cur')
    BY <1>0, <2>2, <2>4, NoStep DEF CurType
  <2> QED BY <1>3, <2>1, <2>3, <2>4, MinimizeCuts
<1> QED BY <1>1, <1>2, <1>3 DEF Next

LEMMA AtLast ==
    ASSUME NEW f \in Seq(Phase), Len(f) > 0, AtLastStep(f)
    PROVE  j' = Len(f) /\ j' \in 1..Len(f) /\ k' = Len(f[j'].steps) /\ k' \in Nat
<1>1. j' = Len(f) /\ k' = Len(f[j'].steps) /\ j' \in 1..Len(f)
  BY DEF AtLastStep
<1>2. f[j'] \in Phase
  BY <1>1
<1>3. f[j'].steps \in Seq(Step)
  BY <1>2 DEF Phase
<1> QED BY <1>1, <1>3

LEMMA PlaceTypeStep == TInv /\ CurType' /\ [Next]_vars => PlaceType'
<1> SUFFICES ASSUME TInv, CurType', [Next]_vars PROVE PlaceType'
  OBVIOUS
<1>0. /\ j \in 0..Len(cur) /\ k \in Nat /\ Len(cur) \in Nat /\ Len(cur') \in Nat
      /\ stage \in {"gen", "input"} => j = 0
      /\ stage = "steps" => j > 0 /\ k <= Len(cur[j].steps)
      /\ cur \in Seq(Phase) /\ cur' \in Seq(Phase)
      /\ stage \in {"phases", "steps"} => Len(cur) > 0
  BY DEF TInv, PlaceType, CurType
<1>1. CASE UNCHANGED <<stage, cur, j, k>>
  BY <1>0, <1>1 DEF PlaceType
<1>2. CASE Generate
  BY <1>0, <1>2, GenerateWrites DEF PlaceType
<1>3. CASE InputRefused \/ StepsDone \/ NoTrialFile \/ Write
  BY <1>0, <1>3 DEF InputRefused, StepsDone, NoTrialFile, Write, minVars, PlaceType
<1>4. CASE InputFails
  BY <1>0, <1>4 DEF InputFails, PlaceType
<1>5. CASE CutPhase \/ KeepPhase
  <2>1. stage' = "phases" /\ k' = k /\ stage = "phases"
    BY <1>5 DEF CutPhase, KeepPhase, PhaseTried
  <2>2. j' \in 0..Len(cur')
    BY <1>0, <1>5 DEF CutPhase, KeepPhase, PhaseTried, Refused
  <2> QED BY <1>0, <2>1, <2>2 DEF PlaceType
<1>6. CASE PhasesDone
  <2>1. AtLastStep(cur) /\ cur' = cur /\ stage' = "steps" /\ stage = "phases"
    BY <1>6 DEF PhasesDone
  <2>2. j' \in 1..Len(cur) /\ k' = Len(cur[j'].steps) /\ k' \in Nat
    BY <1>0, <2>1, AtLast
  <2> QED BY <2>1, <2>2 DEF PlaceType
<1>7. CASE CutStep
  <2>1. AtLastStep(cur') /\ stage' \in {"steps", "write"} /\ trial_valid(cur')
    BY <1>7 DEF CutStep, Kept
  <2>2. Len(cur') > 0
    BY <2>1 DEF trial_valid
  <2>3. j' \in 1..Len(cur') /\ k' = Len(cur'[j'].steps) /\ k' \in Nat
    <3>1. AtLastStep(cur') => j' = Len(cur') /\ k' = Len(cur'[Len(cur')].steps)
      BY DEF AtLastStep
    <3>2. cur'[Len(cur')] \in Phase
      BY <1>0, <2>2
    <3>3. cur'[Len(cur')].steps \in Seq(Step)
      BY <3>2 DEF Phase
    <3> QED BY <1>0, <2>1, <2>2, <3>1, <3>3
  <2> QED BY <2>1, <2>3 DEF PlaceType
<1>8. CASE KeepStep
  BY <1>0, <1>8 DEF KeepStep, StepTried, Refused, PlaceType
<1>9. CASE PhaseAbove
  <2>1. /\ stage' = "steps" /\ stage = "steps" /\ cur' = cur /\ j > 1 /\ j' = j - 1
        /\ k' = Len(cur[j - 1].steps)
    BY <1>9 DEF PhaseAbove
  <2>2. j' \in 1..Len(cur) /\ cur[j - 1] \in Phase
    BY <1>0, <2>1
  <2>3. k' \in Nat
    BY <2>1, <2>2 DEF Phase
  <2> QED BY <2>1, <2>2, <2>3 DEF PlaceType
<1> QED BY <1>1, <1>2, <1>3, <1>4, <1>5, <1>6, <1>7, <1>8, <1>9 DEF Next, Minimize, vars, minVars

LEMMA CutTypeStep == TInv /\ [Next]_vars => CutType'
<1> SUFFICES ASSUME TInv, [Next]_vars PROVE CutType'
  OBVIOUS
<1> USE DEF TInv, CutType
<1>1. CASE UNCHANGED refused
  BY <1>1
<1>2. CASE Generate
  BY <1>1, <1>2, GenerateWrites
<1>3. CASE CutPhase \/ CutStep \/ PhasesDone
  <2>1. refused' = {}
    BY <1>3 DEF CutPhase, CutStep, PhasesDone, Kept
  <2> QED BY <2>1
<1>4. CASE KeepPhase
  <2>1. refused' = refused \union {trial_no_phase(cur, j)} /\ j \in 1..Len(cur)
    BY <1>4 DEF KeepPhase, PhaseTried, Refused, PlaceType, CurType
  <2> QED BY <2>1, NoPhase
<1>5. CASE KeepStep
  <2>1. refused' = refused \union {trial_no_step(cur, j, k)} /\ j \in 1..Len(cur)
    BY <1>5 DEF KeepStep, StepTried, Refused, PlaceType, CurType
  <2>2. cur[j] \in Phase
    BY <2>1 DEF CurType
  <2>3. k \in 1..Len(cur[j].steps)
    BY <1>5, <2>2 DEF KeepStep, StepTried, PlaceType, Phase
  <2> QED BY <2>1, <2>3, NoStep
<1> QED BY <1>1, <1>2, <1>3, <1>4, <1>5
        DEF Next, Minimize, InputRefused, InputFails, PhaseAbove, StepsDone, NoTrialFile, Write,
            vars, minVars

\* The parts of the type invariant hold together.
LEMMA TypesInductive == Spec => []TInv
<1>1. Init => TInv
  <2> SUFFICES ASSUME Init PROVE TInv
    OBVIOUS
  <2>1. pend \in 0..Nodes
    BY NodesAssumption DEF Init, NoNode
  <2>2. prof \in Profile /\ left \in Faults
    <3>1. CASE /\ prof \in [sut : Suts, nphases : 1..MaxPhases, submit : BOOLEAN, stop : BOOLEAN]
               /\ left \in [drop : 0..MaxFaults, kill : 0..MaxFaults, rest : 0..MaxFaults]
      BY <3>1, NemesisAssumption DEF Profile, Faults
    <3>2. CASE \E g \in Given :
                   /\ prof = [sut |-> g.sut, nphases |-> 0, submit |-> FALSE, stop |-> FALSE]
                   /\ left = [drop |-> 0, kill |-> 0, rest |-> 0]
      BY <3>2, NemesisAssumption DEF Profile, Faults
    <3> QED BY <3>1, <3>2 DEF Init
  <2>3. cur \in Seq(Phase) /\ stage \in {"gen", "input"}
    <3>1. CASE stage = "gen" /\ cur = <<>>
      BY <3>1
    <3>2. CASE \E g \in Given : stage = "input" /\ cur = g.file
      BY <3>2, NemesisAssumption
    <3> QED BY <3>1, <3>2 DEF Init
  <2>4. EndType /\ CountType
    BY <2>3, NemesisAssumption DEF Init, MinInit, EndType, CountType, Stages
  <2>5. PlaceType /\ CurType /\ CutType
    BY <2>3 DEF Init, MinInit, PlaceType, CurType, CutType
  <2> QED BY <2>1, <2>2, <2>4, <2>5 DEF TInv, GenType
<1>2. TInv /\ [Next]_vars => TInv'
  BY GenTypeStep, EndTypeStep, CountTypeStep, CurTypeStep, PlaceTypeStep, CutTypeStep DEF TInv
<1> QED BY <1>1, <1>2, PTL DEF Spec

\* The generator and the minimizer stay within their types: indices within the
\* file they are of, and the passes, tries and calls within their limits.
THEOREM TypeCorrect == Spec => []TypeOK
<1>1. TInv /\ IInv => TypeOK
  BY DEF TInv, IInv, Flags, GenType, EndType, CountType, CurType, PlaceType, CutType, TypeOK
<1> QED BY <1>1, TypesInductive, FlagsInductive, PTL

-----------------------------------------------------------------------------
(* The sweeps.                                                             *)

\* All cuts behind the place of the sweep have been tried and refused.
Swept ==
    /\ stage = "phases" =>
           \A i \in 2..Len(cur) : i > j => trial_no_phase(cur, i) \in refused
    /\ stage = "steps" =>
           \A i \in 1..Len(cur) : \A l \in 1..Len(cur[i].steps) :
               i > j \/ (i = j /\ l > k) => trial_no_step(cur, i, l) \in refused

LEMMA SweptStep == TInv /\ CurType' /\ Swept /\ [Next]_vars => Swept'
<1> SUFFICES ASSUME TInv, CurType', Swept, [Next]_vars PROVE Swept'
  OBVIOUS
<1>0. /\ j \in 0..Len(cur) /\ k \in Nat /\ Len(cur) \in Nat /\ Len(cur') \in Nat
      /\ cur \in Seq(Phase) /\ cur' \in Seq(Phase)
      /\ stage \in {"phases", "steps"} => Len(cur) > 0
  BY DEF TInv, PlaceType, CurType
<1>1. CASE UNCHANGED <<stage, cur, j, k, refused>>
  BY <1>1 DEF Swept
<1>2. CASE Generate
  BY <1>2, GenerateWrites DEF Swept
<1>3. CASE InputRefused \/ StepsDone \/ NoTrialFile \/ Write
  BY <1>3 DEF InputRefused, StepsDone, NoTrialFile, Write, Swept
<1>4. CASE InputFails
  BY <1>0, <1>4 DEF InputFails, Swept
<1>5. CASE CutPhase
  BY <1>0, <1>5 DEF CutPhase, PhaseTried, Swept
<1>6. CASE KeepPhase
  <2>1. /\ stage = "phases" /\ stage' = "phases" /\ cur' = cur /\ j' = j - 1
        /\ refused' = refused \union {trial_no_phase(cur, j)}
    BY <1>6 DEF KeepPhase, PhaseTried, Refused
  <2>2. ASSUME NEW i \in 2..Len(cur), i > j - 1
        PROVE  trial_no_phase(cur, i) \in refused'
    <3>1. CASE i = j
      BY <2>1, <3>1
    <3>2. CASE i > j
      BY <2>1, <3>2 DEF Swept
    <3> QED BY <1>0, <2>2, <3>1, <3>2
  <2> QED BY <2>1, <2>2 DEF Swept
<1>7. CASE PhasesDone
  <2>1. stage = "phases" /\ stage' = "steps" /\ cur' = cur /\ AtLastStep(cur)
    BY <1>7 DEF PhasesDone
  <2>2. j' = Len(cur) /\ k' = Len(cur[j'].steps) /\ k' \in Nat
    BY <1>0, <2>1, AtLast
  <2> QED BY <1>0, <2>1, <2>2 DEF Swept
<1>8. CASE CutStep
  <2>1. stage' \in {"steps", "write"} /\ j' = Len(cur') /\ k' = Len(cur'[j'].steps)
        /\ trial_valid(cur')
    BY <1>8 DEF CutStep, AtLastStep, Kept
  <2>2. Len(cur') > 0
    BY <2>1 DEF trial_valid
  <2>3. cur'[j'] \in Phase
    BY <1>0, <2>1, <2>2
  <2>4. k' \in Nat
    BY <2>1, <2>3 DEF Phase
  <2> QED BY <1>0, <2>1, <2>4 DEF Swept
<1>9. CASE KeepStep
  <2>1. /\ stage = "steps" /\ stage' = "steps" /\ cur' = cur /\ j' = j /\ k' = k - 1
        /\ refused' = refused \union {trial_no_step(cur, j, k)}
    BY <1>9 DEF KeepStep, StepTried, Refused
  <2>2. ASSUME NEW i \in 1..Len(cur), NEW l \in 1..Len(cur[i].steps),
               i > j \/ (i = j /\ l > k - 1)
        PROVE  trial_no_step(cur, i, l) \in refused'
    <3>0. l \in Int
      <4>1. cur[i] \in Phase
        BY <1>0
      <4> QED BY <4>1 DEF Phase
    <3>1. CASE i = j /\ l = k
      BY <2>1, <3>1
    <3>2. CASE i > j \/ (i = j /\ l > k)
      BY <2>1, <3>2 DEF Swept
    <3> QED BY <1>0, <2>2, <3>0, <3>1, <3>2
  <2> QED BY <2>1, <2>2 DEF Swept
<1>10. CASE PhaseAbove
  <2>1. /\ stage = "steps" /\ stage' = "steps" /\ cur' = cur /\ k = 0 /\ j > 1
        /\ j' = j - 1 /\ k' = Len(cur[j - 1].steps) /\ refused' = refused
    BY <1>10 DEF PhaseAbove
  <2>2. ASSUME NEW i \in 1..Len(cur), NEW l \in 1..Len(cur[i].steps),
               i > j - 1 \/ (i = j - 1 /\ l > Len(cur[j - 1].steps))
        PROVE  i > j \/ (i = j /\ l > k)
    <3>1. Len(cur[i].steps) \in Nat
      <4>1. cur[i] \in Phase
        BY <1>0
      <4> QED BY <4>1 DEF Phase
    <3> QED BY <1>0, <2>1, <2>2, <3>1
  <2> QED BY <2>1, <2>2 DEF Swept
<1> QED BY <1>1, <1>2, <1>3, <1>4, <1>5, <1>6, <1>7, <1>8, <1>9, <1>10
        DEF Next, Minimize, vars, minVars

\* nemesis_minimize: a sweep ends only when each single cut was tried on the
\* file as it is, or when the tries or the passes are used up, for every file,
\* every bound and every way in which the oracle may answer.
THEOREM SweepsAreWhole == Spec => SweepsWhole
<1> DEFINE Whole ==
        /\ stage = "phases" /\ stage' = "steps" =>
               \/ tries >= MaxTry
               \/ \A i \in 2..Len(cur) : trial_no_phase(cur, i) \in refused
        /\ stage = "steps" /\ stage' = "write" =>
               \/ tries' >= MaxTry
               \/ pass' >= MaxPass
               \/ \A i \in DOMAIN cur : \A l \in DOMAIN cur[i].steps :
                      trial_no_step(cur, i, l) \in refused
<1>1. Spec => []Swept
  <2>1. Init => Swept
    BY DEF Init, Swept
  <2> QED BY <2>1, SweptStep, CurTypeStep, TypesInductive, PTL DEF Spec
<1>2. TInv /\ Swept /\ [Next]_vars => [Whole]_vars
  <2> SUFFICES ASSUME TInv, Swept, Next PROVE Whole
    OBVIOUS
  <2>0. /\ j \in 0..Len(cur) /\ k \in Nat /\ Len(cur) \in Nat /\ cur \in Seq(Phase)
        /\ tries \in Nat /\ pass \in Nat /\ MaxTry \in Nat /\ MaxPass \in Nat
    BY NemesisAssumption DEF TInv, PlaceType, CurType, CountType
  <2>1. ASSUME stage = "phases", stage' = "steps"
        PROVE  tries >= MaxTry \/ \A i \in 2..Len(cur) : trial_no_phase(cur, i) \in refused
    <3>1. PhasesDone
      BY <2>1 DEF Next, Generate, GenRefuse, GenMesh, GenDone, GenSubstop, GenStop, GenSubmit,
                  GenHeal, GenDrop, GenKill, GenQuiet, Free, Writing, Minimize, InputRefused,
                  InputFails, CutPhase, KeepPhase, CutStep, StepTried, KeepStep, PhaseAbove,
                  StepsDone, NoTrialFile, Write
    <3>2. CASE j <= 1
      BY <2>0, <2>1, <3>2 DEF Swept
    <3> QED BY <3>1, <3>2 DEF PhasesDone
  <2>2. ASSUME stage = "steps", stage' = "write"
        PROVE  \/ tries' >= MaxTry \/ pass' >= MaxPass
               \/ \A i \in DOMAIN cur : \A l \in DOMAIN cur[i].steps :
                      trial_no_step(cur, i, l) \in refused
    <3>1. StepsDone \/ CutStep
      BY <2>2 DEF Next, Generate, GenRefuse, GenMesh, GenDone, GenSubstop, GenStop, GenSubmit,
                  GenHeal, GenDrop, GenKill, GenQuiet, Free, Writing, Minimize, InputRefused,
                  InputFails, CutPhase, KeepPhase, PhaseTried, PhasesDone, KeepStep, PhaseAbove,
                  NoTrialFile, Write
    <3>2. CASE CutStep
      <4>1. ~(pass' < MaxPass /\ tries' < MaxTry)
        BY <2>2, <3>2 DEF CutStep
      <4>2. pass' \in Nat /\ tries' \in Nat
        BY <2>0, <3>2 DEF CutStep, StepTried
      <4> QED BY <2>0, <4>1, <4>2
    <3>3. CASE StepsDone /\ tries >= MaxTry
      BY <3>3 DEF StepsDone, minVars
    <3>4. CASE j = 1 /\ k = 0
      <4> SUFFICES ASSUME NEW i \in DOMAIN cur, NEW l \in DOMAIN cur[i].steps
                   PROVE  trial_no_step(cur, i, l) \in refused
        OBVIOUS
      <4>1. i \in 1..Len(cur) /\ cur[i] \in Phase
        BY <2>0
      <4>2. l \in 1..Len(cur[i].steps) /\ l > 0
        BY <4>1 DEF Phase
      <4> QED BY <2>0, <2>2, <3>4, <4>1, <4>2 DEF Swept
    <3> QED BY <3>1, <3>2, <3>3, <3>4 DEF StepsDone
  <2> QED BY <2>1, <2>2
<1> QED BY <1>1, <1>2, TypesInductive, PTL DEF Spec, SweepsWhole

-----------------------------------------------------------------------------
(* The lint.  FilesLint is not inductive: that a cut keeps to the lint     *)
(* needs that no phase has a step or a condition that trial_valid does not *)
(* know, and that there is one submit.                                     *)

\* The lint takes the phase on its own, and trial_valid knows all it holds.
Good(p, sut) ==
    /\ \A l \in 1..Len(p.steps) :
           val_step(p.steps[l], sut) /\ p.steps[l].verb # "update"
    /\ val_cond(p.cond, sut) /\ p.cond.kind # "agree"

OneSubmit(f) ==
    \A a, b \in 1..Len(f) :
        \A x \in 1..Len(f[a].steps), y \in 1..Len(f[b].steps) :
            f[a].steps[x].verb = "submit" /\ f[b].steps[y].verb = "submit"
                => a = b /\ x = y

Fits(sut, f) == (\A i \in 1..Len(f) : Good(f[i], sut)) /\ OneSubmit(f)

\* The phase with the submit, and any other.
Opens(p) ==
    /\ Len(p.steps) > 0 /\ p.steps[1].verb = "submit"
    /\ \A l \in 2..Len(p.steps) : p.steps[l].verb # "submit"
Opened(pr) == pr.sut = "concord" /\ pr.submit
Follows(pr, p, i) ==
    /\ \A l \in 1..Len(p.steps) :
           p.steps[l].verb # "submit" /\ (p.steps[l].verb = "stop" => i > 2 /\ Opened(pr))
    /\ cond_needs(p.cond) => i > 2 /\ Opened(pr)

\* Phase i has its place in a file of the generator.
Placed(pr, p, i) ==
    /\ p.name = i - 1 /\ Good(p, pr.sut)
    /\ IF i = 2 /\ Opened(pr) THEN Opens(p) ELSE Follows(pr, p, i)

Laid ==
    Generated /\ stage \in {"gen", "input"} =>
        /\ \A i \in 1..Len(cur) : Placed(prof, cur[i], i)
        /\ stage = "input" => Len(cur) > 0
Shrunk ==
    Generated /\ stage \in {"phases", "steps", "write"} => Fits(prof.sut, cur) /\ trial_valid(cur)

\* What trial_valid and the phases together give is what the lint asks for.
LEMMA FitsLint ==
    ASSUME NEW f \in Seq(Phase), Fits(prof.sut, f), trial_valid(f)
    PROVE  val_top(f, prof.sut)
<1>0. /\ DOMAIN f = 1..Len(f) /\ Len(f) \in Nat
      /\ \A i \in 1..Len(f) : /\ f[i].steps \in Seq(Step)
                               /\ DOMAIN f[i].steps = 1..Len(f[i].steps)
                               /\ Len(f[i].steps) \in Nat
  <2>1. \A i \in 1..Len(f) : f[i] \in Phase
    OBVIOUS
  <2>2. \A i \in 1..Len(f) : f[i].steps \in Seq(Step)
    BY <2>1 DEF Phase
  <2> QED BY <2>2
<1>1. Len(f) > 0 /\ NamesDiffer(f)
  BY DEF trial_valid
<1>2. \A i \in DOMAIN f : val_phase(f[i], prof.sut)
  BY <1>0 DEF Fits, Good, val_phase
<1>3. ASSUME NEW i \in DOMAIN f, NEW l \in DOMAIN f[i].steps, IsSubmit(f, i, l)
      PROVE  ~SubmitBefore(f, i, l)
  <2>1. ASSUME NEW a \in 1..(i - 1), NEW x \in DOMAIN f[a].steps, IsSubmit(f, a, x)
        PROVE  FALSE
    <3>1. a \in 1..Len(f) /\ a # i
      BY <1>0
    <3>2. x \in 1..Len(f[a].steps) /\ l \in 1..Len(f[i].steps)
      BY <1>0, <3>1
    <3> QED BY <1>0, <1>3, <2>1, <3>1, <3>2 DEF Fits, OneSubmit, IsSubmit
  <2>2. ASSUME NEW x \in 1..(l - 1), IsSubmit(f, i, x)
        PROVE  FALSE
    <3>1. x \in 1..Len(f[i].steps) /\ x # l /\ l \in 1..Len(f[i].steps)
      BY <1>0
    <3> QED BY <1>0, <1>3, <2>2, <3>1 DEF Fits, OneSubmit, IsSubmit
  <2> QED BY <2>1, <2>2 DEF SubmitBefore
<1>4. ASSUME NEW i \in DOMAIN f, NEW l \in DOMAIN f[i].steps,
             f[i].steps[l].verb \in {"stop", "update"}
      PROVE  SubmitBefore(f, i, l)
  <2>1. f[i].steps[l].verb # "update"
    BY <1>0 DEF Fits, Good
  <2> QED BY <1>4, <2>1 DEF trial_valid
<1>5. ASSUME NEW i \in DOMAIN f, f[i].cond.kind \in {"assigned", "absent", "agree"}
      PROVE  SubmitUpTo(f, i)
  <2>1. f[i].cond.kind # "agree"
    BY <1>0 DEF Fits, Good
  <2> QED BY <1>5, <2>1 DEF trial_valid, cond_needs
<1> QED BY <1>1, <1>2, <1>3, <1>4, <1>5 DEF val_top

\* A file of the generator passes the check of the minimizer.
LEMMA LaidFits ==
    ASSUME NEW f \in Seq(Phase), \A i \in 1..Len(f) : Placed(prof, f[i], i)
    PROVE  Fits(prof.sut, f) /\ (Len(f) > 0 => trial_valid(f))
<1>0. /\ DOMAIN f = 1..Len(f) /\ Len(f) \in Nat
      /\ \A i \in 1..Len(f) : DOMAIN f[i].steps = 1..Len(f[i].steps) /\ Len(f[i].steps) \in Nat
  <2>1. \A i \in 1..Len(f) : f[i] \in Phase
    OBVIOUS
  <2>2. \A i \in 1..Len(f) : f[i].steps \in Seq(Step)
    BY <2>1 DEF Phase
  <2> QED BY <2>2
<1>1. ASSUME NEW i \in 1..Len(f), NEW l \in 1..Len(f[i].steps), f[i].steps[l].verb = "submit"
      PROVE  i = 2 /\ l = 1
  <2>1. i = 2 /\ Opened(prof)
    BY <1>1 DEF Placed, Follows
  <2>2. Opens(f[i])
    BY <2>1 DEF Placed
  <2> QED BY <1>0, <1>1, <2>1, <2>2 DEF Opens
<1>2. OneSubmit(f)
  BY <1>1 DEF OneSubmit
<1>3. Fits(prof.sut, f)
  BY <1>2 DEF Fits, Placed
<1>4. NamesDiffer(f)
  <2>1. ASSUME NEW a \in 1..Len(f), NEW b \in 1..Len(f), f[a].name = f[b].name PROVE a = b
    <3>1. f[a].name = a - 1 /\ f[b].name = b - 1
      BY DEF Placed
    <3>2. a \in Int /\ b \in Int
      BY <1>0
    <3>3. a - 1 = b - 1
      BY <2>1, <3>1
    <3> QED BY <3>2, <3>3
  <2> QED BY <1>0, <2>1 DEF NamesDiffer
<1>5. ASSUME NEW i \in 1..Len(f), i > 2, Opened(prof), NEW l PROVE SubmitBefore(f, i, l)
  <2>1. 2 \in 1..(i - 1) /\ 2 \in 1..Len(f)
    BY <1>0, <1>5
  <2>2. Opens(f[2])
    BY <1>5, <2>1 DEF Placed
  <2>3. 1 \in DOMAIN f[2].steps
    BY <1>0, <2>1, <2>2 DEF Opens
  <2>4. IsSubmit(f, 2, 1)
    BY <1>0, <2>1, <2>2, <2>3 DEF Opens, IsSubmit
  <2> QED BY <2>1, <2>3, <2>4 DEF SubmitBefore
<1>6. ASSUME NEW i \in 1..Len(f), Opens(f[i]), NEW l \in 2..(Len(f[i].steps) + 1)
      PROVE  SubmitBefore(f, i, l)
  <2>1. 1 \in 1..(l - 1) /\ 1 \in DOMAIN f[i].steps
    BY <1>0, <1>6 DEF Opens
  <2>2. IsSubmit(f, i, 1)
    BY <1>0, <1>6, <2>1 DEF Opens, IsSubmit
  <2> QED BY <2>1, <2>2 DEF SubmitBefore
<1>7. ASSUME NEW i \in 1..Len(f), NEW l \in 1..Len(f[i].steps), f[i].steps[l].verb = "stop"
      PROVE  SubmitBefore(f, i, l)
  <2>1. CASE i = 2 /\ Opened(prof)
    <3>1. Opens(f[i])
      BY <2>1 DEF Placed
    <3>2. l \in 2..(Len(f[i].steps) + 1)
      BY <1>0, <1>7, <3>1 DEF Opens
    <3> QED BY <1>6, <3>1, <3>2
  <2>2. CASE ~(i = 2 /\ Opened(prof))
    BY <1>5, <1>7, <2>2 DEF Placed, Follows
  <2> QED BY <2>1, <2>2
<1>8. ASSUME NEW i \in 1..Len(f), cond_needs(f[i].cond)
      PROVE  SubmitUpTo(f, i)
  <2>1. CASE i = 2 /\ Opened(prof)
    <3>1. Opens(f[i])
      BY <2>1 DEF Placed
    <3>2. Len(f[i].steps) + 1 \in 2..(Len(f[i].steps) + 1)
      BY <1>0, <3>1 DEF Opens
    <3> QED BY <1>6, <3>1, <3>2 DEF SubmitUpTo
  <2>2. CASE ~(i = 2 /\ Opened(prof))
    BY <1>5, <1>8, <2>2 DEF Placed, Follows, SubmitUpTo
  <2> QED BY <2>1, <2>2
<1>9. Len(f) > 0 => trial_valid(f)
  BY <1>0, <1>4, <1>7, <1>8 DEF trial_valid
<1> QED BY <1>3, <1>9

\* A cut keeps what the phases have on their own, and adds no submit.
LEMMA NoPhaseFits ==
    ASSUME NEW f \in Seq(Phase), Fits(prof.sut, f), NEW i \in 1..Len(f)
    PROVE  Fits(prof.sut, trial_no_phase(f, i))
<1> DEFINE w == trial_no_phase(f, i)
           At(x) == IF x < i THEN x ELSE x + 1
<1>1. Len(w) = Len(f) - 1 /\ Len(f) \in Nat
  BY WithoutOne DEF trial_no_phase
<1>2. \A x \in 1..Len(w) : w[x] = f[At(x)]
  BY <1>1, WithoutOne DEF trial_no_phase
<1> HIDE DEF w
<1>3. \A x \in 1..Len(w) : At(x) \in 1..Len(f)
  BY <1>1
<1>4. \A x, y \in 1..Len(w) : At(x) = At(y) => x = y
  BY <1>1
<1> HIDE DEF At
<1>5. \A x \in 1..Len(w) : Good(w[x], prof.sut)
  BY <1>2, <1>3 DEF Fits
<1>6. OneSubmit(w)
  <2> SUFFICES ASSUME NEW a \in 1..Len(w), NEW b \in 1..Len(w),
                      NEW x \in 1..Len(w[a].steps), NEW y \in 1..Len(w[b].steps),
                      w[a].steps[x].verb = "submit", w[b].steps[y].verb = "submit"
               PROVE  a = b /\ x = y
    BY DEF OneSubmit
  <2>1. w[a] = f[At(a)] /\ w[b] = f[At(b)] /\ At(a) \in 1..Len(f) /\ At(b) \in 1..Len(f)
    BY <1>2, <1>3
  <2>2. \A c, d \in 1..Len(f) :
            \A u \in 1..Len(f[c].steps), v \in 1..Len(f[d].steps) :
                f[c].steps[u].verb = "submit" /\ f[d].steps[v].verb = "submit"
                    => c = d /\ u = v
    BY DEF Fits, OneSubmit
  <2>3. At(a) = At(b) /\ x = y
    BY <2>1, <2>2
  <2> QED BY <1>4, <2>3
<1> QED BY <1>5, <1>6 DEF Fits, w

LEMMA NoStepFits ==
    ASSUME CurType, Fits(prof.sut, cur), NEW i \in 1..Len(cur), NEW l \in 1..Len(cur[i].steps)
    PROVE  Fits(prof.sut, trial_no_step(cur, i, l))
<1> DEFINE w == trial_no_step(cur, i, l)
           At(x, y) == IF x = i /\ y >= l THEN y + 1 ELSE y
<1>1. /\ Len(w) = Len(cur) /\ \A x \in 1..Len(cur) : x # i => w[x] = cur[x]
      /\ w[i].cond = cur[i].cond /\ w[i].steps = Without(cur[i].steps, l)
  BY NoStep
<1>2. \A x \in 1..Len(cur) : cur[x].steps \in Seq(Step) /\ Len(cur[x].steps) \in Nat
  <2>1. \A x \in 1..Len(cur) : cur[x] \in Phase
    BY DEF CurType
  <2>2. \A x \in 1..Len(cur) : cur[x].steps \in Seq(Step)
    BY <2>1 DEF Phase
  <2> QED BY <2>2
<1>3. /\ Len(w[i].steps) = Len(cur[i].steps) - 1
      /\ \A y \in 1..Len(w[i].steps) :
             w[i].steps[y] = IF y < l THEN cur[i].steps[y] ELSE cur[i].steps[y + 1]
  <2> HIDE DEF w
  <2>1. /\ Len(Without(cur[i].steps, l)) = Len(cur[i].steps) - 1
        /\ \A y \in 1..(Len(cur[i].steps) - 1) :
               Without(cur[i].steps, l)[y]
                   = IF y < l THEN cur[i].steps[y] ELSE cur[i].steps[y + 1]
    BY <1>2, WithoutOne
  <2> QED BY <1>1, <2>1
<1> HIDE DEF w
<1>4. ASSUME NEW x \in 1..Len(w), NEW y \in 1..Len(w[x].steps)
      PROVE  /\ At(x, y) \in 1..Len(cur[x].steps)
             /\ w[x].steps[y] = cur[x].steps[At(x, y)]
  <2>1. CASE x = i
    <3>1. y \in 1..(Len(cur[i].steps) - 1) /\ Len(cur[i].steps) \in Nat
      BY <1>2, <1>3, <2>1
    <3>2. CASE y < l
      BY <1>3, <2>1, <3>1, <3>2
    <3>3. CASE ~(y < l)
      <4>1. At(x, y) = y + 1
        BY <2>1, <3>1, <3>3
      <4> QED BY <1>3, <2>1, <3>1, <3>3, <4>1
    <3> QED BY <3>2, <3>3
  <2>2. CASE x # i
    BY <1>1, <2>2
  <2> QED BY <2>1, <2>2
<1>5. ASSUME NEW x \in 1..Len(w), NEW y \in 1..Len(w[x].steps), NEW z \in 1..Len(w[x].steps),
             At(x, y) = At(x, z)
      PROVE  y = z
  <2>1. y \in Int /\ z \in Int /\ l \in Int
    <3>1. Len(cur[x].steps) \in Nat /\ Len(cur[i].steps) \in Nat
      BY <1>1, <1>2
    <3>2. Len(w[x].steps) \in Int
      BY <1>1, <1>3, <3>1
    <3> QED BY <3>1, <3>2
  <2> QED BY <1>5, <2>1
<1> HIDE DEF At
<1>6. ASSUME NEW x \in 1..Len(w) PROVE Good(w[x], prof.sut)
  <2>1. Good(cur[x], prof.sut) /\ w[x].cond = cur[x].cond
    BY <1>1 DEF Fits
  <2> QED BY <1>4, <2>1 DEF Good
<1>7. OneSubmit(w)
  <2> SUFFICES ASSUME NEW a \in 1..Len(w), NEW b \in 1..Len(w),
                      NEW x \in 1..Len(w[a].steps), NEW y \in 1..Len(w[b].steps),
                      w[a].steps[x].verb = "submit", w[b].steps[y].verb = "submit"
               PROVE  a = b /\ x = y
    BY DEF OneSubmit
  <2>1. /\ At(a, x) \in 1..Len(cur[a].steps) /\ At(b, y) \in 1..Len(cur[b].steps)
        /\ cur[a].steps[At(a, x)].verb = "submit" /\ cur[b].steps[At(b, y)].verb = "submit"
        /\ a \in 1..Len(cur) /\ b \in 1..Len(cur)
    BY <1>1, <1>4
  <2>2. \A u \in 1..Len(cur[a].steps), v \in 1..Len(cur[b].steps) :
            cur[a].steps[u].verb = "submit" /\ cur[b].steps[v].verb = "submit"
                => a = b /\ u = v
    BY <2>1 DEF Fits, OneSubmit
  <2>3. a = b /\ At(a, x) = At(b, y)
    BY <2>1, <2>2
  <2> QED BY <1>5, <2>3
<1> QED BY <1>6, <1>7 DEF Fits, w

LEMMA SecondPhase == \A x \in Nat : x + 1 = 2 => x = 1
  OBVIOUS

\* What the generator writes next has its place.
LEMMA EmitsPlaced ==
    ASSUME TInv, NEW kind, NEW n, NEW steps,
           \A l \in 1..Len(steps) :
               /\ steps[l].node \in Node
               /\ \/ steps[l].verb \in {"drop", "heal", "kill", "restart"}
                  \/ steps[l].verb = "pub" /\ prof.sut = "weld",
           kind \in {"peers", "mesh", "observed"},
           val_cond([kind |-> kind, n |-> n], prof.sut), ~(Len(cur) = 1 /\ Opened(prof))
    PROVE  Placed(prof, P(steps, kind, n), Len(cur) + 1)
<1> DEFINE p == P(steps, kind, n)
<1>1. /\ p.name = Len(cur) /\ p.steps = steps /\ p.cond = [kind |-> kind, n |-> n]
      /\ p.cond.kind = kind /\ Len(cur) \in Nat
  BY DEF P, TInv, CurType
<1> HIDE DEF p
<1>2. Good(p, prof.sut)
  BY <1>1 DEF Good, val_step, CanPub
<1>3. Follows(prof, p, Len(cur) + 1)
  BY <1>1 DEF Follows, cond_needs
<1>4. Len(cur) + 1 = 2 => Len(cur) = 1
  BY <1>1, SecondPhase, Zenon
<1>5. p.name = (Len(cur) + 1) - 1
  BY <1>1
<1> QED BY <1>2, <1>3, <1>4, <1>5 DEF Placed, p

\* The phases of faults and traffic have their place anywhere but in that of
\* the submit.
LEMMA FreePlaced ==
    ASSUME TInv, ~(Len(cur) = 1 /\ Opened(prof)),
           NEW nd \in Node, NEW from \in Node, NEW on \in Node
    PROVE  /\ Placed(prof, emit_mesh, Len(cur) + 1)
           /\ Conc => Placed(prof, emit_dwell, Len(cur) + 1)
           /\ Placed(prof, emit_drop(nd), Len(cur) + 1)
           /\ Placed(prof, emit_heal(nd), Len(cur) + 1)
           /\ Placed(prof, emit_kill(nd), Len(cur) + 1)
           /\ ~Conc => /\ Placed(prof, emit_pub(from, on), Len(cur) + 1)
                       /\ Placed(prof, emit_wdrop(nd, from, on), Len(cur) + 1)
                       /\ Placed(prof, emit_wheal(nd, from, on), Len(cur) + 1)
                       /\ Placed(prof, emit_wkill(nd, from, on), Len(cur) + 1)
<1>0. Nodes \in 1..Nodes /\ (Conc <=> prof.sut = "concord") /\ (~Conc => prof.sut = "weld")
  BY NodesAssumption DEF Conc, TInv, GenType, Profile, Suts
<1>1. /\ val_cond([kind |-> "mesh", n |-> Nodes], prof.sut)
      /\ Conc => val_cond([kind |-> "peers", n |-> Nodes], prof.sut)
      /\ ~Conc => val_cond([kind |-> "observed", n |-> on], prof.sut)
  BY <1>0 DEF val_cond, CanObserve
<1> DEFINE Ok(steps) ==
               \A l \in 1..Len(steps) :
                   /\ steps[l].node \in Node
                   /\ \/ steps[l].verb \in {"drop", "heal", "kill", "restart"}
                      \/ steps[l].verb = "pub" /\ prof.sut = "weld"
<1>2. /\ Ok(<<>>) /\ Ok(<<S("drop", nd)>>) /\ Ok(<<S("heal", nd)>>)
      /\ Ok(<<S("kill", nd), S("restart", nd)>>)
  <2>1. Ok(<<>>)
    OBVIOUS
  <2>2. Ok(<<S("drop", nd)>>) /\ Ok(<<S("heal", nd)>>)
    BY DEF S
  <2>3. Ok(<<S("kill", nd), S("restart", nd)>>)
    BY DEF S
  <2> QED BY <2>1, <2>2, <2>3
<1>3. ~Conc => /\ Ok(<<S("pub", from)>>) /\ Ok(<<S("drop", nd), S("pub", from)>>)
               /\ Ok(<<S("heal", nd), S("pub", from)>>)
               /\ Ok(<<S("kill", nd), S("restart", nd), S("pub", from)>>)
  <2> SUFFICES ASSUME ~Conc PROVE /\ Ok(<<S("pub", from)>>) /\ Ok(<<S("drop", nd), S("pub", from)>>)
               /\ Ok(<<S("heal", nd), S("pub", from)>>)
               /\ Ok(<<S("kill", nd), S("restart", nd), S("pub", from)>>)
    OBVIOUS
  <2>1. Ok(<<S("pub", from)>>)
    BY <1>0 DEF S
  <2>2. Ok(<<S("drop", nd), S("pub", from)>>) /\ Ok(<<S("heal", nd), S("pub", from)>>)
    BY <1>0 DEF S
  <2>3. Ok(<<S("kill", nd), S("restart", nd), S("pub", from)>>)
    BY <1>0 DEF S
  <2> QED BY <2>1, <2>2, <2>3
<1>4. ASSUME NEW steps, Ok(steps), NEW kind \in {"peers", "mesh", "observed"}, NEW n,
             val_cond([kind |-> kind, n |-> n], prof.sut)
      PROVE  Placed(prof, P(steps, kind, n), Len(cur) + 1)
  BY <1>4, EmitsPlaced
<1> HIDE DEF Ok
<1>5. Placed(prof, emit_mesh, Len(cur) + 1)
  BY <1>1, <1>2, <1>4 DEF emit_mesh
<1>6. Conc => Placed(prof, emit_dwell, Len(cur) + 1)
  BY <1>1, <1>2, <1>4 DEF emit_dwell
<1>7. /\ Placed(prof, emit_drop(nd), Len(cur) + 1)
      /\ Placed(prof, emit_heal(nd), Len(cur) + 1)
      /\ Placed(prof, emit_kill(nd), Len(cur) + 1)
  BY <1>1, <1>2, <1>4 DEF emit_drop, emit_heal, emit_kill
<1>8. ~Conc => /\ Placed(prof, emit_pub(from, on), Len(cur) + 1)
               /\ Placed(prof, emit_wdrop(nd, from, on), Len(cur) + 1)
               /\ Placed(prof, emit_wheal(nd, from, on), Len(cur) + 1)
               /\ Placed(prof, emit_wkill(nd, from, on), Len(cur) + 1)
  BY <1>1, <1>3, <1>4 DEF emit_pub, emit_wdrop, emit_wheal, emit_wkill
<1> QED BY <1>5, <1>6, <1>7, <1>8

\* The steps and the condition of a phase about the workload pass the lint.
LEMMA WorkloadGood ==
    ASSUME NEW p, NEW nd \in Node,
           p.cond \in {[kind |-> "assigned", n |-> 0], [kind |-> "absent", n |-> 0],
                       [kind |-> "mesh", n |-> 1]},
           \A l \in 1..Len(p.steps) :
               \/ p.steps[l] = S("submit", nd)
               \/ p.steps[l] = S("stop", 0)
    PROVE  Good(p, "concord")
<1>1. /\ val_step(S("submit", nd), "concord") /\ S("submit", nd).verb = "submit"
      /\ val_step(S("stop", 0), "concord") /\ S("stop", 0).verb = "stop"
  BY DEF val_step, S, CanSubmit
<1>2. ASSUME NEW l \in 1..Len(p.steps)
      PROVE  val_step(p.steps[l], "concord") /\ p.steps[l].verb # "update"
  <2>1. CASE p.steps[l] = S("submit", nd)
    BY <1>1, <2>1
  <2>2. CASE p.steps[l] = S("stop", 0)
    BY <1>1, <2>2
  <2> QED BY <2>1, <2>2
<1>3. 1 \in 1..Nodes
  BY NodesAssumption
<1>4. val_cond(p.cond, "concord") /\ p.cond.kind # "agree"
  <2>1. CASE p.cond = [kind |-> "assigned", n |-> 0]
    BY <2>1 DEF val_cond
  <2>2. CASE p.cond = [kind |-> "absent", n |-> 0]
    BY <2>2 DEF val_cond
  <2>3. CASE p.cond = [kind |-> "mesh", n |-> 1]
    BY <1>3, <2>3 DEF val_cond
  <2> QED BY <2>1, <2>2, <2>3
<1> QED BY <1>2, <1>4 DEF Good

\* The submit opens the second phase, and the stop is in it or after it.
LEMMA WorkloadPlaced ==
    ASSUME TInv, Conc, prof.submit, NEW nd \in Node
    PROVE  /\ Len(cur) = 1 => /\ Placed(prof, emit_submit(nd), Len(cur) + 1)
                              /\ Placed(prof, emit_substop, Len(cur) + 1)
           /\ Len(cur) > 1 => Placed(prof, emit_stop, Len(cur) + 1)
<1>0. prof.sut = "concord" /\ Opened(prof) /\ 0 \in Node /\ Len(cur) \in Nat
  BY NodesAssumption DEF Conc, Opened, Node, TInv, CurType
<1>1. ASSUME Len(cur) = 1 PROVE Placed(prof, emit_submit(nd), 2)
  <2> DEFINE p == emit_submit(nd)
  <2>1. /\ p.name = 1 /\ p.steps = <<S("submit", nd)>>
        /\ p.cond = [kind |-> "assigned", n |-> 0]
    BY <1>1 DEF emit_submit, P
  <2> HIDE DEF p
  <2>2. Len(p.steps) = 1 /\ p.steps[1] = S("submit", nd)
    BY <2>1
  <2>3. \A l \in 1..Len(p.steps) : p.steps[l] = S("submit", nd)
    BY <2>2
  <2>4. Good(p, prof.sut)
    BY <1>0, <2>1, <2>3, WorkloadGood
  <2>5. Opens(p)
    BY <2>2 DEF Opens, S
  <2> QED BY <1>0, <2>1, <2>4, <2>5 DEF Placed, p
<1>2. ASSUME Len(cur) = 1 PROVE Placed(prof, emit_substop, 2)
  <2> DEFINE p == emit_substop
  <2>1. /\ p.name = 1 /\ p.steps = <<S("submit", 0), S("stop", 0)>>
        /\ p.cond = [kind |-> "mesh", n |-> 1]
    BY <1>2 DEF emit_substop, P
  <2> HIDE DEF p
  <2>2. Len(p.steps) = 2 /\ p.steps[1] = S("submit", 0) /\ p.steps[2] = S("stop", 0)
    BY <2>1
  <2>3. \A l \in 1..Len(p.steps) : p.steps[l] = S("submit", 0) \/ p.steps[l] = S("stop", 0)
    BY <2>2
  <2>4. Good(p, prof.sut)
    BY <1>0, <2>1, <2>3, WorkloadGood
  <2>5. Opens(p)
    BY <2>2 DEF Opens, S
  <2> QED BY <1>0, <2>1, <2>4, <2>5 DEF Placed, p
<1>3. ASSUME Len(cur) > 1 PROVE Placed(prof, emit_stop, Len(cur) + 1)
  <2> DEFINE p == emit_stop
  <2>1. /\ p.name = Len(cur) /\ p.steps = <<S("stop", 0)>>
        /\ p.cond = [kind |-> "absent", n |-> 0]
    BY DEF emit_stop, P
  <2> HIDE DEF p
  <2>2. Len(p.steps) = 1 /\ p.steps[1] = S("stop", 0)
    BY <2>1
  <2>3. \A l \in 1..Len(p.steps) : p.steps[l] = S("stop", 0)
    BY <2>2
  <2>4. Good(p, prof.sut)
    BY <1>0, <2>1, <2>3, WorkloadGood
  <2>5. Len(cur) + 1 > 2 /\ Len(cur) + 1 # 2 /\ p.name = (Len(cur) + 1) - 1
    BY <1>0, <1>3, <2>1
  <2>6. Follows(prof, p, Len(cur) + 1)
    BY <1>0, <2>3, <2>5 DEF Follows, S
  <2> QED BY <2>4, <2>5, <2>6 DEF Placed, p
<1>4. Len(cur) = 1 => Len(cur) + 1 = 2
  OBVIOUS
<1> QED BY <1>1, <1>2, <1>3, <1>4

\* One more phase in its place.
LEMMA LaidAppend ==
    ASSUME TInv, Laid, stage = "gen", stage' = "gen", prof' = prof,
           NEW p \in Phase, cur' = Append(cur, p), Placed(prof, p, Len(cur) + 1)
    PROVE  Laid'
<1>1. cur \in Seq(Phase) /\ Len(cur) \in Nat
  BY DEF TInv, CurType
<1>2. ASSUME Generated PROVE \A i \in 1..Len(cur') : Placed(prof, cur'[i], i)
  <2> SUFFICES ASSUME NEW i \in 1..Len(cur') PROVE Placed(prof, cur'[i], i)
    OBVIOUS
  <2>1. Len(cur') = Len(cur) + 1
    BY <1>1
  <2>2. CASE i = Len(cur) + 1
    BY <1>1, <2>2
  <2>3. CASE i # Len(cur) + 1
    <3>1. i \in 1..Len(cur) /\ cur'[i] = cur[i]
      BY <1>1, <2>1, <2>3
    <3> QED BY <1>2, <3>1 DEF Laid
  <2> QED BY <2>2, <2>3
<1> QED BY <1>2 DEF Laid, Generated

LEMMA LaidStep == TInv /\ Laid /\ [Next]_vars => Laid'
<1> SUFFICES ASSUME TInv, Laid, [Next]_vars PROVE Laid'
  OBVIOUS
<1>0. /\ Len(cur) \in Nat /\ cur \in Seq(Phase) /\ prof \in Profile
      /\ pend \in 0..Nodes /\ Nodes \in Nat
  BY NodesAssumption DEF TInv, CurType, GenType
<1>1. CASE UNCHANGED vars
  BY <1>1 DEF vars, genVars, Laid, Generated
<1>2. CASE Minimize \/ GenRefuse
  <2>1. stage' \notin {"gen", "input"}
    BY <1>2 DEF Minimize, GenRefuse, InputRefused, InputFails, CutPhase, KeepPhase, PhaseTried,
                PhasesDone, CutStep, KeepStep, StepTried, PhaseAbove, StepsDone, NoTrialFile, Write
  <2> QED BY <2>1 DEF Laid
<1>3. CASE GenDone
  <2>1. prof' = prof /\ cur' = cur /\ stage = "gen" /\ stage' = "input" /\ Len(cur) = prof.nphases
    BY <1>3 DEF GenDone, genVars, Idx
  <2> QED BY <2>1 DEF Laid, Generated
<1>4. ASSUME Generate, ~GenRefuse, ~GenDone
      PROVE  /\ stage = "gen" /\ stage' = "gen" /\ prof' = prof
             /\ \E p \in Phase : cur' = Append(cur, p)
  <2>1. stage = "gen" /\ stage' = "gen" /\ prof' = prof
    BY <1>4 DEF Generate, GenMesh, GenSubstop, GenStop, GenSubmit, GenHeal, GenDrop, GenKill,
                GenQuiet, Free, Writing, genVars
  <2> QED BY <1>4, <2>1, EmitsPhase
<1>5. ASSUME NEW q, Placed(prof, q, Len(cur) + 1), cur' = Append(cur, q),
             Generate, ~GenRefuse, ~GenDone
      PROVE  Laid'
  <2>1. PICK p \in Phase : cur' = Append(cur, p)
    BY <1>4, <1>5
  <2>2. p = q
    <3>1. Append(cur, p)[Len(cur) + 1] = p /\ Append(cur, q)[Len(cur) + 1] = q
      BY <1>0
    <3> QED BY <1>5, <2>1, <3>1
  <2> QED BY <1>4, <1>5, <2>1, <2>2, LaidAppend
<1>6. sub_at = IF prof.submit THEN 1 ELSE 0
  BY DEF sub_at
<1>7. stop_at # 0 => prof.submit
  BY DEF stop_at
<1>8. ASSUME Free PROVE ~(Len(cur) = 1 /\ Opened(prof))
  BY <1>6, <1>8 DEF Free, Idx, Opened, Conc
<1>9. 0 \in Node
  BY NodesAssumption DEF Node
<1>10. CASE GenMesh
  <2>1. cur = <<>> /\ Len(cur) = 0 /\ cur' = Append(cur, emit_mesh)
    BY <1>0, <1>10 DEF GenMesh, Idx
  <2>2. Placed(prof, emit_mesh, Len(cur) + 1)
    BY <1>9, <2>1, FreePlaced
  <2>3. Generate /\ ~GenRefuse /\ ~GenDone
    <3>1. prof.nphases # 0
      BY <1>10 DEF GenMesh, profile_ok
    <3> QED BY <1>10, <2>1, <3>1 DEF Generate, GenMesh, GenRefuse, GenDone, Idx
  <2> QED BY <1>5, <2>1, <2>2, <2>3
<1>11. ASSUME Generate, Writing PROVE ~GenRefuse /\ ~GenDone
  BY <1>0, <1>11 DEF Writing, GenRefuse, GenDone, Idx
<1>12. CASE GenSubstop
  <2>1. Conc /\ prof.submit /\ Len(cur) = 1
    BY <1>6, <1>12 DEF GenSubstop, Writing, Idx
  <2>2. Placed(prof, emit_substop, Len(cur) + 1)
    BY <1>9, <2>1, WorkloadPlaced
  <2>3. Generate /\ Writing /\ cur' = Append(cur, emit_substop)
    BY <1>12 DEF Generate, GenSubstop
  <2> QED BY <1>5, <1>11, <2>2, <2>3
<1>13. CASE GenStop
  <2>1. Conc /\ prof.submit /\ Len(cur) > 1
    <3>1. Conc /\ prof.submit /\ Len(cur) # sub_at /\ Len(cur) > 0
      BY <1>0, <1>7, <1>13 DEF GenStop, Writing, Idx
    <3>2. sub_at = 1
      BY <1>6, <3>1
    <3>3. \A x \in Nat : x > 0 /\ x # 1 => x > 1
      OBVIOUS
    <3> QED BY <1>0, <3>1, <3>2, <3>3, Zenon
  <2>2. Placed(prof, emit_stop, Len(cur) + 1)
    BY <1>9, <2>1, WorkloadPlaced
  <2>3. Generate /\ Writing /\ cur' = Append(cur, emit_stop)
    BY <1>13 DEF Generate, GenStop
  <2> QED BY <1>5, <1>11, <2>2, <2>3
<1>14. ASSUME NEW nd \in Node, NEW from \in Node, NEW on \in Node,
              \/ GenSubmit(nd) \/ GenHeal(from, on) \/ GenDrop(nd, from, on)
              \/ GenKill(nd, from, on) \/ GenQuiet(from, on)
       PROVE  Laid'
  <2>1. Generate
    BY <1>14 DEF Generate
  <2>2. Writing
    BY <1>14 DEF GenSubmit, GenHeal, GenDrop, GenKill, GenQuiet, Free
  <2>3. ASSUME NEW q, Placed(prof, q, Len(cur) + 1), cur' = Append(cur, q) PROVE Laid'
    BY <1>5, <1>11, <2>1, <2>2, <2>3
  <2>4. CASE GenSubmit(nd)
    <3>1. Conc /\ prof.submit /\ Len(cur) = 1 /\ cur' = Append(cur, emit_submit(nd))
      BY <1>6, <2>2, <2>4 DEF GenSubmit, Writing, Idx
    <3>2. Placed(prof, emit_submit(nd), Len(cur) + 1)
      BY <3>1, WorkloadPlaced
    <3> QED BY <2>3, <3>1, <3>2
  <2>5. CASE GenHeal(from, on)
    <3>1. Free /\ pend \in Node
      BY <1>0, <2>5 DEF GenHeal, NoNode, Node
    <3>2. Placed(prof, IF Conc THEN emit_heal(pend) ELSE emit_wheal(pend, from, on), Len(cur) + 1)
      BY <1>8, <3>1, FreePlaced
    <3> QED BY <2>3, <2>5, <3>2 DEF GenHeal
  <2>6. CASE GenDrop(nd, from, on)
    <3>1. Placed(prof, IF Conc THEN emit_drop(nd) ELSE emit_wdrop(nd, from, on), Len(cur) + 1)
      BY <1>8, <2>6, FreePlaced DEF GenDrop
    <3> QED BY <2>3, <2>6, <3>1 DEF GenDrop
  <2>7. CASE GenKill(nd, from, on)
    <3>1. Placed(prof, IF Conc THEN emit_kill(nd) ELSE emit_wkill(nd, from, on), Len(cur) + 1)
      BY <1>8, <2>7, FreePlaced DEF GenKill
    <3> QED BY <2>3, <2>7, <3>1 DEF GenKill
  <2>8. CASE GenQuiet(from, on)
    <3>1. Placed(prof, IF Conc THEN emit_dwell ELSE emit_pub(from, on), Len(cur) + 1)
      BY <1>8, <2>8, FreePlaced DEF GenQuiet
    <3> QED BY <2>3, <2>8, <3>1 DEF GenQuiet
  <2> QED BY <1>14, <2>4, <2>5, <2>6, <2>7, <2>8
<1> QED BY <1>1, <1>2, <1>3, <1>10, <1>12, <1>13, <1>14 DEF Next, Generate

\* The minimizer starts from a file of the generator, and a cut that is kept
\* has passed trial_valid.
LEMMA ShrunkStep == TInv /\ Laid /\ Shrunk /\ [Next]_vars => Shrunk'
<1> SUFFICES ASSUME TInv, Laid, Shrunk, [Next]_vars, Generated',
                    stage' \in {"phases", "steps", "write"}
             PROVE  Fits(prof'.sut, cur') /\ trial_valid(cur')
  BY DEF Shrunk
<1>0. cur \in Seq(Phase) /\ CurType
  BY DEF TInv, CurType
<1>1. CASE UNCHANGED vars
  BY <1>1 DEF vars, genVars, Shrunk, Generated
<1>2. ~Generate
  BY DEF Generate, GenRefuse, GenMesh, GenDone, GenSubstop, GenStop, GenSubmit, GenHeal,
         GenDrop, GenKill, GenQuiet, Free, Writing
<1>3. CASE Minimize
  <2>1. prof' = prof /\ Generated
    BY <1>3 DEF Minimize, InputRefused, InputFails, CutPhase, KeepPhase, PhaseTried, PhasesDone,
                CutStep, KeepStep, StepTried, PhaseAbove, StepsDone, NoTrialFile, Write, genVars,
                Generated
  <2>2. CASE InputFails
    <3>1. stage = "input" /\ cur' = cur /\ trial_valid(cur)
      BY <2>2 DEF InputFails
    <3>2. \A i \in 1..Len(cur) : Placed(prof, cur[i], i)
      BY <2>1, <3>1 DEF Laid
    <3> QED BY <1>0, <2>1, <3>1, <3>2, LaidFits
  <2>3. CASE ~InputFails
    <3>1. stage \in {"phases", "steps", "write"}
      BY <1>3, <2>3 DEF Minimize, InputRefused, CutPhase, KeepPhase, PhaseTried, PhasesDone,
                        CutStep, KeepStep, StepTried, PhaseAbove, StepsDone, NoTrialFile, Write
    <3>2. Fits(prof.sut, cur) /\ trial_valid(cur)
      BY <2>1, <3>1 DEF Shrunk
    <3>3. CASE cur' = cur
      BY <2>1, <3>2, <3>3
    <3>4. CASE j \in 2..Len(cur) /\ cur' = trial_no_phase(cur, j) /\ trial_valid(cur')
      <4>1. j \in 1..Len(cur)
        BY <3>4
      <4> QED BY <1>0, <2>1, <3>2, <3>4, <4>1, NoPhaseFits
    <3>5. CASE /\ j \in 1..Len(cur) /\ k \in 1..Len(cur[j].steps)
               /\ cur' = trial_no_step(cur, j, k) /\ trial_valid(cur')
      BY <1>0, <2>1, <3>2, <3>5, NoStepFits
    <3> QED BY <1>3, <3>3, <3>4, <3>5, MinimizeCuts
  <2> QED BY <2>2, <2>3
<1> QED BY <1>1, <1>2, <1>3 DEF Next

\* The generator's file, and every file the minimizer cuts it down to, is one
\* that the lint and trial_valid accept, for every number of nodes, phases and
\* faults: an oracle's "fail" is never the lint's.
THEOREM FilesAreLinted == Spec => []FilesLint
<1>1. Init => Laid /\ Shrunk
  <2> SUFFICES ASSUME Init PROVE Laid /\ Shrunk
    OBVIOUS
  <2>1. CASE stage = "gen" /\ cur = <<>>
    BY <2>1 DEF Laid, Shrunk
  <2>2. CASE /\ stage = "input"
             /\ \E g \in Given : prof = [sut |-> g.sut, nphases |-> 0, submit |-> FALSE,
                                         stop |-> FALSE]
    <3>1. ~Generated
      BY <2>2 DEF Generated
    <3> QED BY <3>1 DEF Laid, Shrunk
  <2> QED BY <2>1, <2>2 DEF Init
<1>2. TInv /\ Laid /\ Shrunk => FilesLint
  <2> SUFFICES ASSUME TInv, Laid, Shrunk, Generated, stage \notin {"gen", "over"}
               PROVE  val_top(cur, prof.sut) /\ trial_valid(cur)
    BY DEF FilesLint
  <2>1. cur \in Seq(Phase)
    BY DEF TInv, CurType
  <2>2. Fits(prof.sut, cur) /\ trial_valid(cur)
    <3>1. CASE stage = "input"
      <4>1. (\A i \in 1..Len(cur) : Placed(prof, cur[i], i)) /\ Len(cur) > 0
        BY <3>1 DEF Laid
      <4> QED BY <2>1, <4>1, LaidFits
    <3>2. CASE stage # "input"
      BY <3>2 DEF Shrunk, TInv, EndType, Stages
    <3> QED BY <3>1, <3>2
  <2> QED BY <2>1, <2>2, FitsLint
<1> QED BY <1>1, <1>2, LaidStep, ShrunkStep, TypesInductive, PTL DEF Spec

-----------------------------------------------------------------------------
(* Workloads.  PlainFilesRun and NamesExact relate what the lint has       *)
(* registered to what the steps have minted; neither is inductive.  WInv   *)
(* adds how the registry follows from the file, how the table follows from *)
(* the steps that have run, and what a step may rely on when its turn is   *)
(* there.                                                                  *)

\* What a sequence is once n entries are put behind it.
LEMMA Joined ==
    ASSUME NEW R, NEW q \in Seq(R), NEW n \in Nat, NEW e \in [1..n -> R]
    PROVE  /\ q \o e \in Seq(R) /\ Len(q \o e) = Len(q) + n
           /\ \A t \in 1..Len(q) : (q \o e)[t] = q[t]
           /\ \A m \in 1..n : (q \o e)[Len(q) + m] = e[m]
<1>1. e \in Seq(R) /\ Len(e) = n
  OBVIOUS
<1> QED BY <1>1

\* What the lint makes sure of a step on its own.
LEMMA StepFacts ==
    ASSUME NEW s \in Steps, s.k \in Mints
    PROVE  /\ s.as \in Name /\ s.cnt \in Nat /\ s.dur \in Nat
           /\ Added(s) \in Nat \ {0} /\ Most(s) \in Nat /\ Added(s) <= Most(s)
           /\ Suffixed(s) => Counted(s)
           /\ ~Loose(s) => /\ s.k # "ramp" /\ s.dur = 0 /\ Most(s) = Added(s)
                           /\ Counted(s) => Suffixed(s)
                           /\ Suffixed(s) => Added(s) > 1
                           /\ s.k = "bench" => s.cnt = Added(s) /\ s.cnt <= BenchCap
<1>1. StepOk(s)
  BY WorkloadsAssumption
<1>2. /\ s.as \in Name /\ s.cnt \in Nat /\ s.dur \in Nat
      /\ s.k \in {"submit", "bench", "ramp"}
  BY <1>1 DEF StepOk, Mints
<1>3. CASE s.k = "submit"
  <2>1. Added(s) = (IF s.cnt = 0 THEN 1 ELSE s.cnt) /\ s.dur = 0
    BY <1>1, <1>3 DEF Added, StepOk
  <2>2. Most(s) = Added(s) /\ (Suffixed(s) <=> Added(s) > 1) /\ (Counted(s) <=> s.cnt # 0)
    BY <1>3 DEF Most, Suffixed, Counted
  <2> QED BY <1>2, <1>3, <2>1, <2>2 DEF Loose, Mints
<1>4. CASE s.k = "bench"
  <2>1. /\ Added(s) = (IF s.cnt # 0 THEN s.cnt ELSE s.dur)
        /\ s.cnt # 0 \/ s.dur # 0
        /\ s.cnt <= BenchCap
    BY <1>1, <1>4 DEF Added, StepOk
  <2>2. /\ Most(s) = (IF s.cnt = 0 THEN s.dur + 1 ELSE Added(s))
        /\ (Suffixed(s) <=> s.dur # 0 \/ s.cnt # 1) /\ (Counted(s) <=> s.dur # 0 \/ s.cnt # 1)
    BY <1>4 DEF Most, Suffixed, Counted, Multi
  <2> QED BY <1>2, <1>4, <2>1, <2>2 DEF Loose, Mints
<1>5. CASE s.k = "ramp"
  <2>1. Added(s) = s.dur /\ s.dur # 0
    BY <1>1, <1>5 DEF Added, StepOk
  <2>2. Most(s) = Added(s) /\ Suffixed(s) /\ Counted(s)
    BY <1>5 DEF Most, Suffixed, Counted
  <2> QED BY <1>2, <1>5, <2>1, <2>2 DEF Loose, Mints
<1> QED BY <1>2, <1>3, <1>4, <1>5

\* A member of a base, spelt out as a record.
LEMMA MemberIs ==
    ASSUME NEW b \in Name, NEW m
    PROVE  Member(b, m) = [stem |-> b.stem, sfx |-> Append(b.sfx, [v |-> m, pad |-> 0])]
<1>1. ASSUME NEW st, NEW q, NEW r
      PROVE  [[stem |-> st, sfx |-> q] EXCEPT !.sfx = r] = [stem |-> st, sfx |-> r]
  OBVIOUS
<1>2. b = [stem |-> b.stem, sfx |-> b.sfx]
  BY DEF Name
<1>3. Member(b, m) = [b EXCEPT !.sfx = Append(b.sfx, [v |-> m, pad |-> 0])]
  BY DEF Member
<1>4. [[stem |-> b.stem, sfx |-> b.sfx] EXCEPT !.sfx = Append(b.sfx, [v |-> m, pad |-> 0])]
          = [stem |-> b.stem, sfx |-> Append(b.sfx, [v |-> m, pad |-> 0])]
  BY <1>1
<1> QED BY <1>2, <1>3, <1>4, Zenon

\* A member is a member of its own base only.
LEMMA Members ==
    ASSUME NEW b \in Name, NEW m \in Nat
    PROVE  /\ Member(b, m) \in Name /\ Member(b, m) # b
           /\ \A d \in Name, c \in Nat :
                  reg_member(d, c, Member(b, m)) <=> d = b /\ m < c
           /\ \A d \in Name, x \in Nat : Member(d, x) = Member(b, m) => d = b
<1> DEFINE e == [v |-> m, pad |-> 0]
<1>0. b.sfx \in Seq(Suffix) /\ Len(b.sfx) \in Nat /\ e \in Suffix /\ e.v = m
  BY DEF Name, Suffix
<1> HIDE DEF e
<1>1. /\ Member(b, m).stem = b.stem /\ Member(b, m).sfx = Append(b.sfx, e)
      /\ Member(b, m) \in Name
  <2>1. Member(b, m) = [stem |-> b.stem, sfx |-> Append(b.sfx, e)]
    BY MemberIs DEF e
  <2> QED BY <1>0, <2>1 DEF Name
<1>2. Append(b.sfx, e) \in Seq(Suffix) /\ Len(Append(b.sfx, e)) = Len(b.sfx) + 1
  BY <1>0
<1>3. Last(Append(b.sfx, e)).v = m
  BY <1>0, <1>2 DEF Last
<1>4. Front(Append(b.sfx, e)) = b.sfx
  BY <1>0, <1>2 DEF Front
<1>5. \A d \in Name : d.stem = b.stem /\ d.sfx = b.sfx => d = b
  BY DEF Name
<1>6. Member(b, m) # b
  BY <1>0, <1>1, <1>2
<1>7. \A d \in Name, c \in Nat : reg_member(d, c, Member(b, m)) <=> d = b /\ m < c
  BY <1>1, <1>2, <1>3, <1>4, <1>5 DEF reg_member
<1>8. ASSUME NEW d \in Name, NEW x \in Nat, Member(d, x) = Member(b, m) PROVE d = b
  <2>1. d.sfx \in Seq(Suffix) /\ [v |-> x, pad |-> 0] \in Suffix
    BY DEF Name, Suffix
  <2>2. Member(d, x).stem = d.stem /\ Member(d, x).sfx = Append(d.sfx, [v |-> x, pad |-> 0])
    BY MemberIs
  <2>3. Front(Append(d.sfx, [v |-> x, pad |-> 0])) = d.sfx
    BY <2>1 DEF Front
  <2> QED BY <1>1, <1>4, <1>5, <1>8, <2>2, <2>3
<1> QED BY <1>1, <1>6, <1>7, <1>8

\* A name without leading zeros that reg_member takes is one that is minted.
LEMMA Unpadded ==
    ASSUME NEW b \in Name, NEW c \in Nat, NEW ref \in Name, reg_member(b, c, ref),
           \A x \in DOMAIN ref.sfx : ref.sfx[x].pad = 0
    PROVE  \E m \in 0..(c - 1) : ref = Member(b, m)
<1> DEFINE n == Len(ref.sfx)
           l == ref.sfx[n]
<1>1. ref.sfx \in Seq(Suffix) /\ b.sfx \in Seq(Suffix) /\ n \in Nat
  BY DEF Name
<1>2. n = Len(b.sfx) + 1 /\ SubSeq(ref.sfx, 1, n - 1) = b.sfx /\ l.v < c /\ ref.stem = b.stem
  BY DEF reg_member, Front, Last
<1>3. l \in Suffix /\ l.pad = 0
  BY <1>1, <1>2
<1>4. l = [v |-> l.v, pad |-> 0] /\ l.v \in 0..(c - 1)
  BY <1>2, <1>3 DEF Suffix
<1>5. ref.sfx = Append(b.sfx, l)
  <2>1. \A x \in 1..(n - 1) : SubSeq(ref.sfx, 1, n - 1)[x] = ref.sfx[x]
    BY <1>1, <1>2
  <2>2. Append(b.sfx, l) \in Seq(Suffix) /\ Len(Append(b.sfx, l)) = n
    BY <1>1, <1>2, <1>3
  <2>3. \A x \in 1..n : Append(b.sfx, l)[x] = ref.sfx[x]
    BY <1>1, <1>2, <2>1
  <2> QED BY <1>1, <2>2, <2>3
<1>6. ref = Member(b, l.v)
  <2>1. ref = [stem |-> b.stem, sfx |-> Append(b.sfx, l)]
    BY <1>2, <1>5 DEF Name
  <2>2. Member(b, l.v) = [stem |-> b.stem, sfx |-> Append(b.sfx, l)]
    BY <1>4, MemberIs
  <2> QED BY <2>1, <2>2
<1> QED BY <1>4, <1>6

\* Least elements of small sets.
HasMin(T) == T \subseteq Int /\ \E x \in T : \A y \in T : x <= y

\* The least of a set that has one is in it.
LEMMA MinIn ==
    ASSUME NEW T, HasMin(T)
    PROVE  Min(T) \in T /\ Min(T) \in Int /\ \A y \in T : Min(T) <= y
BY DEF HasMin, Min

\* A set that has a least number has one after another number is added.
LEMMA MinAdd ==
    ASSUME NEW T, HasMin(T), NEW a \in Int
    PROVE  HasMin(T \union {a})
<1>1. PICK x \in T : \A y \in T : x <= y
  BY DEF HasMin
<1>2. CASE x <= a
  BY <1>1, <1>2 DEF HasMin
<1>3. CASE a <= x
  BY <1>1, <1>3 DEF HasMin
<1> QED BY <1>1, <1>2, <1>3 DEF HasMin

\* Two, three or four numbers, the limits of a benchmark, have a least one.
LEMMA MinOfFew ==
    ASSUME NEW a \in Int, NEW b \in Int, NEW c \in Int, NEW d \in Int
    PROVE  HasMin({a, b}) /\ HasMin({a, b, c}) /\ HasMin({a, b, c, d})
<1>1. HasMin({a})
  BY DEF HasMin
<1>2. HasMin({a} \union {b})
  BY <1>1, MinAdd
<1>3. HasMin(({a} \union {b}) \union {c})
  BY <1>2, MinAdd
<1>4. HasMin((({a} \union {b}) \union {c}) \union {d})
  BY <1>3, MinAdd
<1>5. /\ {a} \union {b} = {a, b} /\ ({a} \union {b}) \union {c} = {a, b, c}
      /\ (({a} \union {b}) \union {c}) \union {d} = {a, b, c, d}
  OBVIOUS
<1> QED BY <1>2, <1>3, <1>4, <1>5

\* What a benchmark or a ramp issues fits its own limits and the table.
LEMMA IssuesFit ==
    ASSUME NEW s \in Steps, s.k \in {"bench", "ramp"}, Len(tab) \in Nat, Len(tab) <= MaxWl
    PROVE  /\ \A n \in Issues(s) : n \in Nat /\ n <= Most(s) /\ Len(tab) + n <= MaxWl
           /\ Max(Issues(s)) \in Issues(s)
           /\ ~Loose(s) /\ Len(tab) + Added(s) <= MaxWl => Issues(s) = {Added(s)}
<1> DEFINE room == MaxWl - Len(tab)
           T == Limits(s) \union {room}
           most == Min(T)
           low == Min({1, room})
<1>0. s.k \in Mints /\ s.cnt \in Nat /\ s.dur \in Nat /\ Added(s) \in Nat \ {0} /\ Most(s) \in Nat
  BY StepFacts DEF Mints
<1>1. room \in Nat /\ BenchCap \in Nat \ {0}
  BY WorkloadsAssumption
<1>2. StepOk(s)
  BY WorkloadsAssumption
<1>3. Limits(s) \subseteq Nat \ {0}
  BY <1>0, <1>1 DEF Limits
<1>4. HasMin(T)
  <2>0. s.dur + 1 \in Int /\ s.dur \in Int /\ s.cnt \in Int /\ BenchCap \in Int /\ room \in Int
    BY <1>0, <1>1
  <2>1. CASE s.k = "ramp"
    <3>1. T = {s.dur, room}
      BY <1>2, <2>1 DEF Limits, StepOk
    <3> QED BY <2>0, <3>1, MinOfFew
  <2>2. CASE s.k = "bench" /\ s.cnt = 0
    <3>1. T = {BenchCap, s.dur + 1, room}
      BY <1>2, <2>2 DEF Limits, StepOk
    <3>2. HasMin({BenchCap, s.dur + 1, room})
      BY <2>0, MinOfFew
    <3> QED BY <3>1, <3>2, Zenon
  <2>3. CASE s.k = "bench" /\ s.cnt # 0 /\ s.dur = 0
    <3>1. T = {BenchCap, s.cnt, room}
      BY <2>3 DEF Limits
    <3>2. HasMin({BenchCap, s.cnt, room})
      BY <2>0, MinOfFew
    <3> QED BY <3>1, <3>2, Zenon
  <2>4. CASE s.k = "bench" /\ s.cnt # 0 /\ s.dur # 0
    <3>1. T = {BenchCap, s.cnt, s.dur + 1, room}
      BY <2>4 DEF Limits
    <3>2. HasMin({BenchCap, s.cnt, s.dur + 1, room})
      BY <2>0, MinOfFew
    <3> QED BY <3>1, <3>2, Zenon
  <2> QED BY <2>1, <2>2, <2>3, <2>4
<1>5. most \in T /\ \A y \in T : most <= y
  BY <1>4, MinIn
<1>6. low \in {1, room} /\ low <= 1 /\ low <= room
  <2>1. HasMin({1, room})
    BY <1>1, MinOfFew
  <2> QED BY <2>1, MinIn
<1>7. Issues(s) = IF s.dur = 0 THEN {most} ELSE low..most
  BY DEF Issues
<1>8. \E y \in Limits(s) : y = Most(s)
  <2>1. CASE s.k = "ramp"
    BY <1>2, <2>1 DEF Limits, StepOk, Most, Added
  <2>2. CASE s.k = "bench"
    BY <1>2, <2>2 DEF Limits, StepOk, Most, Added
  <2> QED BY <2>1, <2>2
<1> HIDE DEF T, most, low
<1>9. most \in Nat /\ most <= room /\ most <= Most(s) /\ low <= most /\ low \in Nat
  <2>1. room \in T /\ Most(s) \in T
    BY <1>8 DEF T
  <2>2. \A y \in T : y \in Nat /\ (y = room \/ y >= 1)
    BY <1>1, <1>3 DEF T
  <2> QED BY <1>1, <1>5, <1>6, <2>1, <2>2
<1>10. \A n \in Issues(s) : n \in Nat /\ n <= most
  BY <1>7, <1>9
<1>11. most \in Issues(s)
  BY <1>7, <1>9
<1>12. Max(Issues(s)) \in Issues(s)
  BY <1>9, <1>10, <1>11 DEF Max
<1>13. ASSUME ~Loose(s), Len(tab) + Added(s) <= MaxWl PROVE Issues(s) = {Added(s)}
  <2>1. s.k = "bench" /\ s.dur = 0 /\ s.cnt = Added(s) /\ s.cnt <= BenchCap
    BY <1>0, <1>13, StepFacts
  <2>2. \A y \in T : s.cnt <= y
    <3>1. T = {BenchCap, s.cnt, room}
      BY <1>0, <2>1 DEF T, Limits
    <3>2. s.cnt <= room
      BY <1>0, <1>1, <1>13, <2>1, WorkloadsAssumption
    <3> QED BY <1>0, <2>1, <3>1, <3>2
  <2>3. s.cnt \in T
    BY <1>0, <2>1 DEF T, Limits
  <2>4. most = s.cnt
    BY <1>0, <1>5, <1>9, <2>2, <2>3
  <2> QED BY <1>7, <2>1, <2>4
<1>14. \A n \in Nat : n <= most => n <= Most(s) /\ Len(tab) + n <= MaxWl
  BY <1>0, <1>9, WorkloadsAssumption
<1> QED BY <1>10, <1>12, <1>13, <1>14

-----------------------------------------------------------------------------
Plain(f) == \A x \in DOMAIN f : ~Loose(f[x]) /\ ~Padded(f[x])

\* What the lint has made sure of a file: a name is new where it is minted,
\* and known where it is used.
Reads(f, y) ==
    /\ f[y].k \in Mints =>
           \A x \in 1..(y - 1) : f[x].k \in Mints =>
               /\ f[x].as # f[y].as
               /\ Counted(f[x]) => ~reg_member(f[x].as, Added(f[x]), f[y].as)
               /\ ~(f[y].k = "submit" /\ f[y].bare)
    /\ f[y].k \in Refs =>
           \E x \in 1..(y - 1) :
               /\ f[x].k \in Mints
               /\ \/ f[x].as = f[y].as
                  \/ Counted(f[x]) /\ reg_member(f[x].as, Added(f[x]), f[y].as)

Filed ==
    /\ file \in Seq(Steps) /\ Len(file) <= MaxLen
    /\ at \in 1..(Len(file) + 1) /\ pc \in {"lint", "run", "over"}
    /\ pc = "lint" => at = 1 /\ tab = <<>> /\ rbases = {} /\ hits = {}
    /\ verdict = "lint" => at = 1
    /\ verdict \in {"none", "lint", "skip", "sut", "pass"} \union Rules
    /\ (verdict = "none") <=> (pc # "over")

Registered ==
    /\ \A y \in 1..Len(file) : Reads(file, y)
    /\ \A x \in 1..Len(file) : file[x].k \in Mints =>
           /\ file[x].as \in names
           /\ Counted(file[x]) => <<file[x].as, Added(file[x])>> \in bases
    /\ \A nm \in names : \E x \in 1..Len(file) : file[x].k \in Mints /\ file[x].as = nm
    /\ \A b \in bases : \E x \in 1..Len(file) :
           file[x].k \in Mints /\ Counted(file[x]) /\ b = <<file[x].as, Added(file[x])>>

Cost(s) == IF s.k \in Mints THEN Added(s) ELSE 0

\* g sums up what the steps should mint.
Sums(f, g) ==
    /\ g \in [0..Len(f) -> Nat] /\ g[0] = 0
    /\ \A x \in 1..Len(f) : g[x] = g[x - 1] + Cost(f[x])
    /\ \A x, y \in 0..Len(f) : x <= y => g[x] <= g[y]

Budget ==
    /\ nentries \in 0..MaxWl
    /\ \E g : /\ Sums(file, g) /\ g[Len(file)] = nentries
              /\ pc = "run" /\ Plain(file) => Len(tab) = g[at - 1]

\* A name that step s mints.
Mintable(s, nm) ==
    IF Suffixed(s) THEN \E m \in 0..(Most(s) - 1) : nm = Member(s.as, m) ELSE nm = s.as

Entry == [name : Name, by : Nat]

Tabled ==
    /\ tab \in Seq(Entry) /\ Len(tab) <= MaxWl
    /\ \A t \in 1..Len(tab) :
           /\ tab[t].by \in 1..Len(file) /\ (pc = "run" => tab[t].by < at)
           /\ file[tab[t].by].k \in Mints /\ Mintable(file[tab[t].by], tab[t].name)

\* b is the base of step x, and has all that it minted.
BaseOf(b, x) ==
    /\ file[x].k \in Mints /\ Suffixed(file[x])
    /\ b[1] = file[x].as /\ b[2] \in 0..Most(file[x])
    /\ \A t \in 1..Len(tab) : tab[t].by = x => reg_member(b[1], b[2], tab[t].name)

Based == \A b \in rbases : \E x \in 1..Len(file) : x < at /\ BaseOf(b, x)

Complete ==
    pc = "run" /\ Plain(file) =>
        \A x \in 1..(at - 1) : file[x].k \in Mints =>
            IF Suffixed(file[x])
            THEN /\ <<file[x].as, Added(file[x])>> \in rbases
                 /\ \A m \in 0..(Added(file[x]) - 1) :
                        \E t \in 1..Len(tab) : tab[t].name = Member(file[x].as, m)
            ELSE \E t \in 1..Len(tab) : tab[t].name = file[x].as

Told ==
    /\ hits \subseteq 1..Len(tab)
    /\ Referred /\ hits # {} => hits = wl_resolve(file[at - 1].as)

Legal == Plain(file) => verdict \notin Rules

WInv == Filed /\ Registered /\ Budget /\ Tabled /\ Based /\ Complete /\ Told /\ Legal

\* Every step of the run is one of these.
MintsAll(n) ==
    /\ pc = "run" /\ at <= Len(file) /\ file[at].k \in Mints
    /\ n <= Most(file[at]) /\ Len(tab) + n <= MaxWl
    /\ Plain(file) => n = Added(file[at])
    /\ Mint(file[at], n) /\ Base(file[at], n)
    /\ at' = at + 1 /\ hits' = {}
    /\ UNCHANGED <<file, registry, pc, verdict>>
Tells ==
    /\ pc = "run" /\ at <= Len(file) /\ file[at].k \in Refs
    /\ hits' = wl_resolve(file[at].as) /\ hits' # {}
    /\ at' = at + 1
    /\ UNCHANGED <<file, registry, table, pc, verdict>>
Ends ==
    /\ pc # "over" /\ pc' = "over"
    /\ verdict' \in {"lint", "skip", "sut", "pass"}
    /\ (pc = "lint") <=> (verdict' = "lint")
    /\ verdict' # "sut" => UNCHANGED hits \/ hits' = {}
    /\ hits' \subseteq 1..Len(tab)
    /\ UNCHANGED <<file, registry, table, at>>
Breaks ==
    /\ pc = "run" /\ pc' = "over" /\ verdict' \in Rules /\ ~Plain(file)
    /\ hits' = {}
    /\ UNCHANGED <<file, registry, table, at>>
MintsSome(n) ==
    /\ pc = "run" /\ at <= Len(file) /\ file[at].k \in Mints
    /\ n <= Most(file[at]) /\ Len(tab) + n <= MaxWl
    /\ Mint(file[at], n)
    /\ pc' = "over" /\ verdict' = "sut" /\ hits' = {}
    /\ UNCHANGED <<file, registry, rbases, at>>

\* The step that runs is one of the file.
LEMMA AtStep ==
    ASSUME Filed, at <= Len(file)
    PROVE  at \in 1..Len(file) /\ Len(file) \in Nat /\ file[at] \in Steps
BY DEF Filed

\* What the lint has counted fits the table.
LEMMA Room ==
    ASSUME Filed, Budget, pc = "run", Plain(file), at <= Len(file), file[at].k \in Mints
    PROVE  Len(tab) + Added(file[at]) <= MaxWl
<1>1. PICK g : Sums(file, g) /\ g[Len(file)] = nentries /\ Len(tab) = g[at - 1]
  BY DEF Budget
<1>2. at \in 1..Len(file) /\ Len(file) \in Nat
  BY AtStep
<1>3. g[at] = g[at - 1] + Added(file[at])
  BY <1>1, <1>2 DEF Sums, Cost
<1>4. g[at] <= g[Len(file)]
  BY <1>1, <1>2 DEF Sums
<1>5. g[at] \in Nat /\ g[Len(file)] \in Nat
  BY <1>1, <1>2 DEF Sums
<1> QED BY <1>1, <1>3, <1>4, <1>5, WorkloadsAssumption DEF Budget

\* In a plain file the step that runs is plain.
LEMMA PlainAt ==
    ASSUME Filed, Plain(file), NEW x \in 1..Len(file)
    PROVE  file[x] \in Steps /\ ~Loose(file[x]) /\ ~Padded(file[x])
<1>1. x \in DOMAIN file
  BY DEF Filed
<1> QED BY <1>1 DEF Filed, Plain

\* In a plain file no rule is broken by a submit.
LEMMA NotBroken ==
    ASSUME WInv, pc = "run", Plain(file), at <= Len(file), file[at].k = "submit"
    PROVE  Broken(file[at]) = "none"
<1> DEFINE s == file[at]
<1>0. /\ Filed /\ Registered /\ Budget /\ Tabled /\ Based
      /\ at \in 1..Len(file) /\ Len(file) \in Nat /\ s \in Steps /\ s.k \in Mints
  BY AtStep DEF WInv, Mints
<1>1. \A x \in 1..(at - 1) : file[x].k \in Mints =>
          /\ file[x].as # s.as
          /\ Counted(file[x]) => ~reg_member(file[x].as, Added(file[x]), s.as)
          /\ ~s.bare
  BY <1>0 DEF Registered, Reads
<1>2. ASSUME NEW t \in 1..Len(tab)
      PROVE  /\ tab[t].by \in 1..(at - 1) /\ tab[t].by \in 1..Len(file)
             /\ file[tab[t].by].k \in Mints /\ Mintable(file[tab[t].by], tab[t].name)
  BY <1>0 DEF Tabled
<1>3. ~(s.bare /\ tab # <<>>)
  <2>1. ASSUME tab # <<>> PROVE 1 \in 1..Len(tab)
    BY <1>0, <2>1 DEF Tabled
  <2> QED BY <1>1, <1>2, <2>1
<1>4. ASSUME NEW t \in DOMAIN tab, tab[t].name = s.as PROVE FALSE
  <2>1. t \in 1..Len(tab)
    BY <1>0 DEF Tabled
  <2> DEFINE x == tab[t].by
  <2>2. x \in 1..(at - 1) /\ x \in 1..Len(file) /\ file[x].k \in Mints /\ Mintable(file[x], s.as)
    BY <1>2, <1>4, <2>1
  <2> HIDE DEF x
  <2>3. file[x] \in Steps /\ ~Loose(file[x])
    BY <1>0, <2>2, PlainAt
  <2>4. PICK m \in 0..(Most(file[x]) - 1) : Suffixed(file[x]) /\ s.as = Member(file[x].as, m)
    BY <1>1, <2>2 DEF Mintable
  <2>5. /\ file[x].as \in Name /\ Added(file[x]) \in Nat /\ Most(file[x]) = Added(file[x])
        /\ Counted(file[x])
    BY <2>2, <2>3, <2>4, StepFacts
  <2>6. m \in Nat /\ m < Added(file[x])
    BY <2>5
  <2>7. reg_member(file[x].as, Added(file[x]), s.as)
    <3>1. reg_member(file[x].as, Added(file[x]), Member(file[x].as, m))
      BY <2>5, <2>6, Members
    <3> QED BY <2>4, <3>1
  <2> QED BY <1>1, <2>2, <2>5, <2>7
<1>5. ASSUME NEW b \in rbases, b[1] = s.as PROVE FALSE
  <2>1. PICK x \in 1..Len(file) : x < at /\ BaseOf(b, x)
    BY <1>0 DEF Based
  <2>2. x \in 1..(at - 1)
    BY <1>0, <2>1
  <2> QED BY <1>1, <1>5, <2>1, <2>2 DEF BaseOf
<1>6. wl_resolve(s.as) = {}
  BY <1>4, <1>5 DEF wl_resolve
<1>7. ~(Added(s) + Len(tab) > MaxWl)
  <2>1. Len(tab) + Added(s) <= MaxWl
    BY <1>0, Room
  <2>2. Added(s) \in Nat /\ Len(tab) \in Nat
    BY <1>0, StepFacts DEF Tabled
  <2> QED BY <2>1, <2>2, WorkloadsAssumption
<1> QED BY <1>3, <1>6, <1>7 DEF Broken

\* In a plain file every name that is used is that of something minted.
LEMMA NameKnown ==
    ASSUME WInv, pc = "run", Plain(file), at <= Len(file), file[at].k \in Refs
    PROVE  wl_resolve(file[at].as) # {}
<1> DEFINE ref == file[at].as
<1>0. /\ Filed /\ Registered /\ Tabled /\ Complete
      /\ at \in 1..Len(file) /\ Len(file) \in Nat /\ file[at] \in Steps /\ ~Padded(file[at])
  BY AtStep, PlainAt DEF WInv
<1>1. PICK x \in 1..(at - 1) :
          /\ file[x].k \in Mints
          /\ \/ file[x].as = ref
             \/ Counted(file[x]) /\ reg_member(file[x].as, Added(file[x]), ref)
  BY <1>0 DEF Registered, Reads
<1>2. x \in 1..Len(file) /\ file[x] \in Steps /\ ~Loose(file[x])
  <2>1. x \in 1..Len(file)
    BY <1>0
  <2> QED BY <1>0, <2>1, PlainAt
<1>3. /\ file[x].as \in Name /\ Added(file[x]) \in Nat \ {0}
      /\ Counted(file[x]) => Suffixed(file[x])
  BY <1>1, <1>2, StepFacts
<1>4. IF Suffixed(file[x])
      THEN /\ <<file[x].as, Added(file[x])>> \in rbases
           /\ \A m \in 0..(Added(file[x]) - 1) :
                  \E t \in 1..Len(tab) : tab[t].name = Member(file[x].as, m)
      ELSE \E t \in 1..Len(tab) : tab[t].name = file[x].as
  BY <1>0, <1>1 DEF Complete
<1>5. DOMAIN tab = 1..Len(tab)
  BY <1>0 DEF Tabled
<1>6. CASE \E t \in 1..Len(tab) : tab[t].name = ref
  BY <1>5, <1>6 DEF wl_resolve
<1>7. CASE Suffixed(file[x]) /\ file[x].as = ref
  <2>1. 0 \in 0..(Added(file[x]) - 1) /\ 0 < Added(file[x])
    BY <1>3
  <2>2. PICK t \in 1..Len(tab) : tab[t].name = Member(file[x].as, 0)
    BY <1>4, <1>7, <2>1
  <2>3. reg_member(file[x].as, Added(file[x]), tab[t].name)
    BY <1>3, <2>1, <2>2, Members
  <2> DEFINE b == <<file[x].as, Added(file[x])>>
  <2>4. b \in rbases /\ b[1] = ref /\ reg_member(b[1], b[2], tab[t].name)
    BY <1>4, <1>7, <2>3
  <2> QED BY <1>5, <2>4 DEF wl_resolve
<1>8. CASE Suffixed(file[x]) /\ reg_member(file[x].as, Added(file[x]), ref)
  <2>1. ref \in Name
    BY <1>0, WorkloadsAssumption DEF StepOk
  <2>2. \A y \in DOMAIN ref.sfx : ref.sfx[y].pad = 0
    BY <1>0 DEF Padded
  <2>3. PICK m \in 0..(Added(file[x]) - 1) : ref = Member(file[x].as, m)
    BY <1>3, <1>8, <2>1, <2>2, Unpadded
  <2> QED BY <1>4, <1>6, <1>8, <2>3
<1> QED BY <1>1, <1>3, <1>4, <1>6, <1>7, <1>8

\* The steps of the run, told apart by what they do to the table.
LEMMA RunSteps ==
    ASSUME WInv,
           \/ Submit \/ Bench \/ Ramp \/ SubmitFails
           \/ Stop \/ Update \/ Condition \/ TellFails \/ Passed
    PROVE  \/ \E n \in Nat : MintsAll(n)
           \/ Tells \/ Ends \/ Breaks
           \/ \E n \in Nat : MintsSome(n)
<1>0. /\ Filed /\ Tabled /\ Budget /\ Len(tab) \in Nat /\ Len(tab) <= MaxWl
      /\ DOMAIN tab = 1..Len(tab)
  BY DEF WInv, Tabled
<1>1. CASE Submit
  <2> DEFINE s == file[at]
  <2>1. /\ pc = "run" /\ at <= Len(file) /\ s.k = "submit" /\ s.k \in Mints /\ s.k \notin {"bench", "ramp"}
        /\ hits' = {} /\ UNCHANGED <<file, registry>>
    BY <1>1 DEF Submit, Running, Mints
  <2>2. s \in Steps /\ Added(s) \in Nat /\ Added(s) <= Most(s)
    BY <1>0, <2>1, AtStep, StepFacts
  <2>3. CASE s.id
    <3>1. End("skip") /\ UNCHANGED <<table, at>>
      BY <1>1, <2>3 DEF Submit
    <3> QED BY <1>0, <2>1, <3>1 DEF Ends, End
  <2>4. CASE ~s.id /\ Broken(s) # "none"
    <3>1. End(Broken(s)) /\ UNCHANGED <<table, at>>
      BY <1>1, <2>4 DEF Submit
    <3>2. ~Plain(file)
      BY <2>1, <2>4, NotBroken
    <3>3. Broken(s) \in Rules
      BY <2>4 DEF Broken, Rules
    <3> QED BY <2>1, <3>1, <3>2, <3>3 DEF Breaks, End
  <2>5. CASE ~s.id /\ Broken(s) = "none"
    <3>1. /\ Mint(s, Added(s)) /\ Base(s, Added(s)) /\ at' = at + 1
          /\ UNCHANGED <<pc, verdict>>
      BY <1>1, <2>5 DEF Submit
    <3>2. ~(Added(s) + Len(tab) > MaxWl)
      BY <2>5 DEF Broken
    <3>3. Len(tab) + Added(s) <= MaxWl
      BY <1>0, <2>2, <3>2, WorkloadsAssumption
    <3>4. MintsAll(Added(s))
      BY <2>1, <2>2, <3>1, <3>3 DEF MintsAll
    <3> QED BY <2>2, <3>4
  <2> QED BY <2>3, <2>4, <2>5
<1>2. CASE Bench \/ Ramp
  <2> DEFINE s == file[at]
  <2>1. /\ pc = "run" /\ at <= Len(file) /\ s.k \in {"bench", "ramp"} /\ s.k \in Mints
        /\ hits' = {} /\ at' = at + 1 /\ UNCHANGED <<file, registry, pc, verdict>>
    BY <1>2 DEF Bench, Ramp, Issue, Running, Mints
  <2>2. PICK n \in Issues(s) : Mint(s, n) /\ Base(s, n)
    BY <1>2 DEF Bench, Ramp, Issue
  <2>3. s \in Steps
    BY <1>0, <2>1, AtStep
  <2>4. n \in Nat /\ n <= Most(s) /\ Len(tab) + n <= MaxWl
    BY <1>0, <2>1, <2>3, IssuesFit
  <2>5. ASSUME Plain(file) PROVE n = Added(s)
    <3>1. Len(tab) + Added(s) <= MaxWl
      BY <1>0, <2>1, <2>5, Room
    <3>2. ~Loose(s)
      BY <1>0, <2>1, <2>5, PlainAt, AtStep
    <3>3. Issues(s) = {Added(s)}
      BY <1>0, <2>1, <2>3, <3>1, <3>2, IssuesFit
    <3> QED BY <3>3
  <2>6. MintsAll(n)
    BY <2>1, <2>2, <2>4, <2>5 DEF MintsAll
  <2> QED BY <2>4, <2>6
<1>3. CASE SubmitFails
  <2> DEFINE s == file[at]
             most == IF s.k = "submit" THEN Added(s) ELSE Max(Issues(s))
  <2>1. /\ pc = "run" /\ at <= Len(file) /\ s.k \in Mints
        /\ hits' = {} /\ End("sut") /\ UNCHANGED <<file, registry, rbases, at>>
        /\ s.k = "submit" => Broken(s) = "none"
    BY <1>3 DEF SubmitFails, Running
  <2>2. PICK n \in 0..(most - 1) : Mint(s, n)
    BY <1>3 DEF SubmitFails
  <2>3. s \in Steps
    BY <1>0, <2>1, AtStep
  <2>4. most \in Nat /\ most <= Most(s) /\ Len(tab) + most <= MaxWl
    <3>1. CASE s.k = "submit"
      <4>1. Added(s) \in Nat /\ Added(s) <= Most(s)
        BY <2>1, <2>3, StepFacts
      <4>2. ~(Added(s) + Len(tab) > MaxWl)
        BY <2>1, <3>1 DEF Broken
      <4> QED BY <1>0, <3>1, <4>1, <4>2, WorkloadsAssumption
    <3>2. CASE s.k # "submit"
      <4>1. s.k \in {"bench", "ramp"}
        BY <2>1, <3>2 DEF Mints
      <4>2. Max(Issues(s)) \in Issues(s)
        BY <1>0, <2>3, <4>1, IssuesFit
      <4> QED BY <1>0, <2>3, <3>2, <4>1, <4>2, IssuesFit
    <3> QED BY <3>1, <3>2
  <2> HIDE DEF most
  <2>5. n \in Nat /\ n <= Most(s) /\ Len(tab) + n <= MaxWl
    <3>1. Most(s) \in Nat
      BY <2>1, <2>3, StepFacts
    <3> QED BY <1>0, <2>4, <3>1, WorkloadsAssumption
  <2>6. MintsSome(n)
    BY <2>1, <2>2, <2>5 DEF MintsSome, End
  <2> QED BY <2>5, <2>6
<1>4. CASE Stop \/ Update \/ Condition
  <2>1. /\ pc = "run" /\ at <= Len(file) /\ file[at].k \in Refs
        /\ hits' = wl_resolve(file[at].as) /\ UNCHANGED <<file, registry, table>>
        /\ IF hits' = {} THEN End("noref") /\ at' = at
           ELSE at' = at + 1 /\ UNCHANGED <<pc, verdict>>
    BY <1>4 DEF Stop, Update, Condition, Tell, Running, Refs
  <2>2. CASE hits' = {}
    <3>1. ~Plain(file)
      BY <2>1, <2>2, NameKnown
    <3> QED BY <2>1, <2>2, <3>1 DEF Breaks, End, Rules
  <2>3. CASE hits' # {}
    BY <2>1, <2>3 DEF Tells
  <2> QED BY <2>2, <2>3
<1>5. CASE TellFails
  <2>1. wl_resolve(file[at].as) \subseteq DOMAIN tab
    BY DEF wl_resolve
  <2> QED BY <1>0, <1>5, <2>1 DEF TellFails, Running, End, Ends
<1>6. CASE Passed
  BY <1>6 DEF Passed, End, Ends, WInv, Told
<1> QED BY <1>1, <1>2, <1>3, <1>4, <1>5, <1>6

\* What any step of the specification does, lint included.
LEMMA WlSteps ==
    ASSUME WInv, WlNext
    PROVE  \/ \E s \in Steps : Lint(s)
           \/ Linted
           \/ \E n \in Nat : MintsAll(n)
           \/ Tells \/ Ends \/ Breaks
           \/ \E n \in Nat : MintsSome(n)
<1>1. ASSUME NEW s \in Steps, LintFails(s) PROVE Ends
  BY <1>1 DEF LintFails, End, Ends, WInv, Told
<1> QED BY <1>1, RunSteps DEF WlNext

\* The table after a step has minted n more.
LEMMA MintedTab ==
    ASSUME Filed, Tabled, at <= Len(file), file[at].k \in Mints, NEW n \in Nat, Mint(file[at], n)
    PROVE  /\ tab' \in Seq(Entry) /\ Len(tab') = Len(tab) + n /\ Len(tab) \in Nat
           /\ \A t \in 1..Len(tab) : tab'[t] = tab[t]
           /\ \A m \in 1..n :
                  tab'[Len(tab) + m] =
                      [name |-> IF Suffixed(file[at]) THEN Member(file[at].as, m - 1)
                                                      ELSE file[at].as,
                       by |-> at]
<1> DEFINE e == [x \in 1..n |->
                    [name |-> IF Suffixed(file[at]) THEN Member(file[at].as, x - 1)
                                                    ELSE file[at].as,
                     by |-> at]]
<1>1. tab' = tab \o e /\ tab \in Seq(Entry)
  BY DEF Mint, Tabled
<1>2. at \in Nat /\ file[at].as \in Name
  BY AtStep, StepFacts
<1>3. e \in [1..n -> Entry]
  <2>1. ASSUME NEW x \in 1..n PROVE Member(file[at].as, x - 1) \in Name
    BY <1>2, Members
  <2> QED BY <1>2, <2>1 DEF Entry
<1>4. \A m \in 1..n : e[m] = [name |-> IF Suffixed(file[at]) THEN Member(file[at].as, m - 1)
                                                              ELSE file[at].as,
                              by |-> at]
  OBVIOUS
<1> HIDE DEF e
<1>5. /\ tab \o e \in Seq(Entry) /\ Len(tab \o e) = Len(tab) + n
      /\ \A t \in 1..Len(tab) : (tab \o e)[t] = tab[t]
      /\ \A m \in 1..n : (tab \o e)[Len(tab) + m] = e[m]
  <2>1. ASSUME NEW R, NEW q \in Seq(R), NEW d \in [1..n -> R]
        PROVE  /\ q \o d \in Seq(R) /\ Len(q \o d) = Len(q) + n
               /\ \A t \in 1..Len(q) : (q \o d)[t] = q[t]
               /\ \A m \in 1..n : (q \o d)[Len(q) + m] = d[m]
    BY Joined
  <2> HIDE DEF Entry
  <2> QED BY <1>1, <1>3, <2>1
<1> QED BY <1>1, <1>4, <1>5

\* Every step keeps the file one of known steps.
LEMMA FiledStep == WInv /\ [WlNext]_wlVars => Filed'
<1> SUFFICES ASSUME WInv, [WlNext]_wlVars PROVE Filed'
  OBVIOUS
<1>0. Filed /\ file \in Seq(Steps) /\ Len(file) \in Nat
  BY DEF WInv, Filed
<1>1. CASE UNCHANGED wlVars
  BY <1>0, <1>1 DEF wlVars, registry, table, Filed
<1>2. ASSUME NEW s \in Steps, Lint(s) PROVE Filed'
  <2>1. /\ pc = "lint" /\ Len(file) < MaxLen /\ file' = Append(file, s)
        /\ UNCHANGED <<tab, rbases, hits, pc, at, verdict>>
    BY <1>2 DEF Lint, table
  <2>2. file' \in Seq(Steps) /\ Len(file') = Len(file) + 1
    BY <1>0, <2>1
  <2> QED BY <1>0, <2>1, <2>2, WorkloadsAssumption DEF Filed
<1>3. CASE Linted
  BY <1>0, <1>3 DEF Linted, Filed, table
<1>4. ASSUME NEW n \in Nat, MintsAll(n) PROVE Filed'
  <2>1. at' \in 1..(Len(file) + 1) /\ at' # 1
    BY <1>0, <1>4 DEF MintsAll, Filed
  <2> QED BY <1>0, <1>4, <2>1 DEF MintsAll, Filed
<1>5. CASE Tells
  <2>1. at' \in 1..(Len(file) + 1)
    BY <1>0, <1>5 DEF Tells, Filed
  <2> QED BY <1>0, <1>5, <2>1 DEF Tells, Filed
<1>6. CASE Ends
  BY <1>0, <1>6 DEF Ends, Filed, Rules
<1>7. CASE Breaks
  BY <1>0, <1>7 DEF Breaks, Filed, Rules
<1>8. ASSUME NEW n \in Nat, MintsSome(n) PROVE Filed'
  BY <1>0, <1>8 DEF MintsSome, Filed, Rules
<1> QED BY <1>1, <1>2, <1>3, <1>4, <1>5, <1>6, <1>7, <1>8, WlSteps

\* The registry is what the file read so far mints.
LEMMA RegisteredStep == WInv /\ [WlNext]_wlVars => Registered'
<1> SUFFICES ASSUME WInv, [WlNext]_wlVars PROVE Registered'
  OBVIOUS
<1>0. Filed /\ Registered /\ file \in Seq(Steps) /\ Len(file) \in Nat
  BY DEF WInv, Filed
<1>1. CASE UNCHANGED <<file, registry>>
  BY <1>0, <1>1 DEF registry, Registered, Reads
<1>2. ASSUME NEW s \in Steps, Lint(s) PROVE Registered'
  <2> DEFINE z == Len(file) + 1
  <2>1. /\ LintOk(s) /\ file' = Append(file, s)
        /\ IF s.k \in Mints
           THEN /\ names' = names \union {s.as}
                /\ bases' = IF Counted(s) THEN bases \union {<<s.as, Added(s)>>} ELSE bases
           ELSE UNCHANGED <<names, bases>>
    BY <1>2 DEF Lint, registry
  <2>2. Len(file') = z /\ file'[z] = s /\ \A x \in 1..Len(file) : file'[x] = file[x]
    BY <1>0, <2>1
  <2>3. \A x \in 1..z : x \in 1..Len(file) \/ x = z
    BY <1>0
  <2>4. \A x \in 1..Len(file) : x \in 1..z
    BY <1>0
  <2>5. z \in 1..z /\ 1..(z - 1) = 1..Len(file)
    BY <1>0
  <2>6. ASSUME NEW y \in 1..Len(file) PROVE Reads(file', y)
    <3>1. Reads(file, y) /\ file'[y] = file[y]
      BY <1>0, <2>2 DEF Registered
    <3>2. \A x \in 1..(y - 1) : file'[x] = file[x]
      BY <1>0, <2>2
    <3> QED BY <3>1, <3>2 DEF Reads
  <2>7. Reads(file', z)
    <3>1. ASSUME s.k \in Mints, NEW x \in 1..Len(file), file[x].k \in Mints
          PROVE  /\ file[x].as # s.as
                 /\ Counted(file[x]) => ~reg_member(file[x].as, Added(file[x]), s.as)
                 /\ ~(s.k = "submit" /\ s.bare)
      <4>1. ~reg_has(s.as) /\ ~(s.k = "submit" /\ s.bare /\ names # {})
        BY <2>1, <3>1 DEF LintOk
      <4>2. file[x].as \in names /\ (Counted(file[x]) => <<file[x].as, Added(file[x])>> \in bases)
        BY <1>0, <3>1 DEF Registered
      <4>3. file[x].as # s.as
        BY <4>1, <4>2 DEF reg_has
      <4>4. ASSUME Counted(file[x]) PROVE ~reg_member(file[x].as, Added(file[x]), s.as)
        <5> DEFINE b == <<file[x].as, Added(file[x])>>
        <5>1. b \in bases /\ b[1] = file[x].as /\ b[2] = Added(file[x])
          BY <4>2, <4>4
        <5> HIDE DEF b
        <5>2. ~reg_member(b[1], b[2], s.as)
          BY <4>1, <5>1 DEF reg_has
        <5> QED BY <5>1, <5>2
      <4> QED BY <4>1, <4>2, <4>3, <4>4
    <3>2. ASSUME s.k \in Refs
          PROVE  \E x \in 1..Len(file) :
                     /\ file[x].k \in Mints
                     /\ \/ file[x].as = s.as
                        \/ Counted(file[x]) /\ reg_member(file[x].as, Added(file[x]), s.as)
      <4>1. reg_has(s.as)
        BY <2>1, <3>2 DEF LintOk, Refs, Mints
      <4>2. CASE s.as \in names
        BY <1>0, <4>2 DEF Registered
      <4>3. ASSUME NEW b \in bases, b[1] = s.as \/ reg_member(b[1], b[2], s.as)
            PROVE  \E x \in 1..Len(file) :
                     /\ file[x].k \in Mints
                     /\ \/ file[x].as = s.as
                        \/ Counted(file[x]) /\ reg_member(file[x].as, Added(file[x]), s.as)
        <5>1. PICK x \in 1..Len(file) :
                  file[x].k \in Mints /\ Counted(file[x]) /\ b = <<file[x].as, Added(file[x])>>
          BY <1>0 DEF Registered
        <5>2. b[1] = file[x].as /\ b[2] = Added(file[x])
          BY <5>1
        <5> QED BY <4>3, <5>1, <5>2
      <4> QED BY <4>1, <4>2, <4>3 DEF reg_has
    <3> QED BY <2>2, <2>5, <3>1, <3>2 DEF Reads
  <2>8. ASSUME NEW x \in 1..z, file'[x].k \in Mints
        PROVE  /\ file'[x].as \in names'
               /\ Counted(file'[x]) => <<file'[x].as, Added(file'[x])>> \in bases'
    <3>1. CASE x = z
      BY <2>1, <2>2, <2>8, <3>1
    <3>2. CASE x \in 1..Len(file)
      <4>1. /\ file[x].as \in names
            /\ Counted(file[x]) => <<file[x].as, Added(file[x])>> \in bases
        BY <1>0, <2>2, <2>8, <3>2 DEF Registered
      <4>2. names \subseteq names' /\ bases \subseteq bases'
        BY <2>1
      <4> QED BY <2>2, <3>2, <4>1, <4>2
    <3> QED BY <2>3, <3>1, <3>2
  <2>9. ASSUME NEW nm \in names' PROVE \E x \in 1..z : file'[x].k \in Mints /\ file'[x].as = nm
    <3>1. CASE nm \in names
      <4>1. PICK x \in 1..Len(file) : file[x].k \in Mints /\ file[x].as = nm
        BY <1>0, <3>1 DEF Registered
      <4> QED BY <2>2, <2>4, <4>1
    <3>2. CASE s.k \in Mints /\ nm = s.as
      BY <2>2, <2>5, <3>2
    <3> QED BY <2>1, <3>1, <3>2
  <2>10. ASSUME NEW b \in bases'
         PROVE  \E x \in 1..z : /\ file'[x].k \in Mints /\ Counted(file'[x])
                                /\ b = <<file'[x].as, Added(file'[x])>>
    <3>1. CASE b \in bases
      <4>1. PICK x \in 1..Len(file) :
                file[x].k \in Mints /\ Counted(file[x]) /\ b = <<file[x].as, Added(file[x])>>
        BY <1>0, <3>1 DEF Registered
      <4> QED BY <2>2, <2>4, <4>1
    <3>2. CASE s.k \in Mints /\ Counted(s) /\ b = <<s.as, Added(s)>>
      BY <2>2, <2>5, <3>2
    <3> QED BY <2>1, <3>1, <3>2
  <2>11. \A y \in 1..z : Reads(file', y)
    BY <2>3, <2>6, <2>7
  <2> HIDE DEF z
  <2> QED BY <2>2, <2>8, <2>9, <2>10, <2>11 DEF Registered, Reads
<1> QED BY <1>1, <1>2, WlSteps
        DEF Linted, MintsAll, Tells, Ends, Breaks, MintsSome, wlVars

\* The sums go on with the file, and the table of a plain file follows them.
LEMMA BudgetStep == WInv /\ [WlNext]_wlVars => Budget'
<1> SUFFICES ASSUME WInv, [WlNext]_wlVars PROVE Budget'
  OBVIOUS
<1>0. /\ Filed /\ Tabled /\ file \in Seq(Steps) /\ Len(file) \in Nat /\ nentries \in 0..MaxWl
      /\ at \in 1..(Len(file) + 1)
  BY DEF WInv, Filed, Budget
<1>1. PICK g : /\ Sums(file, g) /\ g[Len(file)] = nentries
               /\ pc = "run" /\ Plain(file) => Len(tab) = g[at - 1]
  BY DEF WInv, Budget
<1>2. CASE UNCHANGED wlVars
  BY <1>0, <1>1, <1>2 DEF wlVars, registry, table, Budget
<1>3. ASSUME NEW s \in Steps, Lint(s) PROVE Budget'
  <2> DEFINE z == Len(file) + 1
             h == [x \in 0..z |-> IF x = z THEN g[Len(file)] + Cost(s) ELSE g[x]]
  <2>1. /\ pc = "lint" /\ pc' = "lint" /\ LintOk(s) /\ file' = Append(file, s)
        /\ nentries' = nentries + Cost(s)
    BY <1>0, <1>3 DEF Lint, Cost, registry
  <2>2. Cost(s) \in Nat /\ nentries + Cost(s) <= MaxWl
    <3>1. CASE s.k \in Mints
      BY <2>1, <3>1, StepFacts DEF LintOk, Cost
    <3>2. CASE s.k \notin Mints
      BY <1>0, <3>2, WorkloadsAssumption DEF Cost
    <3> QED BY <3>1, <3>2
  <2>3. Len(file') = z /\ file'[z] = s /\ (\A x \in 1..Len(file) : file'[x] = file[x]) /\ z \in Nat
    BY <1>0, <2>1
  <2>4. /\ g \in [0..Len(file) -> Nat] /\ g[0] = 0
        /\ \A x \in 1..Len(file) : g[x] = g[x - 1] + Cost(file[x])
        /\ \A x, y \in 0..Len(file) : x <= y => g[x] <= g[y]
    BY <1>1 DEF Sums
  <2>5. h[z] = g[Len(file)] + Cost(s) /\ \A x \in 0..Len(file) : h[x] = g[x]
    BY <1>0
  <2>6. /\ g[Len(file)] \in Nat /\ h[z] \in Nat /\ \A x \in 0..Len(file) : g[x] \in Nat
    <3>1. Len(file) \in 0..Len(file)
      BY <1>0
    <3>2. g[Len(file)] \in Nat
      BY <2>4, <3>1
    <3> QED BY <2>2, <2>4, <2>5, <3>2
  <2>7. h \in [0..z -> Nat]
    BY <1>0, <2>2, <2>4, <2>6
  <2> HIDE DEF h
  <2>8. h[0] = 0
    BY <1>0, <2>4, <2>5
  <2>9. ASSUME NEW x \in 1..z PROVE h[x] = h[x - 1] + Cost(file'[x])
    <3>1. CASE x = z
      BY <1>0, <2>3, <2>5, <3>1
    <3>2. CASE x # z
      <4>1. x \in 1..Len(file) /\ x - 1 \in 0..Len(file) /\ x \in 0..Len(file)
        BY <1>0, <3>2
      <4> QED BY <2>3, <2>4, <2>5, <4>1
    <3> QED BY <3>1, <3>2
  <2>10. ASSUME NEW x \in 0..z, NEW y \in 0..z, x <= y PROVE h[x] <= h[y]
    <3>1. CASE y # z
      <4>1. x \in 0..Len(file) /\ y \in 0..Len(file)
        BY <1>0, <2>10, <3>1
      <4> QED BY <2>4, <2>5, <2>10, <4>1
    <3>2. CASE y = z /\ x # z
      <4>1. x \in 0..Len(file) /\ Len(file) \in 0..Len(file) /\ x <= Len(file)
        BY <1>0, <3>2
      <4>2. g[x] <= g[Len(file)]
        BY <2>4, <4>1
      <4> QED BY <2>2, <2>5, <2>6, <3>2, <4>1, <4>2
    <3>3. CASE y = z /\ x = z
      BY <2>6, <3>3
    <3> QED BY <3>1, <3>2, <3>3
  <2>11. Sums(file', h) /\ h[Len(file')] = nentries'
    BY <1>1, <2>1, <2>3, <2>5, <2>7, <2>8, <2>9, <2>10 DEF Sums
  <2>12. nentries' \in 0..MaxWl
    BY <1>0, <2>1, <2>2, WorkloadsAssumption
  <2> QED BY <2>1, <2>11, <2>12 DEF Budget
<1>4. CASE Linted
  <2>1. UNCHANGED <<file, nentries, tab, at>> /\ at = 1 /\ tab = <<>>
    BY <1>0, <1>4 DEF Linted, Filed, registry, table
  <2>2. Len(tab) = 0 /\ at - 1 = 0 /\ g[0] = 0
    BY <1>1, <2>1 DEF Sums
  <2>3. Len(tab) = g[at - 1]
    BY <2>2
  <2> QED BY <1>0, <1>1, <2>1, <2>3 DEF Budget
<1>5. ASSUME at \in 1..Len(file), pc = "run", UNCHANGED <<file, nentries, pc>>, at' = at + 1,
             Plain(file) => Len(tab') = Len(tab) + Cost(file[at])
      PROVE  Budget'
  <2>1. g[at] = g[at - 1] + Cost(file[at])
    BY <1>1, <1>5 DEF Sums
  <2>2. (at + 1) - 1 = at
    BY <1>5
  <2>3. Plain(file) => Len(tab') = g[at' - 1]
    BY <1>1, <1>5, <2>1, <2>2
  <2> QED BY <1>0, <1>1, <1>5, <2>3 DEF Budget
<1>6. ASSUME NEW n \in Nat, MintsAll(n) PROVE Budget'
  <2>1. Len(tab') = Len(tab) + n
    BY <1>0, <1>6, MintedTab DEF MintsAll
  <2>2. at \in 1..Len(file)
    BY <1>0, <1>6, AtStep DEF MintsAll
  <2> QED BY <1>5, <1>6, <2>1, <2>2 DEF MintsAll, Cost, registry
<1>7. CASE Tells
  <2>1. at \in 1..Len(file)
    BY <1>0, <1>7, AtStep DEF Tells
  <2>2. file[at].k \notin Mints
    BY <1>7 DEF Tells, Refs, Mints
  <2>3. Len(tab') = Len(tab) + Cost(file[at])
    BY <1>0, <1>7, <2>2 DEF Tells, Cost, table, Tabled
  <2> QED BY <1>5, <1>7, <2>1, <2>3 DEF Tells, registry
<1>8. ASSUME UNCHANGED <<file, nentries>>, pc' = "over" PROVE Budget'
  BY <1>0, <1>1, <1>8 DEF Budget
<1> QED BY <1>2, <1>3, <1>4, <1>6, <1>7, <1>8, WlSteps DEF Ends, Breaks, MintsSome, registry

\* An entry is of the step that it names.
LEMMA TabledStep == WInv /\ Filed' /\ [WlNext]_wlVars => Tabled'
<1> SUFFICES ASSUME WInv, Filed', [WlNext]_wlVars PROVE Tabled'
  OBVIOUS
<1>0. /\ Filed /\ Tabled /\ file \in Seq(Steps) /\ Len(file) \in Nat
      /\ at \in 1..(Len(file) + 1) /\ Len(tab) \in Nat
  BY DEF WInv, Filed, Tabled
<1>1. CASE UNCHANGED wlVars
  BY <1>0, <1>1 DEF wlVars, table, Tabled, Mintable
<1>2. CASE pc' = "lint"
  BY <1>2, WorkloadsAssumption DEF Filed, Tabled
<1>3. ASSUME NEW s \in Steps, Lint(s) PROVE pc' = "lint"
  BY <1>3 DEF Lint
<1>4. CASE Linted
  <2>1. tab' = <<>>
    BY <1>0, <1>4 DEF Linted, Filed, table
  <2> QED BY <2>1, WorkloadsAssumption DEF Tabled
<1>5. ASSUME UNCHANGED <<file, tab>>, pc' = "over" \/ (pc' = pc /\ at' = at + 1) PROVE Tabled'
  <2>1. ASSUME NEW t \in 1..Len(tab)
        PROVE  /\ tab'[t].by \in 1..Len(file') /\ (pc' = "run" => tab'[t].by < at')
               /\ file'[tab'[t].by].k \in Mints /\ Mintable(file'[tab'[t].by], tab'[t].name)
    <3>1. /\ tab[t].by \in 1..Len(file) /\ (pc = "run" => tab[t].by < at)
          /\ file[tab[t].by].k \in Mints /\ Mintable(file[tab[t].by], tab[t].name)
      BY <1>0 DEF Tabled
    <3>2. pc' = "run" => tab[t].by < at'
      BY <1>0, <1>5, <3>1
    <3> QED BY <1>5, <3>1, <3>2
  <2> QED BY <1>0, <1>5, <2>1 DEF Tabled, Mintable
<1>6. ASSUME NEW n \in Nat, MintsAll(n) \/ MintsSome(n) PROVE Tabled'
  <2> DEFINE s == file[at]
  <2>1. /\ at <= Len(file) /\ s.k \in Mints /\ n <= Most(s) /\ Len(tab) + n <= MaxWl
        /\ Mint(s, n) /\ file' = file /\ (pc' = "run" => at' = at + 1) /\ pc = "run"
    BY <1>6 DEF MintsAll, MintsSome
  <2>2. at \in 1..Len(file) /\ s \in Steps /\ Most(s) \in Nat
    BY <1>0, <2>1, AtStep, StepFacts
  <2>3. /\ tab' \in Seq(Entry) /\ Len(tab') = Len(tab) + n
        /\ \A t \in 1..Len(tab) : tab'[t] = tab[t]
        /\ \A m \in 1..n :
               tab'[Len(tab) + m] =
                   [name |-> IF Suffixed(s) THEN Member(s.as, m - 1) ELSE s.as, by |-> at]
    BY <1>0, <2>1, MintedTab
  <2>4. ASSUME NEW t \in 1..Len(tab')
        PROVE  /\ tab'[t].by \in 1..Len(file) /\ (pc' = "run" => tab'[t].by < at')
               /\ file[tab'[t].by].k \in Mints /\ Mintable(file[tab'[t].by], tab'[t].name)
    <3>1. CASE t \in 1..Len(tab)
      <4>1. /\ tab[t].by \in 1..Len(file) /\ tab[t].by < at
            /\ file[tab[t].by].k \in Mints /\ Mintable(file[tab[t].by], tab[t].name)
        BY <1>0, <2>1, <3>1 DEF Tabled
      <4>2. pc' = "run" => tab[t].by < at'
        BY <1>0, <2>1, <4>1
      <4> QED BY <2>3, <3>1, <4>1, <4>2
    <3>2. CASE t \notin 1..Len(tab)
      <4>1. PICK m \in 1..n : t = Len(tab) + m
        <5>1. t - Len(tab) \in 1..n /\ t = Len(tab) + (t - Len(tab))
          BY <1>0, <2>3, <3>2
        <5> QED BY <5>1
      <4>2. tab'[t].by = at /\ tab'[t].name = IF Suffixed(s) THEN Member(s.as, m - 1) ELSE s.as
        <5>1. tab'[t] = [name |-> IF Suffixed(s) THEN Member(s.as, m - 1) ELSE s.as, by |-> at]
          BY <2>3, <4>1
        <5> QED BY <5>1
      <4>3. m - 1 \in 0..(Most(s) - 1)
        BY <2>1, <2>2
      <4>4. Mintable(s, tab'[t].name)
        BY <4>2, <4>3 DEF Mintable
      <4>5. pc' = "run" => at < at'
        BY <2>1, <2>2
      <4> QED BY <2>1, <2>2, <4>2, <4>4, <4>5
    <3> QED BY <3>1, <3>2
  <2> QED BY <2>1, <2>3, <2>4 DEF Tabled, Mintable
<1> QED BY <1>1, <1>2, <1>3, <1>4, <1>5, <1>6, WlSteps DEF Tells, Ends, Breaks, table

\* A base has all that its step has minted.
LEMMA BasedStep == WInv /\ Filed' /\ [WlNext]_wlVars => Based'
<1> SUFFICES ASSUME WInv, Filed', [WlNext]_wlVars PROVE Based'
  OBVIOUS
<1>0. /\ Filed /\ Tabled /\ Based /\ Len(file) \in Nat
      /\ at \in 1..(Len(file) + 1) /\ Len(tab) \in Nat
  BY DEF WInv, Filed, Tabled
<1>1. CASE UNCHANGED wlVars
  BY <1>0, <1>1 DEF wlVars, table, Based, BaseOf
<1>2. CASE pc' = "lint"
  BY <1>2 DEF Filed, Based
<1>3. ASSUME NEW s \in Steps, Lint(s) PROVE pc' = "lint"
  BY <1>3 DEF Lint
<1>4. ASSUME UNCHANGED <<file, tab, rbases>>, at' = at \/ at' = at + 1 PROVE Based'
  <2>1. \A x \in 1..Len(file) : x < at => x < at'
    BY <1>0, <1>4
  <2> QED BY <1>0, <1>4, <2>1 DEF Based, BaseOf
<1>5. ASSUME NEW n \in Nat, MintsAll(n) \/ MintsSome(n) PROVE Based'
  <2> DEFINE s == file[at]
  <2>1. /\ at <= Len(file) /\ s.k \in Mints /\ n <= Most(s) /\ pc = "run"
        /\ Mint(s, n) /\ file' = file /\ at' \in {at, at + 1}
        /\ rbases' = rbases \/ (at' = at + 1 /\ Suffixed(s) /\ rbases' = rbases \union {<<s.as, n>>})
    BY <1>5 DEF MintsAll, MintsSome, Base
  <2>2. at \in 1..Len(file) /\ s \in Steps /\ Most(s) \in Nat /\ s.as \in Name
    BY <1>0, <2>1, AtStep, StepFacts
  <2>3. /\ Len(tab') = Len(tab) + n
        /\ \A t \in 1..Len(tab) : tab'[t] = tab[t]
        /\ \A m \in 1..n :
               tab'[Len(tab) + m] =
                   [name |-> IF Suffixed(s) THEN Member(s.as, m - 1) ELSE s.as, by |-> at]
    BY <1>0, <2>1, MintedTab
  <2>4. ASSUME NEW t \in 1..Len(tab'), t \notin 1..Len(tab)
        PROVE  /\ tab'[t].by = at
               /\ Suffixed(s) => \E m \in 1..n : tab'[t].name = Member(s.as, m - 1)
    <3>1. PICK m \in 1..n : t = Len(tab) + m
      <4>1. t - Len(tab) \in 1..n /\ t = Len(tab) + (t - Len(tab))
        BY <1>0, <2>3, <2>4
      <4> QED BY <4>1
    <3>2. tab'[t] = [name |-> IF Suffixed(s) THEN Member(s.as, m - 1) ELSE s.as, by |-> at]
      BY <2>3, <3>1
    <3> QED BY <3>2
  <2>5. ASSUME NEW b \in rbases
        PROVE  \E x \in 1..Len(file) :
                   /\ x < at' /\ file[x].k \in Mints /\ Suffixed(file[x])
                   /\ b[1] = file[x].as /\ b[2] \in 0..Most(file[x])
                   /\ \A t \in 1..Len(tab') : tab'[t].by = x => reg_member(b[1], b[2], tab'[t].name)
    <3>1. PICK x \in 1..Len(file) : x < at /\ BaseOf(b, x)
      BY <1>0 DEF Based
    <3>2. x < at' /\ x # at
      BY <1>0, <2>1, <3>1
    <3>3. ASSUME NEW t \in 1..Len(tab'), tab'[t].by = x PROVE reg_member(b[1], b[2], tab'[t].name)
      <4>1. t \in 1..Len(tab)
        BY <2>4, <3>2, <3>3
      <4> QED BY <2>3, <3>1, <3>3, <4>1 DEF BaseOf
    <3> QED BY <3>1, <3>2, <3>3 DEF BaseOf
  <2>6. ASSUME at' = at + 1, Suffixed(s), NEW b, b = <<s.as, n>>
        PROVE  \E x \in 1..Len(file) :
                   /\ x < at' /\ file[x].k \in Mints /\ Suffixed(file[x])
                   /\ b[1] = file[x].as /\ b[2] \in 0..Most(file[x])
                   /\ \A t \in 1..Len(tab') : tab'[t].by = x => reg_member(b[1], b[2], tab'[t].name)
    <3>1. b[1] = s.as /\ b[2] = n
      BY <2>6
    <3>2. at < at' /\ n \in 0..Most(s)
      BY <2>1, <2>2, <2>6
    <3>3. ASSUME NEW t \in 1..Len(tab'), tab'[t].by = at PROVE reg_member(s.as, n, tab'[t].name)
      <4>1. t \notin 1..Len(tab)
        <5>1. ASSUME t \in 1..Len(tab) PROVE FALSE
          <6>1. tab[t].by < at /\ tab[t].by \in Int
            BY <1>0, <2>1, <5>1 DEF Tabled
          <6> QED BY <1>0, <2>3, <3>3, <5>1, <6>1
        <5> QED BY <5>1
      <4>2. PICK m \in 1..n : tab'[t].name = Member(s.as, m - 1)
        BY <2>4, <2>6, <4>1
      <4>3. m - 1 \in Nat /\ m - 1 < n
        OBVIOUS
      <4>4. reg_member(s.as, n, Member(s.as, m - 1))
        BY <2>2, <4>3, Members
      <4> QED BY <4>2, <4>4
    <3> QED BY <2>1, <2>2, <2>6, <3>1, <3>2, <3>3
  <2>7. \A b \in rbases' : b \in rbases \/ (at' = at + 1 /\ Suffixed(s) /\ b = <<s.as, n>>)
    BY <2>1
  <2>8. \A b \in rbases' :
            \E x \in 1..Len(file) :
                /\ x < at' /\ file[x].k \in Mints /\ Suffixed(file[x])
                /\ b[1] = file[x].as /\ b[2] \in 0..Most(file[x])
                /\ \A t \in 1..Len(tab') : tab'[t].by = x => reg_member(b[1], b[2], tab'[t].name)
    BY <2>5, <2>6, <2>7
  <2> QED BY <2>1, <2>8 DEF Based, BaseOf
<1> QED BY <1>1, <1>2, <1>3, <1>4, <1>5, WlSteps DEF Linted, Tells, Ends, Breaks, table

\* In a plain file, what the lint has registered is what the table has.
LEMMA CompleteStep == WInv /\ Filed' /\ [WlNext]_wlVars => Complete'
<1> SUFFICES ASSUME WInv, Filed', [WlNext]_wlVars PROVE Complete'
  OBVIOUS
<1>0. /\ Filed /\ Tabled /\ Complete /\ Len(file) \in Nat
      /\ at \in 1..(Len(file) + 1) /\ Len(tab) \in Nat
  BY DEF WInv, Filed, Tabled
<1>1. CASE UNCHANGED wlVars
  BY <1>0, <1>1 DEF wlVars, table, Complete
<1>2. CASE pc' # "run"
  BY <1>2 DEF Complete
<1>3. ASSUME NEW s \in Steps, Lint(s) PROVE pc' # "run"
  BY <1>3 DEF Lint
<1>4. CASE Linted
  <2>1. at' = 1 /\ \A x \in 1..(1 - 1) : FALSE
    BY <1>0, <1>4 DEF Linted, Filed
  <2> QED BY <2>1 DEF Complete
<1>5. CASE Tells
  <2>1. \A x \in 1..(at' - 1) : x \in 1..(at - 1) \/ x = at
    BY <1>0, <1>5 DEF Tells
  <2>2. file[at].k \notin Mints
    BY <1>5 DEF Tells, Refs, Mints
  <2>3. UNCHANGED <<file, tab, rbases, pc>>
    BY <1>5 DEF Tells, table
  <2> QED BY <1>0, <2>1, <2>2, <2>3 DEF Complete
<1>6. ASSUME NEW n \in Nat, MintsAll(n) PROVE Complete'
  <2> DEFINE s == file[at]
  <2> SUFFICES ASSUME Plain(file), NEW x \in 1..(at' - 1), file[x].k \in Mints
               PROVE  IF Suffixed(file[x])
                      THEN /\ <<file[x].as, Added(file[x])>> \in rbases'
                           /\ \A m \in 0..(Added(file[x]) - 1) :
                                  \E t \in 1..Len(tab') : tab'[t].name = Member(file[x].as, m)
                      ELSE \E t \in 1..Len(tab') : tab'[t].name = file[x].as
    BY <1>6 DEF MintsAll, Complete
  <2>1. /\ at <= Len(file) /\ s.k \in Mints /\ n = Added(s) /\ pc = "run" /\ at' = at + 1
        /\ Mint(s, n) /\ Base(s, n)
    BY <1>6 DEF MintsAll
  <2>2. at \in 1..Len(file) /\ s \in Steps /\ ~Loose(s) /\ n \in Nat \ {0} /\ (Suffixed(s) => n > 1)
    <3>1. at \in 1..Len(file) /\ s \in Steps /\ ~Loose(s)
      BY <1>0, <2>1, AtStep, PlainAt
    <3> QED BY <2>1, <3>1, StepFacts
  <2>3. /\ Len(tab') = Len(tab) + n
        /\ \A t \in 1..Len(tab) : tab'[t] = tab[t]
        /\ \A m \in 1..n :
               tab'[Len(tab) + m] =
                   [name |-> IF Suffixed(s) THEN Member(s.as, m - 1) ELSE s.as, by |-> at]
    BY <1>0, <2>1, MintedTab
  <2>4. CASE x = at
    <3>1. CASE Suffixed(s)
      <4>1. <<s.as, n>> \in rbases'
        BY <2>1, <2>2, <3>1 DEF Base
      <4>2. ASSUME NEW m \in 0..(n - 1)
            PROVE  \E t \in 1..Len(tab') : tab'[t].name = Member(s.as, m)
        <5>1. m + 1 \in 1..n /\ (m + 1) - 1 = m
          BY <2>2
        <5>2. tab'[Len(tab) + (m + 1)] = [name |-> Member(s.as, m), by |-> at]
          BY <2>3, <3>1, <5>1
        <5>3. Len(tab) + (m + 1) \in 1..Len(tab')
          BY <1>0, <2>3, <5>1
        <5>4. tab'[Len(tab) + (m + 1)].name = Member(s.as, m)
          BY <5>2
        <5> QED BY <5>3, <5>4
      <4> QED BY <2>1, <2>4, <3>1, <4>1, <4>2
    <3>2. CASE ~Suffixed(s)
      <4>1. 1 \in 1..n
        BY <2>2
      <4>2. tab'[Len(tab) + 1] = [name |-> s.as, by |-> at]
        BY <2>3, <3>2, <4>1
      <4>3. Len(tab) + 1 \in 1..Len(tab') /\ tab'[Len(tab) + 1].name = s.as
        BY <1>0, <2>2, <2>3, <4>2
      <4> QED BY <2>4, <3>2, <4>3
    <3> QED BY <3>1, <3>2
  <2>5. CASE x # at
    <3>1. x \in 1..(at - 1)
      BY <1>0, <2>1, <2>5
    <3>2. IF Suffixed(file[x])
          THEN /\ <<file[x].as, Added(file[x])>> \in rbases
               /\ \A m \in 0..(Added(file[x]) - 1) :
                      \E t \in 1..Len(tab) : tab[t].name = Member(file[x].as, m)
          ELSE \E t \in 1..Len(tab) : tab[t].name = file[x].as
      BY <1>0, <2>1, <3>1 DEF Complete
    <3>3. rbases \subseteq rbases'
      BY <2>1 DEF Base
    <3>4. \A t \in 1..Len(tab) : t \in 1..Len(tab') /\ tab'[t] = tab[t]
      BY <1>0, <2>3
    <3> QED BY <3>2, <3>3, <3>4
  <2> QED BY <2>4, <2>5
<1> QED BY <1>1, <1>2, <1>3, <1>4, <1>5, <1>6, WlSteps DEF Ends, Breaks, MintsSome

\* What was hit is what the name of the last step stands for.
LEMMA ToldStep == WInv /\ Filed' /\ [WlNext]_wlVars => Told'
<1> SUFFICES ASSUME WInv, Filed', [WlNext]_wlVars PROVE Told'
  OBVIOUS
<1>0. Filed /\ Tabled /\ Told /\ DOMAIN tab = 1..Len(tab) /\ at \in Nat
  BY DEF WInv, Tabled, Filed
<1>1. CASE UNCHANGED wlVars
  BY <1>0, <1>1 DEF wlVars, table, Told, Referred, wl_resolve
<1>2. CASE hits' = {}
  BY <1>2 DEF Told
<1>3. ASSUME NEW s \in Steps, Lint(s) PROVE hits' = {}
  BY <1>0, <1>3 DEF Lint, Filed
<1>4. ASSUME Linted PROVE hits' = {}
  BY <1>0, <1>4 DEF Linted, Filed
<1>5. CASE Tells
  <2>1. at' - 1 = at /\ file' = file /\ tab' = tab /\ rbases' = rbases
        /\ hits' = wl_resolve(file[at].as)
    BY <1>0, <1>5 DEF Tells, table
  <2>2. wl_resolve(file[at].as) \subseteq DOMAIN tab
    BY DEF wl_resolve
  <2>3. hits' = wl_resolve(file[at - 1].as)'
    BY <2>1 DEF wl_resolve
  <2>4. hits' \subseteq 1..Len(tab')
    BY <1>0, <2>1, <2>2
  <2> QED BY <2>3, <2>4 DEF Told
<1>6. CASE Ends
  <2>1. /\ UNCHANGED <<file, tab, rbases, at>> /\ hits' \subseteq 1..Len(tab)
        /\ verdict' # "sut" => hits' = hits \/ hits' = {}
    BY <1>6 DEF Ends, table
  <2>2. ASSUME Referred', hits' # {} PROVE hits' = wl_resolve(file[at - 1].as)'
    <3>1. verdict' # "sut" /\ hits' = hits
      BY <2>1, <2>2 DEF Referred
    <3>2. pc = "run" /\ verdict = "none"
      BY <1>0, <1>6, <2>1, <2>2 DEF Ends, Filed, Referred
    <3>3. Referred
      BY <2>1, <2>2, <3>2 DEF Referred
    <3>4. hits = wl_resolve(file[at - 1].as)
      BY <1>0, <2>2, <3>1, <3>3 DEF Told
    <3> QED BY <2>1, <3>1, <3>4 DEF wl_resolve
  <2> QED BY <2>1, <2>2 DEF Told
<1> QED BY <1>1, <1>2, <1>3, <1>4, <1>5, <1>6, WlSteps DEF MintsAll, Breaks, MintsSome

\* No step of a plain file ends it for a broken rule.
LEMMA LegalStep == WInv /\ [WlNext]_wlVars => Legal'
<1> SUFFICES ASSUME WInv, [WlNext]_wlVars PROVE Legal'
  OBVIOUS
<1>0. Filed /\ Legal
  BY DEF WInv
<1>1. CASE UNCHANGED wlVars
  BY <1>0, <1>1 DEF wlVars, Legal
<1>2. CASE verdict' \notin Rules
  BY <1>2 DEF Legal
<1>3. ASSUME verdict' = "none" PROVE verdict' \notin Rules
  BY <1>3 DEF Rules
<1>4. ASSUME NEW s \in Steps, Lint(s) PROVE verdict' = "none"
  BY <1>0, <1>4 DEF Lint, Filed
<1>5. ASSUME Linted PROVE verdict' = "none"
  BY <1>0, <1>5 DEF Linted, Filed
<1>6. ASSUME Tells \/ \E n \in Nat : MintsAll(n) PROVE verdict' = "none"
  BY <1>0, <1>6 DEF Tells, MintsAll, Filed
<1>7. ASSUME Ends \/ \E n \in Nat : MintsSome(n) PROVE verdict' \notin Rules
  BY <1>7 DEF Ends, MintsSome, Rules
<1>8. CASE Breaks
  BY <1>8 DEF Breaks, Legal, Plain
<1> QED BY <1>1, <1>2, <1>3, <1>4, <1>5, <1>6, <1>7, <1>8, WlSteps

\* The invariant holds of every behaviour.
LEMMA WlInductive == WlSpec => []WInv
<1>1. WlInit => WInv
  <2> SUFFICES ASSUME WlInit PROVE WInv
    OBVIOUS
  <2>0. file = <<>> /\ Len(file) = 0 /\ 1..Len(file) = {} /\ tab = <<>> /\ Len(tab) = 0
    BY DEF WlInit
  <2>1. Filed
    BY <2>0, WorkloadsAssumption DEF WlInit, Filed
  <2>2. Registered
    BY <2>0 DEF WlInit, Registered
  <2>3. Budget
    <3> DEFINE g == [x \in 0..0 |-> 0]
    <3>1. g \in [0..Len(file) -> Nat] /\ g[0] = 0 /\ \A x \in 0..Len(file) : g[x] = 0
      BY <2>0
    <3> HIDE DEF g
    <3>2. Sums(file, g)
      BY <2>0, <3>1 DEF Sums
    <3> QED BY <2>0, <3>1, <3>2, WorkloadsAssumption DEF WlInit, Budget
  <2>4. Tabled /\ Based /\ Complete
    BY <2>0, WorkloadsAssumption DEF WlInit, Tabled, Based, Complete
  <2>5. Told /\ Legal
    BY <2>0 DEF WlInit, Told, Legal, Rules
  <2> QED BY <2>1, <2>2, <2>3, <2>4, <2>5 DEF WInv
<1>2. WInv /\ [WlNext]_wlVars => WInv'
  BY FiledStep, RegisteredStep, BudgetStep, TabledStep, BasedStep, CompleteStep, ToldStep,
     LegalStep DEF WInv
<1> QED BY <1>1, <1>2, PTL DEF WlSpec

\* The registry of the lint and the table of the run stay within kMaxWl, and
\* what a step stops or updates is in the table.
THEOREM WorkloadTypes == WlSpec => []WlTypeOK
<1>1. WInv => WlTypeOK
  <2> SUFFICES ASSUME WInv PROVE WlTypeOK
    OBVIOUS
  <2>1. file \in Seq(Steps) /\ Len(file) \in Nat /\ Len(file) <= MaxLen
    BY DEF WInv, Filed
  <2>2. Len(tab) \in 0..MaxWl /\ nentries \in 0..MaxWl /\ hits \subseteq 1..Len(tab)
    BY WorkloadsAssumption DEF WInv, Tabled, Budget, Told
  <2>3. at \in 1..(MaxLen + 1)
    BY <2>1, WorkloadsAssumption DEF WInv, Filed
  <2>4. (verdict = "none") = (pc # "over")
    BY DEF WInv, Filed
  <2> QED BY <2>1, <2>2, <2>3, <2>4 DEF WInv, Filed, WlTypeOK
<1> QED BY <1>1, WlInductive, PTL

\* "Break one and lint fails before anything runs": for every set of steps and
\* every length of file, a linted file without timed mints, counts of one and
\* leading zeros breaks no rule of workload names when it runs.
THEOREM LintedFilesRun == WlSpec => []PlainFilesRun
<1>1. WInv => PlainFilesRun
  BY DEF WInv, Legal, Plain, PlainFilesRun
<1> QED BY <1>1, WlInductive, PTL

\* The facts of Members, quantified.
LEMMA MemberFacts ==
    /\ \A b \in Name, m, c \in Nat : m < c => reg_member(b, c, Member(b, m))
    /\ \A b, d \in Name, m, c \in Nat : reg_member(d, c, Member(b, m)) => d = b
    /\ \A b, d \in Name, m, n \in Nat : Member(d, n) = Member(b, m) => d = b
<1>1. ASSUME NEW b \in Name, NEW m \in Nat, NEW c \in Nat, m < c
      PROVE  reg_member(b, c, Member(b, m))
  BY <1>1, Members
<1>2. ASSUME NEW b \in Name, NEW d \in Name, NEW m \in Nat, NEW c \in Nat,
             reg_member(d, c, Member(b, m))
      PROVE  d = b
  BY <1>2, Members
<1>3. ASSUME NEW b \in Name, NEW d \in Name, NEW m \in Nat, NEW n \in Nat,
             Member(d, n) = Member(b, m)
      PROVE  d = b
  BY <1>3, Members
<1> QED BY <1>1, <1>2, <1>3

\* Steps with different places mint different names, and an entry is in no
\* base but that of its own step, unless the file has a clash of names.
LEMMA Apart ==
    ASSUME WInv, ~Clash, NEW x \in 1..Len(file), NEW y \in 1..Len(file), x # y,
           file[x].k \in Mints, file[y].k \in Mints
    PROVE  /\ file[x].as # file[y].as /\ ~reg_member(file[x].as, Most(file[x]), file[y].as)
           /\ \A nm : ~(Mintable(file[x], nm) /\ Mintable(file[y], nm))
<1>0. Filed /\ Registered /\ Len(file) \in Nat /\ file[x] \in Steps /\ file[y] \in Steps
      /\ x \in DOMAIN file /\ y \in DOMAIN file
  BY DEF WInv, Filed
<1>1. \A u, v \in 1..Len(file) : u < v /\ file[u].k \in Mints /\ file[v].k \in Mints
                                   => file[u].as # file[v].as
  BY <1>0 DEF Registered, Reads
<1>2. file[x].as # file[y].as
  <2>1. x < y \/ y < x
    OBVIOUS
  <2> QED BY <1>1, <2>1
<1>3. /\ ~reg_member(file[x].as, Most(file[x]), file[y].as)
      /\ ~reg_member(file[y].as, Most(file[y]), file[x].as)
  BY <1>0 DEF Clash
<1>4. /\ file[x].as \in Name /\ Most(file[x]) \in Nat /\ file[y].as \in Name /\ Most(file[y]) \in Nat
  BY <1>0, StepFacts
<1>5. /\ \A m \in 0..(Most(file[x]) - 1) : file[y].as # Member(file[x].as, m)
      /\ \A m \in 0..(Most(file[y]) - 1) : file[x].as # Member(file[y].as, m)
  <2>1. ASSUME NEW b \in Name, NEW c \in Nat, NEW m \in 0..(c - 1)
        PROVE  reg_member(b, c, Member(b, m))
    <3>1. m \in Nat /\ m < c
      OBVIOUS
    <3> QED BY <3>1, Members
  <2> QED BY <1>3, <1>4, <2>1
<1>6. \A m, l \in Nat : Member(file[x].as, m) # Member(file[y].as, l)
  BY <1>2, <1>4, MemberFacts
<1>7. ASSUME NEW nm, Mintable(file[x], nm), Mintable(file[y], nm) PROVE FALSE
  <2>1. /\ 0..(Most(file[x]) - 1) \subseteq Nat /\ 0..(Most(file[y]) - 1) \subseteq Nat
    BY <1>4
  <2> QED BY <1>2, <1>5, <1>6, <1>7, <2>1 DEF Mintable
<1> QED BY <1>2, <1>3, <1>7

\* "A base name stops the whole counted set": for every set of steps and every
\* length of file, a name stands for all that its step has minted, and what a
\* step stops, updates or looks at is of one submit, as long as no name has
\* the form of a member of another step's set.
THEOREM NamesAreExact == WlSpec => []NamesExact
<1>1. WInv => NamesExact
  <2> SUFFICES ASSUME WInv, Referred, hits # {}, ~Clash
               PROVE  /\ \A t \in DOMAIN tab : file[tab[t].by].as = file[at - 1].as => t \in hits
                      /\ \A t, u \in hits : tab[t].by = tab[u].by
    BY DEF NamesExact
  <2> DEFINE ref == file[at - 1].as
  <2>0. Tabled /\ Based /\ hits = wl_resolve(ref) /\ DOMAIN tab = 1..Len(tab)
    BY DEF WInv, Told, Tabled
  <2>1. ASSUME NEW t \in DOMAIN tab
        PROVE  /\ tab[t].by \in 1..Len(file) /\ file[tab[t].by].k \in Mints
               /\ Mintable(file[tab[t].by], tab[t].name)
    BY <2>0 DEF Tabled
  <2>2. ASSUME NEW t \in DOMAIN tab, NEW u \in DOMAIN tab, tab[t].name = tab[u].name
        PROVE  tab[t].by = tab[u].by
    BY <2>1, <2>2, Apart
  <2>3. CASE \E t \in DOMAIN tab : tab[t].name = ref
    <3>1. hits = {t \in DOMAIN tab : tab[t].name = ref}
      BY <2>0, <2>3 DEF wl_resolve
    <3>2. PICK u \in DOMAIN tab : tab[u].name = ref
      BY <2>3
    <3>3. ASSUME NEW t \in DOMAIN tab, file[tab[t].by].as = ref PROVE tab[t].name = ref
      <4> DEFINE x == tab[t].by
                 y == tab[u].by
      <4>1. /\ x \in 1..Len(file) /\ file[x].k \in Mints /\ Mintable(file[x], tab[t].name)
            /\ y \in 1..Len(file) /\ file[y].k \in Mints /\ Mintable(file[y], ref)
        BY <2>1, <3>2
      <4> HIDE DEF x, y
      <4>2. file[x].as = ref
        BY <3>3 DEF x
      <4>3. /\ file[x].as \in Name /\ Most(file[x]) \in Nat
            /\ file[y].as \in Name /\ Most(file[y]) \in Nat
        <5>1. file[x] \in Steps /\ file[y] \in Steps
          BY <4>1 DEF WInv, Filed
        <5> QED BY <4>1, <5>1, StepFacts
      <4>4. CASE Suffixed(file[y])
        <5>1. PICK m \in 0..(Most(file[y]) - 1) : ref = Member(file[y].as, m)
          BY <4>1, <4>4 DEF Mintable
        <5>2. m \in Nat /\ m < Most(file[y])
          BY <4>3
        <5>3. x # y
          BY <4>2, <4>3, <5>1, <5>2, Members
        <5>4. reg_member(file[y].as, Most(file[y]), Member(file[y].as, m))
          BY <4>3, <5>2, MemberFacts
        <5>5. reg_member(file[y].as, Most(file[y]), file[x].as)
          BY <4>2, <5>1, <5>4
        <5> QED BY <4>1, <5>3, <5>5, Apart
      <4>5. CASE ~Suffixed(file[y])
        <5>1. file[y].as = ref
          BY <4>1, <4>5 DEF Mintable
        <5>2. x = y
          BY <4>1, <4>2, <5>1, Apart
        <5> QED BY <4>1, <4>5, <5>1, <5>2 DEF Mintable
      <4> QED BY <4>4, <4>5
    <3> QED BY <2>2, <3>1, <3>3
  <2>4. CASE ~\E t \in DOMAIN tab : tab[t].name = ref
    <3>1. hits = {t \in DOMAIN tab : \E b \in rbases :
                      b[1] = ref /\ reg_member(b[1], b[2], tab[t].name)}
      BY <2>0, <2>4 DEF wl_resolve
    <3>2. ASSUME NEW b \in rbases, b[1] = ref, NEW x \in 1..Len(file), BaseOf(b, x),
                 NEW t \in DOMAIN tab, reg_member(b[1], b[2], tab[t].name)
          PROVE  tab[t].by = x
      <4> DEFINE y == tab[t].by
      <4>1. /\ y \in 1..Len(file) /\ file[y].k \in Mints /\ Mintable(file[y], tab[t].name)
            /\ file[x].k \in Mints /\ Suffixed(file[x]) /\ b[1] = file[x].as
            /\ b[2] \in 0..Most(file[x])
        BY <2>1, <3>2 DEF BaseOf
      <4> HIDE DEF y
      <4>2. /\ file[x].as \in Name /\ Most(file[x]) \in Nat
            /\ file[y].as \in Name /\ Most(file[y]) \in Nat
        <5>1. file[x] \in Steps /\ file[y] \in Steps
          BY <4>1 DEF WInv, Filed
        <5> QED BY <4>1, <5>1, StepFacts
      <4>3. ASSUME y # x PROVE FALSE
        <5>1. CASE Suffixed(file[y])
          <6>1. PICK m \in 0..(Most(file[y]) - 1) : tab[t].name = Member(file[y].as, m)
            BY <4>1, <5>1 DEF Mintable
          <6>2. m \in Nat /\ b[2] \in Nat
            BY <4>1, <4>2
          <6>3. reg_member(file[x].as, b[2], Member(file[y].as, m))
            BY <3>2, <4>1, <6>1
          <6>4. file[x].as = file[y].as
            BY <4>2, <6>2, <6>3, MemberFacts
          <6> QED BY <4>1, <4>3, <6>4, Apart
        <5>2. CASE ~Suffixed(file[y])
          <6>1. reg_member(file[x].as, b[2], file[y].as)
            BY <3>2, <4>1, <5>2 DEF Mintable
          <6>2. reg_member(file[x].as, Most(file[x]), file[y].as)
            <7>1. Last(file[y].as.sfx).v < b[2] /\ b[2] <= Most(file[x]) /\ b[2] \in Nat
              BY <4>1, <4>2, <6>1 DEF reg_member
            <7>2. Last(file[y].as.sfx).v \in Nat
              <8>1. /\ file[y].as.sfx \in Seq(Suffix) /\ file[x].as.sfx \in Seq(Suffix)
                BY <4>2 DEF Name
              <8>2. Len(file[y].as.sfx) = Len(file[x].as.sfx) + 1
                BY <6>1 DEF reg_member
              <8>3. Last(file[y].as.sfx) \in Suffix
                BY <8>1, <8>2 DEF Last
              <8> QED BY <8>3 DEF Suffix
            <7>3. Last(file[y].as.sfx).v < Most(file[x])
              BY <4>2, <7>1, <7>2
            <7> QED BY <6>1, <7>3 DEF reg_member
          <6> QED BY <4>1, <4>3, <6>2, Apart
        <5> QED BY <5>1, <5>2
      <4> QED BY <4>3 DEF y
    <3>3. PICK u \in DOMAIN tab, b \in rbases : b[1] = ref
      BY <3>1
    <3>4. PICK x \in 1..Len(file) : BaseOf(b, x)
      BY <2>0 DEF Based
    <3>5. ASSUME NEW t \in DOMAIN tab, file[tab[t].by].as = ref PROVE t \in hits
      <4>1. tab[t].by = x
        BY <2>1, <3>3, <3>4, <3>5, Apart DEF BaseOf
      <4> QED BY <2>0, <3>1, <3>3, <3>4, <4>1 DEF BaseOf
    <3>6. ASSUME NEW t \in hits PROVE tab[t].by = x
      <4>1. PICK c \in rbases : c[1] = ref /\ reg_member(c[1], c[2], tab[t].name)
        BY <3>1
      <4>2. PICK y \in 1..Len(file) : BaseOf(c, y)
        BY <2>0 DEF Based
      <4>3. tab[t].by = y
        BY <3>1, <3>2, <4>1, <4>2
      <4>4. x = y
        BY <3>3, <3>4, <4>1, <4>2, Apart DEF BaseOf
      <4> QED BY <4>3, <4>4
    <3> QED BY <3>5, <3>6
  <2> QED BY <2>3, <2>4
<1> QED BY <1>1, WlInductive, PTL
=============================================================================

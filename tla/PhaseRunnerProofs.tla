------------------------- MODULE PhaseRunnerProofs -------------------------
(***************************************************************************)
(* One scenario file, for any file that lint accepts, any timeouts, gaps   *)
(* and ticks, and any behaviour of the system under test.                  *)
(***************************************************************************)
EXTENDS PhaseRunner, TLAPS

InLoop == pc \in {"poll", "eval"}

\* What the places of suite_run_file say of the mesh, the phases passed and
\* the result.
Control ==
    /\ met = 1..(ph - 1)
    /\ pc \in {"load", "setup"} => ~up /\ torn = 0
    /\ pc \notin {"load", "setup", "end"} => up /\ torn = 0
    /\ pc # "end" => verdict = None /\ ~forensics
    /\ pc \notin {"close", "end"} => ~failed /\ why = None
    /\ pc \in {"step", "poll", "eval"} => ph <= Len(file)
    /\ pc = "close" => (failed \/ ph > Len(file)) /\ why \notin {"load", "setup"}
    /\ pc = "end" =>
           /\ verdict # None /\ ~up
           /\ torn = IF why \in {"load", "setup"} THEN 0 ELSE 1
           /\ forensics <=> failed
           /\ verdict = "pass" => ph > Len(file)

\* In a poll loop the timers are of this loop: the latch is set only over an
\* unbroken run of true answers that began no later than the hold timer, and
\* the cached answer is at least as young as the last query.
Timers ==
    InLoop =>
        /\ start <= Seconds /\ streak <= Seconds
        /\ sat => hold0 # Unset /\ streak # Unset /\ streak <= hold0
        /\ cache = Unasked \/ start * TPS <= cache.at
        /\ tcheck # Unset /\ P.cond = "list" =>
               cache # Unasked /\ tcheck * TPS <= cache.at
        /\ ~P.until => seen \subseteq {TRUE}

\* The types, part by part.
WorldType   == file \in Files /\ now \in Nat /\ stall \in 0..MaxStall
PlaceType   == /\ pc \in {"load", "setup", "spawn", "begin", "step", "poll",
                          "eval", "close", "end"}
               /\ ph \in 1..(Len(file) + 1)
CountType   == k \in Nat /\ fileStart \in Nat
TimerType   == /\ start \in Nat
               /\ hold0 \in TimeOrUnset /\ tcheck \in TimeOrUnset
               /\ tsample \in TimeOrUnset /\ streak \in TimeOrUnset
               /\ cache \in [val : BOOLEAN, at : TimeOrUnset]
FlagType    == /\ truth \in BOOLEAN /\ alive \in BOOLEAN /\ sat \in BOOLEAN
               /\ failed \in BOOLEAN /\ up \in BOOLEAN /\ forensics \in BOOLEAN
               /\ steady \in BOOLEAN
ResultType  == /\ verdict \in {None, "pass", "fail", "skip"}
               /\ why \in {None, "load", "setup", "spawn", "step", "no child alive",
                           "file timeout", "until timeout", "sustain violated",
                           "cond error"}
HistoryType == seen \subseteq BOOLEAN /\ met \subseteq 1..Len(file)

Inv == /\ WorldType /\ PlaceType /\ CountType /\ TimerType /\ FlagType
       /\ ResultType /\ HistoryType /\ Control /\ Timers

\* While the condition of an until phase has held since its loop began, the
\* latch is set by the first evaluation, within a second of the start, and
\* the runner keeps looking before the dwell is over.
Prompt ==
    /\ InLoop /\ P.until /\ steady =>
           /\ truth /\ (cache = Unasked \/ cache.val)
           /\ sat  => hold0 <= start + 1
           /\ sat /\ pc = "poll"  => now - stall < (hold0 + P.hold) * TPS
           /\ ~sat /\ pc = "poll" => now - stall < start * TPS + TPS
           /\ ~sat /\ pc = "eval" => now - stall < start * TPS + TPS + MaxStall
    /\ pc \in {"close", "end"} /\ why = "until timeout" /\ P.hold + 2 <= P.timeout
           => ~steady

-----------------------------------------------------------------------------
(* The clock and the phases.                                               *)

LEMMA Second ==
  ASSUME NEW t \in Nat
  PROVE  t \div TPS \in Nat /\ (t \div TPS) * TPS <= t /\ t < (t \div TPS) * TPS + TPS
BY ClockAssumption

LEMMA SecondsGrow ==
  ASSUME NEW t \in Nat PROVE t \div TPS <= (t + 1) \div TPS
BY ClockAssumption

LEMMA Scaled ==
  ASSUME NEW a \in Nat, NEW b \in Nat, a <= b
  PROVE  a * TPS <= b * TPS
BY ClockAssumption

LEMMA TimeType ==
  ASSUME NEW t \in TimeOrUnset PROVE t \in Int /\ (t # Unset => t \in Nat)
BY DEF TimeOrUnset, Unset

LEMMA GapPositive ==
  ASSUME NEW n \in Nat PROVE n - n < QueryGap * TPS
<1>1. ASSUME NEW g \in Nat \ {0}, NEW t \in Nat \ {0} PROVE 0 < g * t
  OBVIOUS
<1> QED BY <1>1, ClockAssumption

\* A tick of a second fewer than QueryGap after the second c is fewer than
\* QueryGap seconds after any tick from c on.
LEMMA WithinGap ==
  ASSUME NEW n \in Nat, NEW s \in Nat, NEW c \in Nat, NEW at \in Int,
         n < s * TPS + TPS, ~(s - c >= QueryGap), c * TPS <= at
  PROVE  n - at < QueryGap * TPS
<1>1. ASSUME NEW g \in Nat, NEW t \in Nat \ {0}, n < s * t + t, ~(s - c >= g), c * t <= at
      PROVE  n - at < g * t
  <2>1. s + 1 <= c + g
    BY <1>1
  <2>2. (s + 1) * t <= (c + g) * t
    BY <2>1
  <2>3. (s + 1) * t = s * t + t /\ (c + g) * t = c * t + g * t
    OBVIOUS
  <2> QED BY <1>1, <2>2, <2>3
<1> QED BY <1>1, ClockAssumption

LEMMA LenType ==
  ASSUME WorldType PROVE Len(file) \in Nat \ {0} /\ file \in Seq(Phase)
<1>1. file \in Seq(Phase) /\ file # <<>>
  BY FilesAssumption DEF WorldType
<1> QED BY <1>1

\* lint has seen the phase that runs.
LEMMA PhaseType ==
  ASSUME WorldType, PlaceType, ph <= Len(file)
  PROVE  /\ P \in Phase /\ P.hold \in Nat /\ P.timeout \in Nat \ {0}
         /\ P.hold <= P.timeout /\ P.cond \in Conds /\ P.until \in BOOLEAN
<1>1. ph \in 1..Len(file)
  BY LenType DEF PlaceType
<1>2. file \in Seq(Phase) /\ file[ph].hold <= file[ph].timeout
  BY <1>1, FilesAssumption DEF WorldType
<1>3. P \in Phase
  BY <1>1, <1>2 DEF P
<1> QED BY <1>2, <1>3 DEF P, Phase

-----------------------------------------------------------------------------
LEMMA InitInv == Init => Inv /\ Prompt
<1> SUFFICES ASSUME Init PROVE Inv /\ Prompt
  OBVIOUS
<1> USE DEF Init
<1>1. WorldType /\ CountType
  BY ClockAssumption DEF WorldType, CountType
<1>2. PlaceType
  BY <1>1, LenType DEF PlaceType
<1>3. TimerType
  BY DEF TimerType, TimeOrUnset, Unasked
<1>4. FlagType
  BY DEF FlagType
<1>5. ResultType /\ HistoryType
  BY DEF ResultType, HistoryType
<1>6. Control
  BY DEF Control
<1> QED BY <1>1, <1>2, <1>3, <1>4, <1>5, <1>6 DEF Inv, Timers, Prompt, InLoop

\* A step of the runner outside the poll loops.
Outside ==
    \/ Load \/ Setup \/ SpawnOk \/ (\E v \in {"fail", "skip"} : SpawnFails(v))
    \/ Begin \/ AllPhasesDone \/ StepOk \/ StepFails \/ StepSkips \/ Close

LEMMA OutsideInv ==
  ASSUME Inv, Outside
  PROVE  Inv'
<1>1. UNCHANGED <<file, now, truth, alive, ph, timerVars, historyVars>> /\ stall' = 0
  BY DEF Outside, Load, Setup, SpawnOk, SpawnFails, Begin, AllPhasesDone, StepOk,
         StepFails, StepSkips, Close, Runs
<1>2. pc' \in {"setup", "spawn", "begin", "step", "close", "end"}
  BY DEF Outside, Load, Setup, SpawnOk, SpawnFails, Begin, AllPhasesDone, StepOk,
         StepFails, StepSkips, Close, Fail, Leave
<1>3. WorldType' /\ TimerType' /\ HistoryType' /\ PlaceType'
  <2>1. WorldType' /\ TimerType'
    BY <1>1, ClockAssumption DEF Inv, WorldType, TimerType, timerVars, historyVars
  <2>2. HistoryType' /\ PlaceType'
    BY <1>1, <1>2 DEF Inv, HistoryType, PlaceType, historyVars
  <2> QED BY <2>1, <2>2
<1>4. CountType'
  <2>1. k' = 0 \/ k' = k + 1 \/ k' = k
    BY DEF Outside, Load, Setup, SpawnOk, SpawnFails, Begin, AllPhasesDone, StepOk,
           StepFails, StepSkips, Close
  <2>2. fileStart' = Seconds \/ fileStart' = fileStart
    BY DEF Outside, Load, Setup, SpawnOk, SpawnFails, Begin, AllPhasesDone, StepOk,
           StepFails, StepSkips, Close
  <2> QED BY <2>1, <2>2, Second DEF Inv, CountType, WorldType, Seconds
<1>5. FlagType' /\ ResultType' /\ Control'
  <2>1. CASE Load
    <3> USE <1>1, <2>1 DEF Inv, Load, Leave, meshVars, resultVars, historyVars, timerVars, None
    <3>1. FlagType'
      BY DEF FlagType
    <3>2. ResultType'
      BY DEF ResultType
    <3>3. Control'
      BY DEF Control, FlagType
    <3> QED BY <3>1, <3>2, <3>3
  <2>2. CASE Setup
    <3> USE <1>1, <2>2 DEF Inv, Setup, Leave, meshVars, resultVars, historyVars, timerVars, None
    <3>1. FlagType'
      BY DEF FlagType
    <3>2. ResultType'
      BY DEF ResultType
    <3>3. Control'
      BY DEF Control, FlagType
    <3> QED BY <3>1, <3>2, <3>3
  <2>3. ASSUME NEW v \in {"fail", "skip"}, SpawnFails(v)
        PROVE  FlagType' /\ ResultType' /\ Control'
    <3> USE <1>1, <2>3 DEF Inv, SpawnFails, Teardown, Leave, meshVars, resultVars, historyVars,
                           timerVars, None
    <3>1. FlagType'
      BY DEF FlagType
    <3>2. ResultType'
      BY DEF ResultType
    <3>3. Control'
      BY DEF Control, FlagType
    <3> QED BY <3>1, <3>2, <3>3
  <2>4. CASE StepSkips
    <3> USE <1>1, <2>4 DEF Inv, StepSkips, Teardown, Leave, meshVars, resultVars, historyVars,
                           timerVars, None
    <3>1. FlagType'
      BY DEF FlagType
    <3>2. ResultType'
      BY DEF ResultType
    <3>3. Control'
      BY DEF Control, FlagType
    <3> QED BY <3>1, <3>2, <3>3
  <2>5. CASE StepFails
    <3> USE <1>1, <2>5 DEF Inv, StepFails, Fail, meshVars, historyVars, timerVars, None
    <3>1. FlagType'
      BY DEF FlagType
    <3>2. ResultType'
      BY DEF ResultType
    <3>3. Control'
      BY DEF Control, FlagType
    <3> QED BY <3>1, <3>2, <3>3
  <2>6. CASE SpawnOk \/ StepOk \/ Begin \/ AllPhasesDone
    <3>1. UNCHANGED <<meshVars, resultVars>>
      BY <2>6 DEF SpawnOk, StepOk, Begin, AllPhasesDone
    <3>2. FlagType'
      BY <1>1, <3>1 DEF Inv, FlagType, meshVars, resultVars, historyVars, timerVars
    <3>3. ResultType'
      BY <3>1 DEF Inv, ResultType, resultVars
    <3>4. Control'
      BY <1>1, <3>1, <2>6 DEF SpawnOk, StepOk, Begin, AllPhasesDone, Inv, Control, meshVars,
                              resultVars, historyVars, None
    <3> QED BY <3>2, <3>3, <3>4
  <2>7. CASE Close
    <3> USE <1>1, <2>7 DEF Inv, Close, Teardown, meshVars, historyVars, timerVars, None
    <3>1. FlagType'
      BY DEF FlagType
    <3>2. ResultType'
      BY DEF ResultType
    <3>3. Control'
      BY DEF Control, FlagType
    <3> QED BY <3>1, <3>2, <3>3
  <2> QED BY <2>1, <2>2, <2>3, <2>4, <2>5, <2>6, <2>7 DEF Outside
<1> QED BY <1>2, <1>3, <1>4, <1>5 DEF Inv, Timers, InLoop

LEMMA EnterInv ==
  ASSUME Inv, EnterLoop
  PROVE  Inv'
<1> USE DEF EnterLoop, Runs
<1>1. Seconds \in Nat /\ Seconds' = Seconds
  BY Second DEF Inv, WorldType, Seconds
<1>2. WorldType' /\ PlaceType' /\ CountType'
  BY ClockAssumption DEF Inv, WorldType, PlaceType, CountType
<1>3. TimerType'
  BY <1>1 DEF TimerType, TimeOrUnset, Unasked
<1>4. FlagType'
  BY DEF Inv, FlagType, meshVars, resultVars
<1>5. ResultType' /\ HistoryType'
  BY DEF Inv, ResultType, HistoryType, resultVars
<1>6. Control'
  BY DEF Inv, Control, meshVars, resultVars
<1>7. Timers'
  BY <1>1 DEF Timers, InLoop, Unset
<1> QED BY <1>2, <1>3, <1>4, <1>5, <1>6, <1>7 DEF Inv

LEMMA WorldInv ==
  ASSUME Inv, Tick \/ ConditionChanges \/ LastChildDies
  PROVE  Inv'
<1>1. UNCHANGED <<file, pc, ph, k, fileStart, timerVars, meshVars, resultVars, seen, streak, met>>
  BY DEF Tick, ConditionChanges, LastChildDies, historyVars
<1>2. WorldType'
  BY ClockAssumption DEF Inv, WorldType, Tick, ConditionChanges, LastChildDies
<1>3. FlagType'
  BY <1>1 DEF Inv, FlagType, Tick, ConditionChanges, LastChildDies, timerVars, meshVars,
              resultVars, historyVars
<1>4. TimerType'
  BY <1>1 DEF Inv, TimerType, timerVars
<1>5. PlaceType' /\ CountType' /\ ResultType' /\ HistoryType'
  BY <1>1 DEF Inv, PlaceType, CountType, ResultType, HistoryType, resultVars
<1>6. Control'
  BY <1>1 DEF Inv, Control, meshVars, resultVars
<1>7. Seconds \in Nat /\ Seconds' \in Nat /\ Seconds <= Seconds'
  <2>1. now' = now + 1 \/ now' = now
    BY DEF Tick, ConditionChanges, LastChildDies
  <2> QED BY <1>2, <2>1, Second, SecondsGrow DEF Inv, WorldType, Seconds
<1>8. Timers'
  <2>1. start \in Nat /\ streak \in Int
    BY DEF Inv, TimerType, TimeOrUnset, Unset
  <2>2. start' = start /\ streak' = streak
    BY <1>1 DEF timerVars
  <2>3. InLoop => start' <= Seconds' /\ streak' <= Seconds'
    BY <1>7, <2>1, <2>2 DEF Inv, Timers
  <2> QED BY <1>1, <2>3 DEF Inv, Timers, InLoop, timerVars, P
<1> QED BY <1>2, <1>3, <1>4, <1>5, <1>6, <1>8 DEF Inv

\* Both loops leave, or go from the head to an evaluation.
LEMMA PollInv ==
  ASSUME Inv, Poll \/ CondErrors
  PROVE  Inv'
<1>1. /\ UNCHANGED <<file, now, truth, alive, ph, k, fileStart, timerVars, meshVars,
                     historyVars, verdict>>
      /\ stall' = 0 /\ InLoop
  BY DEF Poll, CondErrors, Runs, Fail, resultVars, InLoop
<1>2. \/ pc' = "eval" /\ UNCHANGED <<failed, why>>
      \/ pc' = "close" /\ failed' = TRUE
         /\ why' \in {"no child alive", "file timeout", "until timeout", "cond error"}
  BY DEF Poll, CondErrors, Fail, resultVars
<1>3. WorldType' /\ TimerType' /\ CountType'
  BY <1>1, ClockAssumption DEF Inv, WorldType, TimerType, CountType, timerVars, historyVars
<1>4. PlaceType' /\ HistoryType'
  BY <1>1, <1>2 DEF Inv, PlaceType, HistoryType, historyVars
<1>5. FlagType'
  BY <1>1, <1>2 DEF Inv, FlagType, timerVars, meshVars, historyVars
<1>6. ResultType'
  BY <1>1, <1>2 DEF Inv, ResultType
<1>7. Control'
  <2>1. CASE pc' = "eval" /\ UNCHANGED <<failed, why>>
    BY <1>1, <2>1 DEF Inv, Control, InLoop, meshVars, historyVars
  <2>2. CASE pc' = "close" /\ failed' = TRUE
    BY <1>1, <1>2, <2>2 DEF Inv, Control, InLoop, meshVars, historyVars
  <2> QED BY <1>2, <2>1, <2>2
<1>8. Timers'
  BY <1>1, <1>2 DEF Inv, Timers, InLoop, timerVars, historyVars, Seconds, P
<1> QED BY <1>3, <1>4, <1>5, <1>6, <1>7, <1>8 DEF Inv


\* A read of the condition, with or without a query.
LEMMA ReadsTrue ==
  ASSUME Inv, InLoop, NEW q \in BOOLEAN, Refresh(q), Observe(Answer(q)), now' = now
  PROVE  /\ Answer(q) \in BOOLEAN
         /\ cache' \in [val : BOOLEAN, at : TimeOrUnset]
         /\ cache' = Unasked \/ start * TPS <= cache'.at
         /\ P.cond = "list" => cache' # Unasked
         /\ seen' = seen \union {Answer(q)} /\ steady' = steady
         /\ streak' \in TimeOrUnset /\ streak' <= Seconds
         /\ Answer(q) => streak' # Unset /\ (streak # Unset => streak' = streak)
<1>1. Answer(q) \in BOOLEAN
  BY DEF Answer, Inv, FlagType, TimerType
<1>2. Seconds \in Nat /\ Seconds * TPS <= now /\ now \in Nat /\ start \in Nat /\ start <= Seconds
  BY Second DEF Inv, WorldType, Seconds, Timers, TimerType
<1>3. start * TPS <= now
  <2>1. start * TPS <= Seconds * TPS
    BY <1>2, Scaled
  <2> QED BY <1>2, <2>1, ClockAssumption
<1>4. cache' = cache \/ cache' = [val |-> truth, at |-> now]
  BY DEF Refresh
<1>5. cache' \in [val : BOOLEAN, at : TimeOrUnset]
  BY <1>2, <1>4 DEF Inv, TimerType, FlagType, TimeOrUnset
<1>6. cache' = Unasked \/ start * TPS <= cache'.at
  BY <1>3, <1>4 DEF Inv, Timers
<1>7. P.cond = "list" => cache' # Unasked
  <2> SUFFICES ASSUME P.cond = "list", cache' = Unasked PROVE FALSE
    OBVIOUS
  <2>1. CASE q \/ cache = Unasked
    <3>1. cache' = [val |-> truth, at |-> now]
      BY <2>1 DEF Refresh, Asks
    <3>2. now = Unset
      BY <3>1 DEF Unasked
    <3> QED BY <3>2, <1>2 DEF Unset
  <2>2. CASE ~(q \/ cache = Unasked)
    BY <2>2 DEF Refresh, Asks
  <2> QED BY <2>1, <2>2
<1>8. /\ seen' = seen \union {Answer(q)} /\ steady' = steady
      /\ streak' = CASE ~Answer(q)                  -> Unset
                     [] Answer(q) /\ streak = Unset -> Seconds
                     [] OTHER                       -> streak
  BY DEF Observe
<1>9. streak \in TimeOrUnset /\ streak <= Seconds
  BY DEF Inv, TimerType, Timers
<1> HIDE DEF Answer
<1>10. streak' \in TimeOrUnset /\ streak' <= Seconds
  BY <1>1, <1>2, <1>8, <1>9 DEF TimeOrUnset, Unset
<1>11. Answer(q) => streak' # Unset /\ (streak # Unset => streak' = streak)
  BY <1>1, <1>2, <1>8, <1>9 DEF TimeOrUnset, Unset
<1> QED BY <1>1, <1>5, <1>6, <1>7, <1>8, <1>10, <1>11

\* run_throttle stamps the query whose answer is cached.
LEMMA QueryStamped ==
  ASSUME Inv, InLoop, Read, now' = now
  PROVE  /\ tcheck' \in TimeOrUnset
         /\ tcheck' # Unset /\ P.cond = "list" =>
                cache' # Unasked /\ tcheck' * TPS <= cache'.at
<1>1. tcheck' = (IF QueryDue THEN Seconds ELSE tcheck)
  BY DEF Read
<1>2. Seconds \in Nat /\ Seconds * TPS <= now /\ now \in Nat
  BY Second DEF Inv, WorldType, Seconds
<1>3. ASSUME tcheck' # Unset, P.cond = "list"
      PROVE  cache' # Unasked /\ tcheck' * TPS <= cache'.at
  <2>1. CASE QueryDue
    <3>1. cache' = [val |-> truth, at |-> now]
      BY <1>3, <2>1 DEF Read, Refresh, Asks
    <3>2. cache'.at # Unasked.at
      BY <3>1, <1>2 DEF Unasked, Unset
    <3> QED BY <3>1, <3>2, <2>1, <1>1, <1>2
  <2>2. CASE ~QueryDue
    <3>1. tcheck # Unset /\ tcheck' = tcheck
      BY <1>1, <1>3, <2>2
    <3>2. cache # Unasked /\ tcheck * TPS <= cache.at
      BY <1>3, <3>1 DEF Inv, Timers
    <3>3. cache' = cache
      BY <2>2, <3>2 DEF Read, Refresh, Asks
    <3> QED BY <3>1, <3>2, <3>3
  <2> QED BY <2>1, <2>2
<1>4. tcheck' \in TimeOrUnset
  BY <1>1, <1>2 DEF Inv, TimerType, TimeOrUnset
<1> QED BY <1>3, <1>4

\* A phase is met: the next one begins.
LEMMA MetInv ==
  ASSUME WorldType, PlaceType, HistoryType, Control, InLoop, PhaseMet,
         UNCHANGED <<file, meshVars, resultVars>>
  PROVE  PlaceType' /\ Control' /\ met' \subseteq 1..Len(file)'
<1>1. ph \in 1..Len(file) /\ Len(file) \in Nat
  BY LenType DEF Control, InLoop, PlaceType
<1>2. met' \subseteq 1..Len(file)'
  BY <1>1 DEF PhaseMet, HistoryType
<1>3. PlaceType'
  BY <1>1 DEF PhaseMet, PlaceType
<1>4. met' = 1..(ph' - 1)
  BY <1>1 DEF PhaseMet, Control
<1>5. Control'
  BY <1>4 DEF PhaseMet, Control, InLoop, meshVars, resultVars
<1> QED BY <1>2, <1>3, <1>5

LEMMA EvalUntilInv ==
  ASSUME Inv, EvalUntil
  PROVE  Inv'
<1>1. InLoop /\ QueryDue \in BOOLEAN /\ UNCHANGED <<file, now, truth, alive, k, fileStart, start,
                                                     meshVars, resultVars>> /\ stall' = 0
  BY DEF EvalUntil, InLoop, Runs, QueryDue
<1>2. /\ Answer(QueryDue) \in BOOLEAN
      /\ cache' \in [val : BOOLEAN, at : TimeOrUnset]
      /\ cache' = Unasked \/ start * TPS <= cache'.at
      /\ P.cond = "list" => cache' # Unasked
      /\ seen' = seen \union {Answer(QueryDue)} /\ steady' = steady
      /\ streak' \in TimeOrUnset /\ streak' <= Seconds
      /\ Answer(QueryDue) => streak' # Unset /\ (streak # Unset => streak' = streak)
  BY <1>1, ReadsTrue DEF EvalUntil, Read
<1>3. Seconds \in Nat /\ Seconds' = Seconds /\ now \in Nat
  BY <1>1, Second DEF Inv, WorldType, Seconds
<1>4. tcheck' = (IF QueryDue THEN Seconds ELSE tcheck) /\ sat' = Answer(QueryDue)
  BY DEF EvalUntil, Read, LatchNow
<1>5. hold0' = CASE ~Answer(QueryDue)                    -> Unset
                 [] Answer(QueryDue) /\ HoldArmed = Unset -> Seconds
                 [] OTHER                                -> hold0
  BY DEF EvalUntil, LatchNow
<1> HIDE DEF Answer, QueryDue
<1>6. hold0' \in TimeOrUnset /\ tcheck' \in TimeOrUnset /\ tsample' \in TimeOrUnset
  BY <1>2, <1>3, <1>4, <1>5 DEF EvalUntil, Sample, Inv, TimerType, TimeOrUnset
<1>7. WorldType' /\ CountType' /\ TimerType'
  BY <1>1, <1>2, <1>6, ClockAssumption DEF Inv, WorldType, CountType, TimerType
<1>8. FlagType' /\ ResultType'
  BY <1>1, <1>2, <1>4 DEF Inv, FlagType, ResultType, meshVars, resultVars
<1>9. PhaseMet \/ (pc' = "poll" /\ UNCHANGED <<ph, met>>)
  BY DEF EvalUntil
<1>10. PlaceType' /\ Control' /\ HistoryType'
  <2>1. CASE PhaseMet
    BY <2>1, <1>1, <1>2, MetInv DEF Inv, HistoryType
  <2>2. CASE pc' = "poll" /\ UNCHANGED <<ph, met>>
    BY <2>2, <1>1, <1>2 DEF Inv, PlaceType, Control, HistoryType, InLoop, meshVars, resultVars
  <2> QED BY <1>9, <2>1, <2>2
<1>11. Timers'
  <2> SUFFICES ASSUME InLoop' PROVE Timers'
    BY DEF Timers
  <2>1. pc' = "poll" /\ ph' = ph /\ P' = P
    BY <1>1, <1>9 DEF InLoop, PhaseMet, P
  <2>2. sat' => hold0' # Unset /\ streak' # Unset /\ streak' <= hold0'
    <3> SUFFICES ASSUME Answer(QueryDue) PROVE hold0' # Unset /\ streak' # Unset /\ streak' <= hold0'
      BY <1>4
    <3>1. CASE HoldArmed = Unset
      BY <3>1, <1>2, <1>3, <1>5 DEF Unset
    <3>2. CASE HoldArmed # Unset
      BY <3>2, <1>1, <1>2, <1>5 DEF HoldArmed, Inv, Timers
    <3> QED BY <3>1, <3>2
  <2>3. tcheck' # Unset /\ P.cond = "list" => cache' # Unasked /\ tcheck' * TPS <= cache'.at
    BY <1>1, QueryStamped DEF EvalUntil
  <2>4. P.until
    BY DEF EvalUntil
  <2>5. start' = start /\ start <= Seconds
    BY <1>1 DEF Inv, Timers
  <2> QED BY <1>2, <1>3, <2>1, <2>2, <2>3, <2>4, <2>5 DEF Timers
<1> QED BY <1>7, <1>8, <1>10, <1>11 DEF Inv

LEMMA EvalSustainInv ==
  ASSUME Inv, EvalSustain
  PROVE  Inv'
<1>1. /\ InLoop /\ QueryDue \in BOOLEAN /\ ~P.until /\ stall' = 0
      /\ UNCHANGED <<file, now, truth, alive, ph, k, fileStart, start, sat, hold0, meshVars, met>>
  BY DEF EvalSustain, InLoop, Runs, QueryDue
<1>2. /\ Answer(QueryDue) \in BOOLEAN
      /\ cache' \in [val : BOOLEAN, at : TimeOrUnset]
      /\ cache' = Unasked \/ start * TPS <= cache'.at
      /\ seen' = seen \union {Answer(QueryDue)} /\ steady' = steady
      /\ streak' \in TimeOrUnset /\ streak' <= Seconds
      /\ Answer(QueryDue) => streak' # Unset /\ (streak # Unset => streak' = streak)
  BY <1>1, ReadsTrue DEF EvalSustain, Read
<1>3. Seconds \in Nat /\ Seconds' = Seconds /\ now \in Nat
  BY <1>1, Second DEF Inv, WorldType, Seconds
<1>4. \/ Answer(QueryDue) /\ pc' = "poll" /\ UNCHANGED resultVars
      \/ pc' = "close" /\ failed' = TRUE /\ why' = "sustain violated" /\ UNCHANGED verdict
  BY DEF EvalSustain, Fail
<1>5. /\ tcheck' \in TimeOrUnset
      /\ tcheck' # Unset /\ P.cond = "list" => cache' # Unasked /\ tcheck' * TPS <= cache'.at
  BY <1>1, QueryStamped DEF EvalSustain
<1> HIDE DEF Answer, QueryDue
<1>6. tsample' \in TimeOrUnset
  BY <1>3 DEF EvalSustain, Sample, Inv, TimerType, TimeOrUnset
<1>7. WorldType' /\ CountType' /\ TimerType'
  BY <1>1, <1>2, <1>5, <1>6, ClockAssumption DEF Inv, WorldType, CountType, TimerType
<1>8. FlagType'
  BY <1>1, <1>2, <1>4 DEF Inv, FlagType, meshVars, resultVars
<1>9. ResultType'
  BY <1>4 DEF Inv, ResultType, resultVars
<1>10. PlaceType' /\ HistoryType'
  BY <1>1, <1>2, <1>4 DEF Inv, PlaceType, HistoryType
<1>11. Control'
  <2>1. CASE pc' = "poll" /\ UNCHANGED resultVars
    BY <2>1, <1>1 DEF Inv, Control, InLoop, meshVars, resultVars
  <2>2. CASE pc' = "close" /\ failed' = TRUE /\ why' = "sustain violated" /\ UNCHANGED verdict
    BY <2>2, <1>1 DEF Inv, Control, InLoop, meshVars
  <2> QED BY <1>4, <2>1, <2>2
<1>12. Timers'
  <2> SUFFICES ASSUME InLoop' PROVE Timers'
    BY DEF Timers
  <2>1. Answer(QueryDue) = TRUE /\ P' = P
    BY <1>1, <1>2, <1>4 DEF InLoop, P
  <2>2. sat' => hold0' # Unset /\ streak' # Unset /\ streak' <= hold0'
    BY <2>1, <1>1, <1>2 DEF Inv, Timers
  <2>3. seen' \subseteq {TRUE}
    BY <2>1, <1>1, <1>2 DEF Inv, Timers
  <2>4. start' = start /\ start <= Seconds
    BY <1>1 DEF Inv, Timers
  <2> QED BY <1>2, <1>3, <1>5, <2>1, <2>2, <2>3, <2>4 DEF Timers
<1> QED BY <1>7, <1>8, <1>9, <1>10, <1>11, <1>12 DEF Inv

LEMMA SustainExpiresInv ==
  ASSUME Inv, SustainExpires
  PROVE  Inv'
<1>1. /\ InLoop /\ stall' = 0
      /\ UNCHANGED <<file, now, truth, alive, k, fileStart, start, sat, hold0, tcheck, tsample,
                     meshVars>>
  BY DEF SustainExpires, InLoop, Runs
<1>2. /\ Answer(FALSE) \in BOOLEAN
      /\ cache' \in [val : BOOLEAN, at : TimeOrUnset]
      /\ seen' = seen \union {Answer(FALSE)} /\ steady' = steady
      /\ streak' \in TimeOrUnset
  BY <1>1, ReadsTrue DEF SustainExpires
<1>3. \/ PhaseMet /\ UNCHANGED resultVars
      \/ /\ pc' = "close" /\ failed' = TRUE /\ why' = "sustain violated"
         /\ UNCHANGED <<verdict, ph, met>>
  BY DEF SustainExpires, Fail
<1> HIDE DEF Answer
<1>4. WorldType' /\ CountType' /\ TimerType'
  BY <1>1, <1>2, ClockAssumption DEF Inv, WorldType, CountType, TimerType
<1>5. FlagType'
  BY <1>1, <1>2, <1>3 DEF Inv, FlagType, meshVars, resultVars
<1>6. ResultType'
  BY <1>3 DEF Inv, ResultType, resultVars
<1>7. PlaceType' /\ Control' /\ HistoryType'
  <2>1. CASE PhaseMet /\ UNCHANGED resultVars
    BY <2>1, <1>1, <1>2, MetInv DEF Inv, HistoryType
  <2>2. CASE pc' = "close" /\ failed' = TRUE /\ why' = "sustain violated"
             /\ UNCHANGED <<verdict, ph, met>>
    <3>1. PlaceType' /\ HistoryType'
      BY <2>2, <1>1, <1>2 DEF Inv, PlaceType, HistoryType
    <3>2. Control'
      BY <2>2, <1>1 DEF Inv, Control, InLoop, meshVars
    <3> QED BY <3>1, <3>2
  <2> QED BY <1>3, <2>1, <2>2
<1>8. Timers'
  BY <1>3 DEF Timers, InLoop, PhaseMet
<1> QED BY <1>4, <1>5, <1>6, <1>7, <1>8 DEF Inv

LEMMA StepInv == Inv /\ [Next]_vars => Inv'
<1> SUFFICES ASSUME Inv, [Next]_vars PROVE Inv'
  OBVIOUS
<1>1. CASE UNCHANGED vars
  <2> USE <1>1 DEF Inv, vars, worldVars, timerVars, meshVars, resultVars, historyVars
  <2>1. WorldType' /\ PlaceType' /\ CountType'
    BY DEF WorldType, PlaceType, CountType
  <2>2. TimerType'
    BY DEF TimerType
  <2>3. FlagType'
    BY DEF FlagType
  <2>4. ResultType' /\ HistoryType'
    BY DEF ResultType, HistoryType
  <2>5. Control'
    BY DEF Control
  <2>6. Timers'
    BY DEF Timers, InLoop, Seconds, P
  <2> QED BY <2>1, <2>2, <2>3, <2>4, <2>5, <2>6
<1>2. CASE Next
  BY <1>2, OutsideInv, EnterInv, WorldInv, PollInv, EvalUntilInv, EvalSustainInv,
     SustainExpiresInv DEF Next, Runner, Outside
<1> QED BY <1>1, <1>2

LEMMA SpecInv == Spec => []Inv
BY InitInv, StepInv, PTL DEF Spec

-----------------------------------------------------------------------------
\* Timers stay unset or in the past of the clock's type, the phase index stays
\* within one of the file's phases and the mesh is torn down at most once.
THEOREM TypeCorrect == Spec => []TypeOK
<1>1. Inv => TypeOK
  <2> SUFFICES ASSUME Inv PROVE TypeOK
    OBVIOUS
  <2>1. torn \in 0..1
    BY DEF Inv, PlaceType, Control
  <2>2. {hold0, tcheck, tsample, streak} \subseteq TimeOrUnset
    BY DEF Inv, TimerType
  <2> QED BY <2>1, <2>2, Zenon DEF Inv, WorldType, PlaceType, CountType, TimerType, FlagType,
                                  ResultType, HistoryType, TypeOK
<1> QED BY <1>1, SpecInv, PTL

LEMMA WhoMoves ==
  ASSUME Next
  PROVE  /\ ph' = ph \/ EvalUntil \/ SustainExpires
         /\ pc = "eval" => pc' = pc \/ EvalUntil \/ EvalSustain \/ CondErrors
<1>1. CASE Tick \/ ConditionChanges \/ LastChildDies
  BY <1>1 DEF Tick, ConditionChanges, LastChildDies
<1>2. CASE Outside
  BY <1>2 DEF Outside, Load, Setup, SpawnOk, SpawnFails, Begin, AllPhasesDone, StepOk,
              StepFails, StepSkips, Close
<1>3. CASE EnterLoop \/ Poll \/ SustainExpires \/ EvalUntil \/ EvalSustain \/ CondErrors
  BY <1>3 DEF EnterLoop, Poll, EvalSustain, CondErrors, SustainExpires
<1> QED BY <1>1, <1>2, <1>3 DEF Next, Runner, Outside

\* run_until never counts time from before a flap.
THEOREM HoldIsObserved == Spec => HoldObserved
<1> DEFINE Held == UntilMet => streak' # Unset /\ Seconds - streak' >= P.hold
<1>1. Inv /\ [Next]_vars => [Held]_vars
  <2> SUFFICES ASSUME Inv, Next, UntilMet
               PROVE  streak' # Unset /\ Seconds - streak' >= P.hold
    OBVIOUS
  <2>1. EvalUntil /\ InLoop /\ ph' # ph
    BY WhoMoves DEF UntilMet, SustainExpires, InLoop, Inv, PlaceType
  <2>2. Answer(QueryDue) /\ (P.hold = 0 \/ HoldFires)
    BY <2>1 DEF EvalUntil, LatchNow
  <2>3. Seconds \in Nat /\ P.hold \in Nat
    <3>1. ph <= Len(file)
      BY <2>1 DEF Inv, Control, InLoop
    <3> QED BY <3>1, Second, PhaseType DEF Inv, WorldType, Seconds
  <2>4. /\ streak' # Unset /\ (streak # Unset => streak' = streak)
        /\ streak' \in TimeOrUnset /\ streak' <= Seconds
    <3>1. QueryDue \in BOOLEAN /\ now' = now /\ Refresh(QueryDue) /\ Observe(Answer(QueryDue))
      BY <2>1 DEF QueryDue, EvalUntil, Read, Runs
    <3> QED BY <2>1, <2>2, <3>1, ReadsTrue
  <2>5. CASE P.hold = 0
    <3>1. streak' \in Nat
      BY <2>4 DEF TimeOrUnset
    <3> QED BY <2>3, <2>4, <2>5, <3>1 DEF Seconds
  <2>6. CASE HoldFires
    <3>1. sat /\ Seconds - hold0 >= P.hold
      BY <2>6 DEF HoldFires, HoldArmed
    <3>2. streak # Unset /\ streak <= hold0
      BY <2>1, <3>1 DEF Inv, Timers
    <3>3. streak \in Nat /\ hold0 \in Nat
      BY <2>1, <3>1 DEF Inv, Timers, TimerType, TimeOrUnset
    <3> QED BY <2>3, <2>4, <3>1, <3>2, <3>3
  <2> QED BY <2>2, <2>5, <2>6
<1> HIDE DEF Held
<1>2. Spec => [][Held]_vars
  BY <1>1, SpecInv, PTL DEF Spec
<1> QED BY <1>2 DEF HoldObserved, Held

\* An evaluation uses an answer of this phase that is not kQueryGap seconds
\* old.
LEMMA ReadsFresh ==
  ASSUME Inv, pc = "eval", EvalUntil \/ EvalSustain, P.cond = "list"
  PROVE  /\ cache' # Unasked /\ cache'.at \in Int
         /\ cache'.at >= start * TPS /\ now - cache'.at < QueryGap * TPS
<1>1. Read /\ now' = now /\ InLoop
  BY DEF EvalUntil, EvalSustain, Runs, InLoop
<1>2. /\ cache' \in [val : BOOLEAN, at : TimeOrUnset]
      /\ start * TPS <= cache'.at /\ cache' # Unasked
  BY <1>1, ReadsTrue DEF Read, QueryDue
<1>3. /\ start \in Nat /\ now \in Nat /\ Seconds \in Nat /\ TPS \in Nat \ {0}
      /\ QueryGap \in Nat \ {0} /\ now < Seconds * TPS + TPS
  BY Second, ClockAssumption DEF Inv, WorldType, TimerType, Seconds
<1>4. cache'.at \in Int
  <2>1. cache'.at \in TimeOrUnset
    BY <1>2
  <2> QED BY <2>1, TimeType
<1>5. CASE QueryDue
  <2>1. cache'.at = now
    BY <1>1, <1>5 DEF Read, Refresh, Asks
  <2> QED BY <1>2, <1>3, <1>4, <2>1, GapPositive
<1>6. CASE ~QueryDue
  <2>1. tcheck' = tcheck /\ tcheck # Unset /\ ~(Seconds - tcheck >= QueryGap)
    BY <1>1, <1>6 DEF Read, QueryDue
  <2>2. tcheck \in Nat
    BY <2>1 DEF Inv, TimerType, TimeOrUnset
  <2>3. tcheck * TPS <= cache'.at
    BY <1>1, <2>1, QueryStamped
  <2>4. now - cache'.at < QueryGap * TPS
    BY <1>3, <1>4, <2>1, <2>2, <2>3, WithinGap
  <2> QED BY <1>2, <1>4, <2>4
<1> QED BY <1>5, <1>6

\* Neither loop evaluates a list answer of an earlier phase, or one that is
\* kQueryGap seconds old.
THEOREM AnswersAreFresh == Spec => AnswersFresh
<1> DEFINE Fresh == pc = "eval" /\ pc' # pc /\ P.cond = "list" /\ why' # "cond error" =>
                        /\ cache'.at >= start * TPS
                        /\ now - cache'.at < QueryGap * TPS
<1>1. Inv /\ [Next]_vars => [Fresh]_vars
  <2> SUFFICES ASSUME Inv, Next, pc = "eval", pc' # pc, P.cond = "list", why' # "cond error"
               PROVE  cache'.at >= start * TPS /\ now - cache'.at < QueryGap * TPS
    OBVIOUS
  <2>1. EvalUntil \/ EvalSustain
    BY WhoMoves DEF CondErrors, Fail
  <2> QED BY <2>1, ReadsFresh
<1> HIDE DEF Fresh
<1>2. Spec => [][Fresh]_vars
  BY <1>1, SpecInv, PTL DEF Spec
<1> QED BY <1>2 DEF AnswersFresh, Fresh

\* When the runner comes back to the head of a loop, the cached answer was
\* fresh at its last step.
Recent ==
    pc = "poll" /\ P.cond = "list" /\ cache # Unasked =>
        now - stall - cache.at < QueryGap * TPS

LEMMA RecentStep ==
  ASSUME Inv, Recent, [Next]_vars PROVE Recent'
<1> SUFFICES ASSUME pc' = "poll", P.cond' = "list", cache' # Unasked
             PROVE  now' - stall' - cache'.at < QueryGap * TPS
  BY DEF Recent
<1>1. CASE UNCHANGED vars
  BY <1>1 DEF vars, worldVars, timerVars, P, Recent
<1>2. CASE ConditionChanges \/ LastChildDies
  BY <1>2 DEF ConditionChanges, LastChildDies, timerVars, P, Recent
<1>3. CASE Tick
  <2>1. /\ pc = "poll" /\ P.cond = "list" /\ cache' = cache
        /\ now' = now + 1 /\ stall' = stall + 1
    BY <1>3 DEF Tick, timerVars, P
  <2>2. now' - stall' = now - stall
    BY <2>1 DEF Inv, WorldType
  <2> QED BY <2>1, <2>2 DEF Recent
<1>4. CASE EvalUntil \/ EvalSustain
  <2>1. pc = "eval" /\ file' = file /\ stall' = 0 /\ now' = now
    BY <1>4 DEF EvalUntil, EvalSustain, Runs
  <2>2. ph' = ph
    BY <1>4 DEF EvalUntil, EvalSustain, PhaseMet
  <2>3. P.cond = "list"
    BY <2>1, <2>2 DEF P
  <2>4. now - cache'.at < QueryGap * TPS /\ cache'.at \in Int
    BY <1>4, <2>1, <2>3, ReadsFresh
  <2>5. now' - stall' = now
    BY <2>1 DEF Inv, WorldType
  <2> QED BY <2>4, <2>5
<1>5. CASE EnterLoop
  BY <1>5 DEF EnterLoop
<1>6. CASE Outside \/ Poll \/ SustainExpires \/ CondErrors
  BY <1>6 DEF Outside, Load, Setup, SpawnOk, SpawnFails, Begin, AllPhasesDone, StepOk,
              StepFails, StepSkips, Close, Poll, SustainExpires, CondErrors, Fail, Leave,
              PhaseMet
<1> QED BY <1>1, <1>2, <1>3, <1>4, <1>5, <1>6 DEF Next, Runner, Outside

\* run_sustain passes only after its whole timeout and no false answer; its
\* last answer is of that moment, or for a list of its last query, less than
\* kQueryGap seconds before the last step but one.
THEOREM SustainIsUnbroken == Spec => SustainUnbroken
<1> DEFINE Watched == SustainMet =>
                 /\ seen' = {TRUE} /\ Seconds - start >= P.timeout
                 /\ P.cond = "read" => truth
                 /\ P.cond = "list" => now - cache'.at < QueryGap * TPS + MaxStall
<1>1. Inv /\ Recent /\ [Next]_vars => [Watched]_vars
  <2> SUFFICES ASSUME Inv, Recent, Next, SustainMet
               PROVE  /\ seen' = {TRUE} /\ Seconds - start >= P.timeout
                      /\ P.cond = "read" => truth
                      /\ P.cond = "list" => now - cache'.at < QueryGap * TPS + MaxStall
    OBVIOUS
  <2>1. SustainExpires /\ InLoop /\ ph' # ph
    BY WhoMoves DEF SustainMet, EvalUntil, InLoop, Inv, PlaceType
  <2>2. Answer(FALSE) /\ Seconds - start >= P.timeout /\ ~P.until
    BY <2>1 DEF SustainExpires, PhaseTimedOut
  <2>3. Answer(FALSE) \in BOOLEAN /\ seen' = seen \union {Answer(FALSE)}
    BY <2>1, ReadsTrue DEF SustainExpires, Runs
  <2>4. seen \subseteq {TRUE}
    BY <2>1, <2>2 DEF Inv, Timers
  <2>5. seen' = {TRUE}
    <3> HIDE DEF Answer
    <3> QED BY <2>2, <2>3, <2>4
  <2>6. P.cond = "read" => truth
    BY <2>2 DEF Answer
  <2>7. ASSUME P.cond = "list" PROVE now - cache'.at < QueryGap * TPS + MaxStall
    <3>1. pc = "poll" /\ cache' = IF cache = Unasked THEN [val |-> truth, at |-> now]
                                                    ELSE cache
      BY <2>1, <2>7 DEF SustainExpires, Refresh, Asks
    <3>2. /\ now \in Nat /\ stall \in 0..MaxStall /\ MaxStall \in Nat
          /\ QueryGap * TPS \in Nat
      BY ClockAssumption DEF Inv, WorldType
    <3>3. CASE cache = Unasked
      <4>1. cache'.at = now
        BY <3>1, <3>3
      <4> QED BY <3>2, <4>1, GapPositive
    <3>4. CASE cache # Unasked
      <4>1. cache.at \in Int
        <5>1. cache.at \in TimeOrUnset
          BY DEF Inv, TimerType
        <5> QED BY <5>1, TimeType
      <4>2. cache' = cache /\ now - stall - cache.at < QueryGap * TPS
        BY <2>7, <3>1, <3>4 DEF Recent
      <4> QED BY <3>2, <4>1, <4>2
    <3> QED BY <3>3, <3>4
  <2> QED BY <2>2, <2>5, <2>6, <2>7
<1> HIDE DEF Watched
<1>2. Init => Recent
  BY DEF Init, Recent
<1>3. Spec => [][Watched]_vars
  BY <1>1, <1>2, SpecInv, RecentStep, PTL DEF Spec
<1> QED BY <1>3 DEF SustainUnbroken, Watched

-----------------------------------------------------------------------------
(* Prompt needs two steps of the runner to fit into a second: with slower  *)
(* ones the timeout can fall between two polls that surround the end of    *)
(* the dwell.                                                              *)

Brisk == 2 * MaxStall <= TPS

LEMMA LatchedInTime ==
  ASSUME Brisk, NEW n \in Nat, NEW s \in Nat, NEW b \in Nat, NEW w \in 0..MaxStall,
         n - w < b * TPS + TPS + MaxStall, s * TPS <= n
  PROVE  s <= b + 1
<1>1. ASSUME NEW t \in Nat \ {0}, NEW m \in Nat, w <= m, 2 * m <= t,
             n - w < b * t + t + m, s * t <= n, b + 2 <= s
      PROVE  FALSE
  <2>1. (b + 2) * t <= s * t
    BY <1>1
  <2>2. (b + 2) * t = b * t + 2 * t
    OBVIOUS
  <2> QED BY <1>1, <2>1, <2>2
<1> QED BY <1>1, ClockAssumption DEF Brisk

LEMMA BeforeSecond ==
  ASSUME NEW n \in Nat, NEW s \in Nat, NEW c \in Nat, n < s * TPS + TPS, s + 1 <= c
  PROVE  n < c * TPS
<1>1. (s + 1) * TPS <= c * TPS
  BY Scaled
<1>2. ASSUME NEW t \in Nat PROVE (s + 1) * t = s * t + t
  OBVIOUS
<1>3. s * TPS + TPS <= c * TPS /\ s * TPS \in Int /\ c * TPS \in Int
  BY <1>1, <1>2, ClockAssumption
<1> QED BY <1>3, ClockAssumption

\* The poll that follows an evaluation before second c comes no later than in
\* the second after it.
LEMMA NextPoll ==
  ASSUME Brisk, NEW n \in Nat, NEW s \in Nat, NEW c \in Nat, NEW w \in 0..MaxStall,
         n - w < c * TPS, s * TPS <= n
  PROVE  s <= c
<1>1. ASSUME NEW t \in Nat \ {0}, w <= t, n - w < c * t, s * t <= n, c + 1 <= s
      PROVE  FALSE
  <2>1. (c + 1) * t <= s * t
    BY <1>1
  <2>2. (c + 1) * t = c * t + t
    OBVIOUS
  <2> QED BY <1>1, <2>1, <2>2
<1> QED BY <1>1, ClockAssumption DEF Brisk

\* The strict timeout of run_until does not come first.
LEMMA NoEarlyTimeout ==
  ASSUME Brisk, Inv, Prompt, pc = "poll", P.until, PhaseTimedOut, P.hold + 2 <= P.timeout
  PROVE  ~steady
<1> SUFFICES ASSUME steady PROVE FALSE
  OBVIOUS
<1>1. InLoop /\ ph <= Len(file)
  BY DEF InLoop, Inv, Control
<1>2. PICK h \in Nat, to \in Nat : h = P.hold /\ to = P.timeout
  BY <1>1, PhaseType DEF Inv
<1>3. PICK s \in Nat : s = Seconds /\ s * TPS <= now
  BY Second DEF Inv, WorldType, Seconds
<1>4. h + 2 <= to /\ s - start >= to
  BY <1>2, <1>3 DEF PhaseTimedOut
<1>5. start \in Nat /\ now \in Nat /\ stall \in 0..MaxStall
  BY DEF Inv, WorldType, TimerType
<1>6. CASE sat
  <2>1. hold0 \in Nat
    BY <1>1, <1>6 DEF Inv, Timers, TimerType, TimeOrUnset
  <2>2. hold0 <= start + 1 /\ now - stall < (hold0 + h) * TPS
    BY <1>1, <1>2, <1>6 DEF Prompt
  <2>3. hold0 + h \in Nat
    BY <1>2, <2>1
  <2>4. s <= hold0 + h
    BY <1>3, <1>5, <2>2, <2>3, NextPoll
  <2> QED BY <1>3, <1>4, <1>5, <2>1, <2>2, <2>4
<1>7. CASE ~sat
  <2>1. now - stall < start * TPS + TPS
    BY <1>1, <1>7 DEF Prompt
  <2>2. (start + 1) * TPS = start * TPS + TPS
    <3>1. ASSUME NEW t \in Nat PROVE (start + 1) * t = start * t + t
      BY <1>5
    <3> QED BY <3>1, ClockAssumption
  <2>3. s <= start + 1
    BY <1>3, <1>5, <2>1, <2>2, NextPoll
  <2> QED BY <1>2, <1>4, <1>5, <1>3, <2>3
<1> QED BY <1>6, <1>7

\* While the condition holds, every answer says so.
LEMMA SteadyAnswers ==
  ASSUME Inv, Prompt, InLoop, P.until, steady, NEW q \in BOOLEAN, Refresh(q)
  PROVE  truth /\ Answer(q) /\ (cache' = Unasked \/ cache'.val)
<1>1. truth /\ (cache = Unasked \/ cache.val)
  BY DEF Prompt
<1>2. P.cond \in Conds
  BY PhaseType DEF Inv, Control, InLoop
<1>3. Answer(q)
  <2>1. CASE P.cond = "read" \/ Asks(q)
    BY <1>1, <2>1 DEF Answer
  <2>2. CASE ~(P.cond = "read" \/ Asks(q))
    <3>1. cache # Unasked
      BY <1>2, <2>2 DEF Asks, Conds
    <3> QED BY <1>1, <2>2, <3>1 DEF Answer
  <2> QED BY <2>1, <2>2
<1>4. cache' = Unasked \/ cache'.val
  <2>1. CASE Asks(q)
    <3>1. cache' = [val |-> truth, at |-> now]
      BY <2>1 DEF Refresh
    <3>2. cache'.val = truth
      BY <3>1
    <3> QED BY <1>1, <3>2
  <2>2. CASE ~Asks(q)
    BY <1>1, <2>2 DEF Refresh
  <2> QED BY <2>1, <2>2
<1> QED BY <1>1, <1>3, <1>4

LEMMA EvalUntilPrompt ==
  ASSUME Brisk, Inv, Prompt, EvalUntil
  PROVE  Prompt'
<1>1. InLoop /\ ph <= Len(file) /\ P.until /\ pc = "eval"
  BY DEF InLoop, EvalUntil, Inv, Control
<1>2. CASE PhaseMet
  BY <1>2 DEF PhaseMet, Prompt, InLoop
<1>3. ASSUME pc' = "poll", ph' = ph, ~(LatchNow /\ (P.hold = 0 \/ HoldFires)), steady'
      PROVE  Prompt'
  <2>1. steady /\ Refresh(QueryDue) /\ QueryDue \in BOOLEAN
    BY <1>3 DEF EvalUntil, Read, Observe, QueryDue
  <2>2. truth /\ Answer(QueryDue) /\ (cache' = Unasked \/ cache'.val)
    BY <1>1, <2>1, SteadyAnswers
  <2>3. stall' = 0 /\ truth' = truth /\ now' = now /\ start' = start /\ file' = file
    BY DEF EvalUntil, Runs
  <2>4. P' = P
    BY <1>3, <2>3 DEF P
  <2>5. sat' /\ hold0' = IF HoldArmed = Unset THEN Seconds ELSE hold0
    BY <2>2 DEF EvalUntil, LatchNow
  <2>6. P.hold \in Nat /\ P.hold # 0 /\ ~HoldFires
    BY <1>1, <1>3, <2>2, PhaseType DEF Inv, LatchNow
  <2>7. /\ Seconds \in Nat /\ Seconds * TPS <= now /\ now < Seconds * TPS + TPS
        /\ now \in Nat /\ start \in Nat /\ stall \in 0..MaxStall
    BY Second DEF Inv, WorldType, TimerType, Seconds
  <2>8. hold0' <= start + 1 /\ hold0' \in Nat /\ Seconds + 1 <= hold0' + P.hold
    <3>1. CASE sat
      <4>1. hold0 # Unset /\ hold0 <= start + 1
        BY <1>1, <2>1, <3>1 DEF Prompt, Inv, Timers
      <4>2. hold0 \in Nat /\ hold0' = hold0
        BY <2>5, <3>1, <4>1 DEF HoldArmed, Inv, TimerType, TimeOrUnset
      <4>3. ~(Seconds - hold0 >= P.hold)
        BY <2>6, <3>1, <4>1 DEF HoldFires, HoldArmed
      <4>4. PICK h \in Nat : h = P.hold
        BY <2>6
      <4>5. PICK s \in Nat : s = Seconds
        BY <2>7
      <4>6. s + 1 <= hold0 + h
        BY <4>2, <4>3, <4>4, <4>5
      <4> QED BY <4>1, <4>2, <4>4, <4>5, <4>6
    <3>2. CASE ~sat
      <4>1. hold0' = Seconds
        BY <2>5, <3>2 DEF HoldArmed
      <4>2. now - stall < start * TPS + TPS + MaxStall
        BY <1>1, <2>1, <3>2 DEF Prompt
      <4>3. Seconds <= start + 1
        BY <2>7, <4>2, LatchedInTime
      <4>4. PICK h \in Nat : h = P.hold /\ h # 0
        BY <2>6
      <4>5. Seconds + 1 <= Seconds + h
        BY <2>7, <4>4
      <4> QED BY <2>7, <4>1, <4>3, <4>4, <4>5
    <3> QED BY <3>1, <3>2
  <2>9. now < (hold0' + P.hold) * TPS
    <3>1. hold0' + P.hold \in Nat
      BY <2>6, <2>8
    <3> QED BY <2>7, <2>8, <3>1, BeforeSecond
  <2>10. now' - stall' < (hold0' + P'.hold) * TPS
    BY <2>3, <2>4, <2>7, <2>9
  <2> QED BY <1>3, <2>2, <2>3, <2>5, <2>8, <2>10 DEF Prompt
<1>4. ASSUME pc' = "poll", ~steady' PROVE Prompt'
  BY <1>4 DEF Prompt
<1> QED BY <1>2, <1>3, <1>4 DEF EvalUntil

LEMMA StepPrompt == Brisk /\ Inv /\ Prompt /\ [Next]_vars => Prompt'
<1> SUFFICES ASSUME Brisk, Inv, Prompt, [Next]_vars PROVE Prompt'
  OBVIOUS
<1>1. CASE UNCHANGED vars
  BY <1>1 DEF Prompt, InLoop, P, vars, worldVars, timerVars, resultVars, historyVars
<1>2. CASE Tick
  <2>1. now' - stall' = now - stall
    BY <1>2 DEF Tick, Inv, WorldType
  <2> QED BY <1>2, <2>1 DEF Tick, Prompt, InLoop, P, timerVars, resultVars, historyVars
<1>3. CASE ConditionChanges
  BY <1>3 DEF ConditionChanges, Prompt, InLoop
<1>4. CASE LastChildDies
  BY <1>4 DEF LastChildDies, Prompt, InLoop, P, timerVars, resultVars, historyVars
<1>5. CASE Outside
  <2>1. pc' \notin {"poll", "eval"} /\ UNCHANGED <<file, ph, steady>>
    BY <1>5 DEF Outside, Load, Setup, SpawnOk, SpawnFails, Begin, AllPhasesDone, StepOk,
           StepFails, StepSkips, Close, Fail, Leave, Runs, historyVars
  <2>2. why' = "until timeout" => why = "until timeout" /\ pc \in {"close", "end"}
    BY <1>5 DEF Outside, Load, Setup, SpawnOk, SpawnFails, Begin, AllPhasesDone, StepOk,
           StepFails, StepSkips, Close, Fail, Leave, resultVars, Inv, Control, None
  <2> QED BY <2>1, <2>2 DEF Prompt, InLoop, P
<1>6. CASE EnterLoop
  <2>1. now - 0 < Seconds * TPS + TPS
    BY Second DEF Inv, WorldType, Seconds
  <2> QED BY <1>6, <2>1 DEF EnterLoop, Runs, Prompt
<1>7. CASE Poll
  <2>1. /\ UNCHANGED <<file, now, truth, ph, timerVars, historyVars>> /\ stall' = 0
        /\ pc = "poll"
    BY <1>7 DEF Poll, Runs
  <2>2. CASE pc' = "eval"
    <3>1. now - stall < start * TPS + TPS => now - 0 < start * TPS + TPS + MaxStall
      BY ClockAssumption DEF Inv, WorldType, TimerType
    <3> QED BY <2>1, <2>2, <3>1 DEF Prompt, InLoop, P, timerVars, historyVars
  <2>3. ASSUME pc' = "close" PROVE Prompt'
    <3>1. why' = "until timeout" => P.until /\ PhaseTimedOut
      BY <1>7, <2>3 DEF Poll, Fail
    <3>2. why' = "until timeout" /\ P.hold + 2 <= P.timeout => ~steady
      BY <2>1, <3>1, NoEarlyTimeout
    <3> QED BY <2>1, <2>3, <3>2 DEF Prompt, InLoop, P, historyVars
  <2> QED BY <1>7, <2>2, <2>3 DEF Poll, Fail
<1>8. CASE SustainExpires
  BY <1>8 DEF SustainExpires, PhaseMet, Fail, Prompt, InLoop
<1>9. CASE EvalUntil
  BY <1>9, EvalUntilPrompt
<1>10. CASE EvalSustain
  <2>1. ~P'.until
    BY <1>10 DEF EvalSustain, Runs, P
  <2>2. pc' = "poll" \/ why' = "sustain violated"
    BY <1>10 DEF EvalSustain, Fail
  <2> QED BY <2>1, <2>2 DEF Prompt
<1>11. CASE CondErrors
  BY <1>11 DEF CondErrors, Fail, Prompt, InLoop
<1> QED BY <1>1, <1>2, <1>3, <1>4, <1>5, <1>6, <1>7, <1>8, <1>9, <1>10, <1>11
        DEF Next, Runner, Outside

\* What CleanExit says at the end of a file, but for the timeouts.
ExitInOrder ==
    pc = "end" =>
        /\ verdict # None /\ ~up
        /\ torn = IF why \in {"load", "setup"} THEN 0 ELSE 1
        /\ forensics <=> failed
        /\ verdict = "pass" => met = 1..Len(file)

\* However long a step of the runner takes, every way out of suite_run_file
\* leaves one verdict and no mesh, torn down once and with forensics exactly
\* for a failure, and only a file all of whose phases were met passes.
THEOREM ExitsInOrder == Spec => []ExitInOrder
<1>1. Inv => ExitInOrder
  <2> SUFFICES ASSUME Inv, pc = "end" PROVE ExitInOrder
    BY DEF ExitInOrder
  <2>1. ASSUME verdict = "pass" PROVE met = 1..Len(file)
    <3>1. ph > Len(file) /\ ph \in 1..(Len(file) + 1) /\ Len(file) \in Nat
      BY <2>1, LenType DEF Inv, Control, PlaceType
    <3> QED BY <3>1 DEF Inv, Control
  <2> QED BY <2>1 DEF Inv, Control, ExitInOrder
<1> QED BY <1>1, SpecInv, PTL

\* If two steps of the runner fit into a second, an until phase whose
\* condition held from its first poll on is not timed out either, given two
\* seconds beyond hold_s.
THEOREM ExitsClean == Brisk => (Spec => []CleanExit)
<1> SUFFICES ASSUME Brisk PROVE Spec => []CleanExit
  OBVIOUS
<1>1. Spec => []Prompt
  <2>1. Inv /\ Prompt /\ [Next]_vars => Prompt'
    BY StepPrompt
  <2> QED BY <2>1, InitInv, SpecInv, PTL DEF Spec
<1>2. ExitInOrder /\ Prompt => CleanExit
  BY DEF ExitInOrder, Prompt, CleanExit
<1> QED BY <1>1, <1>2, ExitsInOrder, PTL
=============================================================================

---------------------------- MODULE PhaseRunner ----------------------------
(***************************************************************************)
(* One scenario file, as suite/exec.c runs it (suite_run_file, run_until,  *)
(* run_sustain) on the timers of run/run.c (run_hold, run_throttle).       *)
(*                                                                         *)
(* A file is loaded and checked, its mesh is set up and its nodes spawned, *)
(* then its phases run in order: the steps of a phase first, then a poll   *)
(* loop that either waits for a condition and a dwell (until) or watches   *)
(* one for the whole timeout (sustain).  Whatever happens, the mesh is     *)
(* torn down and one verdict is left.                                      *)
(*                                                                         *)
(* Time is `now`, in ticks; time(nullptr) is the second the tick is in.    *)
(* The system under test is `truth`: whether the phase's condition holds   *)
(* at this moment.  A condition is read in one of two ways: "read" ones    *)
(* (logs and journals) look at the system on every poll, "list" ones       *)
(* (workload lists, assignment, mesh count) look at a cached answer that   *)
(* a throttled query refreshes.                                            *)
(***************************************************************************)
EXTENDS Integers, Sequences

CONSTANTS
    Files,        \* scenario files: sequences of Phase records
    FileTimeout,  \* timeout_s of the file, seconds
    QueryGap,     \* kQueryGap, seconds
    SampleGap,    \* kSampleGapNs, in ticks
    TPS,          \* ticks in a second
    MaxStall      \* bound: ticks that one step of the runner may take

Conds == {"read", "list"}
Phase == [until : BOOLEAN, cond : Conds, timeout : Nat \ {0}, hold : Nat,
          steps : Nat]

\* What lint demands: a phase at least, and hold_s only with until and not
\* above timeout_s.
ASSUME FilesAssumption ==
    \A f \in Files :
        /\ f \in Seq(Phase) /\ f # <<>>
        /\ \A i \in 1..Len(f) :
               /\ f[i].hold <= f[i].timeout
               /\ ~f[i].until => f[i].hold = 0
ASSUME ClockAssumption ==
    /\ {FileTimeout, QueryGap, SampleGap, TPS} \subseteq Nat \ {0}
    /\ MaxStall \in Nat

VARIABLES
    file,      \* the file that runs
    now,       \* the clock, ticks since the file started
    stall,     \* ticks since the runner last took a step
    truth,     \* does the condition of the current phase hold now?
    alive,     \* is any child process alive?
    pc,        \* "load" "setup" "spawn" "begin" "step" "poll" "eval" "close" "end"
    ph,        \* the current phase, the loop variable i
    k,         \* steps of the phase already applied
    fileStart, \* file_start, in seconds
    start,     \* start of the poll loop, in seconds
    sat,       \* the latch of run_until
    hold0,     \* when run_hold was armed, in seconds; Unset for 0
    tcheck,    \* last query, in seconds; Unset for 0
    tsample,   \* last sample, in ticks; Unset for 0
    cache,     \* last answer of the list query, or Unasked
    failed,    \* the flag `failed`
    up,        \* the mesh exists
    torn,      \* calls of run_teardown that found the mesh up
    forensics, \* run_teardown was given forensics and a failure
    verdict,   \* None until file_verdict
    why,       \* what failed the file
    seen,      \* history: what the polls of this phase have evaluated to
    steady,    \* history: the condition held ever since the loop began
    streak,    \* history: second of the first of the latest unbroken trues
    met        \* history: phases whose loop returned true

None  == "none"
Unset == -1                              \* a timer that was never armed
Unasked == [val |-> FALSE, at |-> Unset] \* no answer is cached

worldVars   == <<now, stall, truth, alive>>
timerVars   == <<start, sat, hold0, tcheck, tsample, cache>>
meshVars    == <<up, torn, forensics>>
resultVars  == <<failed, verdict, why>>
historyVars == <<seen, steady, streak, met>>
vars == <<file, worldVars, pc, ph, k, fileStart, timerVars, meshVars, resultVars,
          historyVars>>

P       == file[ph]
Seconds == now \div TPS
TimeOrUnset == Nat \union {Unset}

TypeOK ==
    /\ file \in Files
    /\ now \in Nat /\ stall \in 0..MaxStall
    /\ truth \in BOOLEAN /\ alive \in BOOLEAN
    /\ pc \in {"load", "setup", "spawn", "begin", "step", "poll", "eval",
               "close", "end"}
    /\ ph \in 1..(Len(file) + 1)
    /\ k \in Nat
    /\ fileStart \in Nat /\ start \in Nat
    /\ sat \in BOOLEAN
    /\ {hold0, tcheck, tsample, streak} \subseteq TimeOrUnset
    /\ cache \in [val : BOOLEAN, at : TimeOrUnset]
    /\ failed \in BOOLEAN /\ up \in BOOLEAN /\ forensics \in BOOLEAN
    /\ torn \in 0..1
    /\ verdict \in {None, "pass", "fail", "skip"}
    /\ why \in {None, "load", "setup", "spawn", "step", "no child alive",
                "file timeout", "until timeout", "sustain violated",
                "cond error"}
    /\ seen \subseteq BOOLEAN /\ steady \in BOOLEAN
    /\ met \subseteq 1..Len(file)

Init ==
    /\ file \in Files
    /\ now = 0 /\ stall = 0 /\ truth \in BOOLEAN /\ alive = TRUE
    /\ pc = "load" /\ ph = 1 /\ k = 0 /\ fileStart = 0
    /\ start = 0 /\ sat = FALSE
    /\ hold0 = Unset /\ tcheck = Unset /\ tsample = Unset /\ cache = Unasked
    /\ up = FALSE /\ torn = 0 /\ forensics = FALSE
    /\ failed = FALSE /\ verdict = None /\ why = None
    /\ seen = {} /\ steady = TRUE /\ streak = Unset /\ met = {}

-----------------------------------------------------------------------------
(* The world.                                                              *)

Tick ==
    /\ pc # "end" /\ stall < MaxStall
    /\ now' = now + 1 /\ stall' = stall + 1
    /\ UNCHANGED <<file, truth, alive, pc, ph, k, fileStart, timerVars, meshVars,
                   resultVars, historyVars>>

ConditionChanges ==
    /\ pc \in {"poll", "eval"}
    /\ truth' = ~truth
    /\ steady' = FALSE
    /\ UNCHANGED <<file, now, stall, alive, pc, ph, k, fileStart, timerVars,
                   meshVars, resultVars, seen, streak, met>>

\* The last live child dies; only the polls look.
LastChildDies ==
    /\ alive /\ pc \in {"poll", "eval"}
    /\ alive' = FALSE
    /\ UNCHANGED <<file, now, stall, truth, pc, ph, k, fileStart, timerVars,
                   meshVars, resultVars, historyVars>>

\* Every step of the runner starts a fresh stall.
Runs == stall' = 0 /\ UNCHANGED <<file, now, truth, alive>>

-----------------------------------------------------------------------------
(* Before the phases.                                                      *)

\* run_teardown: once, and only on a mesh that is up.
Teardown(withForensics) ==
    /\ torn' = IF up THEN torn + 1 ELSE torn
    /\ forensics' = withForensics
    /\ up' = FALSE

\* file_verdict and the return value, on a path out of suite_run_file.
Leave(v, reason) ==
    /\ verdict' = v
    /\ why' = reason
    /\ pc' = "end"

\* Lint, needs, binaries and the run id: the file is loaded or it is not.
Load ==
    /\ pc = "load" /\ Runs
    /\ \/ pc' = "setup" /\ UNCHANGED resultVars
       \/ \E v \in {"fail", "skip"} : Leave(v, "load") /\ UNCHANGED failed
    /\ UNCHANGED <<ph, k, fileStart, timerVars, meshVars, historyVars>>

\* run_setup_*: a failure has unwound itself; TUN trouble is a skip.
Setup ==
    /\ pc = "setup" /\ Runs
    /\ \/ pc' = "spawn" /\ up' = TRUE /\ UNCHANGED resultVars
       \/ \E v \in {"fail", "skip"} :
              Leave(v, "setup") /\ UNCHANGED <<failed, up>>
    /\ UNCHANGED <<ph, k, fileStart, timerVars, torn, forensics, historyVars>>

SpawnOk ==
    /\ pc = "spawn" /\ Runs
    /\ fileStart' = Seconds
    /\ pc' = "begin"
    /\ UNCHANGED <<ph, k, timerVars, meshVars, resultVars, historyVars>>

\* A node or a ROS peer does not start, a listed binary is missing, or the
\* state directory has too long a name.
SpawnFails(v) ==
    /\ pc = "spawn" /\ Runs
    /\ Teardown(FALSE)
    /\ Leave(v, "spawn")
    /\ UNCHANGED <<ph, k, fileStart, timerVars, failed, historyVars>>

-----------------------------------------------------------------------------
(* The phases.                                                             *)

Begin ==
    /\ pc = "begin" /\ ph <= Len(file) /\ Runs
    /\ k' = 0
    /\ pc' = "step"
    /\ UNCHANGED <<ph, fileStart, timerVars, meshVars, resultVars, historyVars>>

AllPhasesDone ==
    /\ pc = "begin" /\ ph > Len(file) /\ Runs
    /\ pc' = "close"
    /\ UNCHANGED <<ph, k, fileStart, timerVars, meshVars, resultVars,
                   historyVars>>

\* Slip: the phase loop is left, the flag is not set.
FailUnflagged(reason) ==
    /\ why' = reason
    /\ pc' = "close"
    /\ UNCHANGED <<failed, verdict>>

\* The file fails: out of the phase loop.
Fail(reason) ==
    /\ failed' = TRUE
    /\ why' = reason
    /\ pc' = "close"
    /\ UNCHANGED verdict

StepOk ==
    /\ pc = "step" /\ k < P.steps /\ Runs
    /\ k' = k + 1
    /\ UNCHANGED <<pc, ph, fileStart, timerVars, meshVars, resultVars,
                   historyVars>>

StepFails ==
    /\ pc = "step" /\ k < P.steps /\ Runs
    /\ Fail("step")
    /\ UNCHANGED <<ph, k, fileStart, timerVars, meshVars, historyVars>>

\* A submit step finds fixed ids unsupported: the file is skipped.
StepSkips ==
    /\ pc = "step" /\ k < P.steps /\ Runs
    /\ Teardown(FALSE)
    /\ Leave("skip", "step")
    /\ UNCHANGED <<ph, k, fileStart, timerVars, failed, historyVars>>

\* Slip: the timers and answers of the phase before are kept.
EnterLoopStale ==
    /\ pc = "step" /\ k >= P.steps /\ Runs
    /\ start' = Seconds /\ sat' = FALSE /\ hold0' = Unset
    /\ seen' = {} /\ steady' = truth /\ streak' = Unset
    /\ pc' = "poll"
    /\ UNCHANGED <<ph, k, fileStart, tcheck, tsample, cache, meshVars,
                   resultVars, met>>

\* Timers and cached answers start afresh for the loop of this phase.
EnterLoop ==
    /\ pc = "step" /\ k >= P.steps /\ Runs
    /\ tcheck' = Unset /\ tsample' = Unset /\ cache' = Unasked
    /\ start' = Seconds /\ sat' = FALSE /\ hold0' = Unset
    /\ seen' = {} /\ steady' = truth /\ streak' = Unset
    /\ pc' = "poll"
    /\ UNCHANGED <<ph, k, fileStart, meshVars, resultVars, met>>

-----------------------------------------------------------------------------
(* The poll loop.                                                          *)

PhaseMet ==
    /\ met' = met \union {ph}
    /\ ph' = ph + 1
    /\ pc' = "begin"

FileTimedOut  == Seconds - fileStart >= FileTimeout
PhaseTimedOut == Seconds - start >= P.timeout

\* run_throttle: due on the first call, then once the gap has passed.
QueryDue == tcheck = Unset \/ Seconds - tcheck >= QueryGap

\* sample_slot, in ticks.
SampleDue == tsample = Unset \/ now - tsample >= SampleGap

\* The answer a read of the condition uses.  A list condition asks the
\* system when a query is due or nothing is cached, and otherwise believes
\* the cache.
Asks(query)   == P.cond = "list" /\ (query \/ cache = Unasked)
Answer(query) == IF P.cond = "read" \/ Asks(query) THEN truth ELSE cache.val
Refresh(query) ==
    cache' = IF Asks(query) THEN [val |-> truth, at |-> now] ELSE cache

\* What the loop has evaluated, for the properties.
Observe(v) ==
    /\ seen' = seen \union {v}
    /\ UNCHANGED steady
    /\ streak' = CASE ~v                  -> Unset
                   [] v /\ streak = Unset -> Seconds
                   [] OTHER               -> streak

\* Slip: run_alive without WNOHANG waits for a live child.
PollWaits ==
    /\ pc = "poll" /\ ~alive /\ Runs
    /\ Fail("no child alive")
    /\ UNCHANGED <<ph, k, fileStart, timerVars, meshVars, historyVars>>

\* The head of both loops: packets are pumped, then the exits are tested.
Poll ==
    /\ pc = "poll" /\ Runs
    /\ \/ /\ ~alive
          /\ Fail("no child alive")
       \/ /\ alive /\ FileTimedOut
          /\ Fail("file timeout")
       \/ /\ alive /\ ~FileTimedOut /\ PhaseTimedOut /\ P.until
          /\ Fail("until timeout")
       \/ /\ alive /\ ~FileTimedOut /\ ~PhaseTimedOut
          /\ pc' = "eval"
          /\ UNCHANGED resultVars
    /\ UNCHANGED <<ph, k, fileStart, timerVars, meshVars, historyVars>>

\* run_sustain past its timeout: one last read, without a query.
SustainExpires ==
    /\ pc = "poll" /\ Runs
    /\ alive /\ ~FileTimedOut /\ PhaseTimedOut /\ ~P.until
    /\ Refresh(FALSE)
    /\ Observe(Answer(FALSE))
    /\ \/ /\ Answer(FALSE)
          /\ PhaseMet /\ UNCHANGED resultVars
       \/ /\ ~Answer(FALSE)
          /\ Fail("sustain violated") /\ UNCHANGED <<ph, met>>
    /\ UNCHANGED <<k, fileStart, start, sat, hold0, tcheck, tsample, meshVars>>

\* The query throttle and the read that both loops make.
Read ==
    /\ tcheck' = IF QueryDue THEN Seconds ELSE tcheck
    /\ Refresh(QueryDue)
    /\ Observe(Answer(QueryDue))

Sample(may) == tsample' = IF may /\ SampleDue THEN now ELSE tsample

\* Slip: a flap leaves the latch set.
LatchKept == sat \/ Answer(QueryDue)

\* One evaluation of run_until: samples ride the query ticks; a false answer
\* clears the latch; a true one sets it, and with no hold_s ends the phase.
LatchNow == Answer(QueryDue)

\* run_hold: armed by the first call after the latch was set, fires later.
HoldArmed == IF sat THEN hold0 ELSE Unset
HoldFires == HoldArmed # Unset /\ Seconds - HoldArmed >= P.hold

EvalUntil ==
    /\ pc = "eval" /\ P.until /\ Runs
    /\ Read
    /\ Sample(QueryDue)
    /\ sat' = LatchNow
    /\ hold0' = CASE ~LatchNow                    -> Unset
                  [] LatchNow /\ HoldArmed = Unset -> Seconds
                  [] OTHER                        -> hold0
    /\ \/ /\ LatchNow /\ (P.hold = 0 \/ HoldFires)
          /\ PhaseMet
       \/ /\ ~(LatchNow /\ (P.hold = 0 \/ HoldFires))
          /\ pc' = "poll" /\ UNCHANGED <<ph, met>>
    /\ UNCHANGED <<k, fileStart, start, meshVars, resultVars>>

\* Slip: a false answer is only noted.
EvalSustainLax ==
    /\ pc = "eval" /\ ~P.until /\ Runs
    /\ Read
    /\ Sample(TRUE)
    /\ pc' = "poll"
    /\ UNCHANGED <<ph, k, fileStart, start, sat, hold0, meshVars, resultVars,
                   met>>

\* One evaluation of run_sustain: a false answer fails the file at once.
EvalSustain ==
    /\ pc = "eval" /\ ~P.until /\ Runs
    /\ Read
    /\ Sample(TRUE)
    /\ \/ /\ Answer(QueryDue)
          /\ pc' = "poll" /\ UNCHANGED resultVars
       \/ /\ ~Answer(QueryDue)
          /\ Fail("sustain violated")
    /\ UNCHANGED <<ph, k, fileStart, start, sat, hold0, meshVars, met>>

\* The condition names a workload that no step has submitted: eval_cond has
\* no answer, from the first read of the loop on.
CondErrors ==
    /\ seen = {} /\ Runs
    /\ \/ pc = "eval"
       \/ pc = "poll" /\ alive /\ ~FileTimedOut /\ PhaseTimedOut /\ ~P.until
    /\ Fail("cond error")
    /\ UNCHANGED <<ph, k, fileStart, timerVars, meshVars, historyVars>>

\* Peers stopped, flows dumped, the mesh torn down, the verdict given.
Close ==
    /\ pc = "close" /\ Runs
    /\ Teardown(failed)
    /\ verdict' = IF failed THEN "fail" ELSE "pass"
    /\ pc' = "end"
    /\ UNCHANGED <<ph, k, fileStart, timerVars, failed, why, historyVars>>

-----------------------------------------------------------------------------
Runner ==
    \/ Load \/ Setup \/ SpawnOk \/ (\E v \in {"fail", "skip"} : SpawnFails(v))
    \/ Begin \/ AllPhasesDone \/ StepOk \/ StepFails \/ StepSkips \/ EnterLoop
    \/ Poll \/ SustainExpires \/ EvalUntil \/ EvalSustain \/ CondErrors \/ Close

Next == Runner \/ Tick \/ ConditionChanges \/ LastChildDies

Spec == Init /\ [][Next]_vars

(***************************************************************************)
(* The runner is one sequential process that never blocks for long (poll   *)
(* waits 100 ms) and the clock advances; nothing is assumed of the system  *)
(* under test.                                                             *)
(***************************************************************************)
Fairness == WF_vars(Runner) /\ WF_vars(Tick)

FairSpec == Spec /\ Fairness

-----------------------------------------------------------------------------
(* Properties.                                                             *)

UntilMet   == pc = "eval" /\ P.until /\ ph' = ph + 1
SustainMet == pc = "poll" /\ ph' = ph + 1

\* An until phase advances only after hold_s seconds in which every poll saw
\* its condition true: run_until's latch and run_hold's timer never count
\* time from before a flap.
HoldObserved ==
    [][UntilMet => streak' # Unset /\ Seconds - streak' >= P.hold]_vars

\* A sustain phase passes only after its whole timeout, with no false answer
\* from any poll of it, the last read included.  What the last answer says of
\* the moment of the pass depends on the condition: a journal or log holds
\* then, a list did at its last query, which was less than kQueryGap seconds
\* old at the evaluation before.  A violation of a list condition that falls
\* between its last query and the end is not seen, for the last read asks the
\* cache: there "a break on the exact-expiry poll still fails the phase" (the
\* comment in run_sustain) is not what the code does.
SustainUnbroken ==
    [][SustainMet =>
           /\ seen' = {TRUE} /\ Seconds - start >= P.timeout
           /\ P.cond = "read" => truth
           /\ P.cond = "list" => now - cache'.at < QueryGap * TPS + MaxStall]_vars

\* An evaluation in either loop never uses a list answer from an earlier
\* phase, nor one that is kQueryGap seconds old.
AnswersFresh ==
    [][pc = "eval" /\ pc' # pc /\ P.cond = "list" /\ why' # "cond error" =>
           /\ cache'.at >= start * TPS
           /\ now - cache'.at < QueryGap * TPS]_vars

\* Every way out of suite_run_file leaves one verdict and no mesh: what
\* run_setup built is torn down once, with forensics exactly when a phase
\* failed; and the file passes only when every one of its phases did.  Nor
\* does it fail for want of time where there was some: an until phase whose
\* condition held from its first poll on is not timed out, if hold_s leaves
\* two seconds of timeout_s (docs/yaml: "until waits for its one condition,
\* latches, waits out hold_s, then advances").  With less the strict timeout
\* of run_until may come first.
CleanExit ==
    pc = "end" =>
        /\ verdict # None /\ ~up
        /\ torn = IF why \in {"load", "setup"} THEN 0 ELSE 1
        /\ forensics <=> failed
        /\ verdict = "pass" => met = 1..Len(file)
        /\ why = "until timeout" /\ P.hold + 2 <= P.timeout => ~steady

\* Whatever the system under test does, the file ends.
FileEnds == <>(pc = "end")
=============================================================================

------------------------------ MODULE RunPool ------------------------------
(***************************************************************************)
(* The process pool of `rsuite run` (cmd/main.c, run_forked): one forked   *)
(* child per scenario file, at most Jobs of them at a time, a shutdown     *)
(* signal that may arrive at any moment, and the killing of whatever a     *)
(* child leaves behind in its process group.                               *)
(*                                                                         *)
(* The parent is sequential: `pc` is its place in the loop.  The children, *)
(* what they start, and the arrival of signals run beside it.  A child's   *)
(* leftovers are its SUT processes ("sut", exec'd, so they hold none of    *)
(* the pool's pipes; they may sit out a TERM) and its relay pump ("pump",  *)
(* forked without exec by driver/weld.c, so it holds the write end of the  *)
(* child's result pipe).                                                   *)
(***************************************************************************)
EXTENDS Integers, FiniteSets

CONSTANTS N,          \* number of scenario files
          Jobs,       \* --jobs
          RelayCrash  \* whether a child may crash while its relay pump lives

ASSUME PoolAssumption == N \in Nat \ {0} /\ Jobs \in Nat \ {0}
                         /\ RelayCrash \in BOOLEAN

Files    == 1..N
Verdicts == {"pass", "fail", "skip"}
Statuses == {"ok", "skip", "fail", "signal"}   \* how a child ended

VARIABLES
    pc,      \* "top" "launch" "reap" "drain" "orphan" "grace" "exit"
    next,    \* index of the next file to launch, 1-based
    live,    \* the counter of live slots
    count,   \* the counters pass, fail and skip
    slot,    \* "new" | "live" | "closing" (inside finish_slot) | "done"
    verdict, \* Slot.v
    fin,     \* the slot finish_slot works on; 0 for none
    sawSig,  \* SawSig
    sigAt,   \* SigAt: "unset" | "stamped" | "over" (KillGrace has passed)
    child,   \* "none" | "run" | "zombie" | "reaped", per file
    status,  \* exit status of a child that ended
    group,   \* the other live members of the child's process group
    hit      \* strongest signal the parent sent that group

poolVars  == <<pc, next, live, count, slot, verdict, fin>>
sigVars   == <<sawSig, sigAt>>
childVars == <<child, status, group, hit>>
vars      == <<poolVars, sigVars, childVars>>

TypeOK ==
    /\ pc \in {"top", "launch", "reap", "drain", "orphan", "grace", "exit"}
    /\ next \in 1..(N + 1)
    /\ live \in 0..Jobs
    /\ count \in [Verdicts -> 0..N]
    /\ slot \in [Files -> {"new", "live", "closing", "done"}]
    /\ verdict \in [Files -> Verdicts]
    /\ fin \in 0..N
    /\ sawSig \in BOOLEAN
    /\ sigAt \in {"unset", "stamped", "over"}
    /\ child \in [Files -> {"none", "run", "zombie", "reaped"}]
    /\ status \in [Files -> Statuses]
    /\ group \in [Files -> SUBSET {"sut", "pump"}]
    /\ hit \in [Files -> {"none", "TERM", "KILL"}]

\* slot_init: every verdict is FAIL until a child earns another.
Init ==
    /\ pc = "top" /\ next = 1 /\ live = 0 /\ fin = 0
    /\ count = [v \in Verdicts |-> 0]
    /\ slot = [f \in Files |-> "new"]
    /\ verdict = [f \in Files |-> "fail"]
    /\ sawSig = FALSE /\ sigAt = "unset"
    /\ child = [f \in Files |-> "none"]
    /\ status = [f \in Files |-> "fail"]
    /\ group = [f \in Files |-> {}]
    /\ hit = [f \in Files |-> "none"]

-----------------------------------------------------------------------------
(* The parent.                                                             *)

\* tally: count one verdict.
Tally(v) == [count EXCEPT ![v] = @ + 1]

LoopOn == next <= N \/ live > 0

\* Slip: the walk over the slots starts at the next file.
SignalSlotsFromNext(sig) ==
    hit' = [f \in Files |-> IF slot[f] = "live" /\ f >= next THEN sig ELSE hit[f]]

\* Slip: slot_sig without its test of live.
SignalSlotsEver(sig) ==
    hit' = [f \in Files |-> IF slot[f] = "new" THEN hit[f] ELSE sig]

\* slot_sig over every slot: the group of each live one gets the signal.
SignalSlots(sig) ==
    hit' = [f \in Files |-> IF slot[f] = "live" THEN sig ELSE hit[f]]

\* Loop head without a pending shutdown.
TopQuiet ==
    /\ pc = "top" /\ LoopOn /\ ~sawSig
    /\ pc' = "launch"
    /\ UNCHANGED <<next, live, count, slot, verdict, fin, sigVars, childVars>>

\* Loop head after a signal: stamp the first tick, TERM, then KILL once
\* KillGrace has passed.
TopSignalled ==
    /\ pc = "top" /\ LoopOn /\ sawSig
    /\ sigAt' = IF sigAt = "unset" THEN "stamped" ELSE sigAt
    /\ SignalSlots(IF sigAt = "over" THEN "KILL" ELSE "TERM")
    /\ pc' = "launch"
    /\ UNCHANGED <<next, live, count, slot, verdict, fin, sawSig,
                   child, status, group>>

MayLaunch == next <= N /\ live < Jobs /\ ~sawSig

\* launch_one forks the child, which leads a process group of its own (both
\* sides call setpgid, and the parent's call cannot fail on a child that has
\* not exec'd and is not reaped).
Launch ==
    /\ pc = "launch" /\ MayLaunch
    /\ slot' = [slot EXCEPT ![next] = "live"]
    /\ child' = [child EXCEPT ![next] = "run"]
    /\ live' = live + 1
    /\ next' = next + 1
    /\ UNCHANGED <<pc, count, verdict, fin, sigVars, status, group, hit>>

\* The file is not readable, or pipe or fork fails: no child, tallied at once.
LaunchFails ==
    /\ pc = "launch" /\ MayLaunch
    /\ slot' = [slot EXCEPT ![next] = "done"]
    /\ count' = Tally(verdict[next])
    /\ next' = next + 1
    /\ UNCHANGED <<pc, live, verdict, fin, sigVars, childVars>>

\* Pipes are read and the children looked at, unless none is live.
ToPoll ==
    /\ pc = "launch" /\ ~MayLaunch /\ live > 0
    /\ pc' = "reap"
    /\ UNCHANGED <<next, live, count, slot, verdict, fin, sigVars, childVars>>

\* Slip: the tail starts one file late.
InterruptedLate == {f \in Files : sawSig /\ f > next}

\* Break out of the loop, or its condition fails: files never started after
\* a signal are failed as interrupted, then everything is reported.
Interrupted == {f \in Files : sawSig /\ f >= next}

Finish ==
    /\ \/ pc = "top" /\ ~LoopOn
       \/ pc = "launch" /\ ~MayLaunch /\ live <= 0
    /\ verdict' = [f \in Files |-> IF f \in Interrupted THEN "fail"
                                   ELSE verdict[f]]
    /\ slot' = [f \in Files |-> IF f \in Interrupted THEN "done" ELSE slot[f]]
    /\ count' = [count EXCEPT !["fail"] = @ + Cardinality(Interrupted)]
    /\ pc' = "exit"
    /\ UNCHANGED <<next, live, fin, sigVars, childVars>>

\* reap_all: waitpid yields a child; finish_slot forgets its pid at once and
\* goes on to drain the result pipe.
Reap(f) ==
    /\ pc = "reap" /\ child[f] = "zombie"
    /\ child' = [child EXCEPT ![f] = "reaped"]
    /\ slot' = [slot EXCEPT ![f] = "closing"]
    /\ fin' = f
    /\ pc' = "drain"
    /\ UNCHANGED <<next, live, count, verdict, sigVars, status, group, hit>>

ReapNone ==
    /\ pc = "reap" /\ \A f \in Files : child[f] # "zombie"
    /\ pc' = "top"
    /\ UNCHANGED <<next, live, count, slot, verdict, fin, sigVars, childVars>>

\* drain reads until end of file: until nobody holds the write end.
ResultPipeClosed(f) == "pump" \notin group[f]

Drain ==
    /\ pc = "drain" /\ ResultPipeClosed(fin)
    /\ pc' = "orphan"
    /\ UNCHANGED <<next, live, count, slot, verdict, fin, sigVars, childVars>>

\* The verdict finish_slot reads off the exit status.
VerdictOf(st) == CASE st = "ok"   -> "pass"
                   [] st = "skip" -> "skip"
                   [] OTHER       -> "fail"

\* Slip: the live counter is not lowered.
SettleUncounted ==
    /\ verdict' = [verdict EXCEPT ![fin] = VerdictOf(status[fin])]
    /\ slot' = [slot EXCEPT ![fin] = "done"]
    /\ count' = Tally(VerdictOf(status[fin]))
    /\ fin' = 0
    /\ pc' = "reap"
    /\ UNCHANGED <<next, live, sigVars>>

\* The end of finish_slot and of one turn of reap_all.
Settle ==
    /\ verdict' = [verdict EXCEPT ![fin] = VerdictOf(status[fin])]
    /\ slot' = [slot EXCEPT ![fin] = "done"]
    /\ count' = Tally(VerdictOf(status[fin]))
    /\ live' = live - 1
    /\ fin' = 0
    /\ pc' = "reap"
    /\ UNCHANGED <<next, sigVars>>

\* slot_orphan finds the group gone.
NoOrphans ==
    /\ pc = "orphan" /\ group[fin] = {}
    /\ Settle
    /\ UNCHANGED childVars

\* slot_orphan sends TERM and starts to wait up to KillGrace.
OrphansTerm ==
    /\ pc = "orphan" /\ group[fin] # {}
    /\ hit' = [hit EXCEPT ![fin] = "TERM"]
    /\ pc' = "grace"
    /\ UNCHANGED <<next, live, count, slot, verdict, fin, sigVars,
                   child, status, group>>

OrphansGone ==
    /\ pc = "grace" /\ group[fin] = {}
    /\ Settle
    /\ UNCHANGED childVars

\* Slip: leftovers that sit out the TERM are left alone.
OrphansLeft ==
    /\ pc = "grace" /\ group[fin] # {}
    /\ Settle
    /\ UNCHANGED childVars

\* KillGrace runs out: KILL, and no further wait.
OrphansKill ==
    /\ pc = "grace" /\ group[fin] # {}
    /\ hit' = [hit EXCEPT ![fin] = "KILL"]
    /\ Settle
    /\ UNCHANGED <<child, status, group>>

Parent ==
    \/ TopQuiet \/ TopSignalled \/ Launch \/ LaunchFails \/ ToPoll \/ Finish
    \/ (\E f \in Files : Reap(f)) \/ ReapNone \/ Drain
    \/ NoOrphans \/ OrphansTerm \/ OrphansGone \/ OrphansKill

-----------------------------------------------------------------------------
(* The children, their process groups, signals and time.                   *)

\* A running child starts SUT nodes or a relay pump in its group.  fork does
\* not return to a caller with a signal pending.
Starts(f, m) ==
    /\ child[f] = "run" /\ hit[f] = "none" /\ m \notin group[f]
    /\ group' = [group EXCEPT ![f] = @ \union {m}]
    /\ UNCHANGED <<poolVars, sigVars, child, status, hit>>

\* run_teardown and the relay stop: the child reaps what it started.
TearsDown(f) ==
    /\ child[f] = "run" /\ group[f] # {}
    /\ group' = [group EXCEPT ![f] = {}]
    /\ UNCHANGED <<poolVars, sigVars, child, status, hit>>

\* child_main: the file has run and was torn down; the verdict is the code.
Exits(f, st) ==
    /\ child[f] = "run" /\ group[f] = {}
    /\ child' = [child EXCEPT ![f] = "zombie"]
    /\ status' = [status EXCEPT ![f] = st]
    /\ UNCHANGED <<poolVars, sigVars, group, hit>>

\* A child dies of a crash of its own, with no teardown.
Crashes(f) ==
    /\ child[f] = "run"
    /\ "pump" \in group[f] => RelayCrash
    /\ child' = [child EXCEPT ![f] = "zombie"]
    /\ status' = [status EXCEPT ![f] = "signal"]
    /\ UNCHANGED <<poolVars, sigVars, group, hit>>

\* A child keeps the default handlers (sig_def), so TERM ends it.
DiesOfSignal(f) ==
    /\ child[f] = "run" /\ hit[f] # "none"
    /\ child' = [child EXCEPT ![f] = "zombie"]
    /\ status' = [status EXCEPT ![f] = "signal"]
    /\ UNCHANGED <<poolVars, sigVars, group, hit>>

\* Nothing outlives a KILL, and the pump has the default handlers too; a SUT
\* may or may not heed a TERM.
Heeds(f, m) ==
    \/ hit[f] = "KILL"
    \/ hit[f] = "TERM" /\ m = "pump"

MemberDies(f, m) ==
    /\ m \in group[f] /\ Heeds(f, m)
    /\ group' = [group EXCEPT ![f] = @ \ {m}]
    /\ UNCHANGED <<poolVars, sigVars, child, status, hit>>

SutHeedsTerm(f) ==
    /\ "sut" \in group[f] /\ hit[f] = "TERM"
    /\ group' = [group EXCEPT ![f] = @ \ {"sut"}]
    /\ UNCHANGED <<poolVars, sigVars, child, status, hit>>

\* SIGINT or SIGTERM reaches the parent: on_sig.
Signal ==
    /\ ~sawSig /\ pc # "exit"
    /\ sawSig' = TRUE
    /\ UNCHANGED <<poolVars, sigAt, childVars>>

GracePasses ==
    /\ sigAt = "stamped" /\ pc # "exit"
    /\ sigAt' = "over"
    /\ UNCHANGED <<poolVars, sawSig, childVars>>

ChildMoves(f) ==
    \/ \E m \in {"sut", "pump"} : Starts(f, m) \/ MemberDies(f, m)
    \/ TearsDown(f)
    \/ \E st \in {"ok", "skip", "fail"} : Exits(f, st)
    \/ Crashes(f)
    \/ DiesOfSignal(f)
    \/ SutHeedsTerm(f)

Next == Parent \/ (\E f \in Files : ChildMoves(f)) \/ Signal \/ GracePasses

Spec == Init /\ [][Next]_vars

(***************************************************************************)
(* The parent runs until it exits and blocks only in drain.  The kernel    *)
(* delivers signals, and time passes.  These hold whatever the scenarios   *)
(* do.                                                                     *)
(***************************************************************************)
KernelFairness ==
    /\ WF_vars(Parent)
    /\ WF_vars(GracePasses)
    /\ \A f \in Files :
           /\ WF_vars(DiesOfSignal(f))
           /\ \A m \in {"sut", "pump"} : WF_vars(MemberDies(f, m))

KernelSpec == Spec /\ KernelFairness

-----------------------------------------------------------------------------
(* Properties.                                                             *)

\* The counters the summary prints and the exit code is made of agree with
\* the verdicts of the files at every step, whichever path settled a file:
\* launch failure, exit, crash, orphan kill or interruption.  When run_forked
\* reports, every file has its verdict, though the signal may arrive between
\* any two tests of SawSig: no file is lost between the launch loop and the
\* interrupted tail.  Nor are the verdicts idle: a file is reported passed or
\* skipped only for a child that was reaped and exited so by itself; a
\* crashed, killed or never started one has failed.
TallyTrue ==
    /\ \A v \in Verdicts :
           count[v] = Cardinality({f \in Files : slot[f] = "done"
                                                 /\ verdict[f] = v})
    /\ live = Cardinality({f \in Files : slot[f] \in {"live", "closing"}})
    /\ live <= Jobs
    /\ pc = "exit" => \A f \in Files : slot[f] = "done"
    /\ \A f \in Files :
           /\ verdict[f] # "fail" => child[f] = "reaped"
           /\ verdict[f] = "pass" => status[f] = "ok"
           /\ verdict[f] = "skip" => status[f] = "skip"

\* The parent signals a process group only while it has not reaped the
\* group's leader, or while finish_slot closes its slot: never that of a file
\* whose slot is free again, when the kernel may long have handed its number
\* to someone else.
SignalsAimed ==
    [][\A f \in Files : hit'[f] # hit[f] =>
           child[f] \in {"run", "zombie"} \/ slot[f] = "closing"]_vars

\* Ctrl-C ends the pool even when scenarios hang and SUTs ignore TERM.
InterruptEnds == sawSig ~> pc = "exit"

\* If every child ends (the file and phase timeouts of suite/exec.c bound its
\* loops), so does the pool: its counters leave no turn without an exit.
PoolEnds ==
    (\A f \in Files : child[f] = "run" ~> child[f] # "run") => <>(pc = "exit")

\* cmd/main.c on slot_orphan: "Kills leftover group members after a child is
\* reaped", and on slot_sig: "so no orphans keep netns or TUN".  A reaped
\* child starts nothing more, so in the end no reaped child has a group.
LeftoversDie ==
    <>[](\A f \in Files : child[f] = "reaped" => group[f] = {})
=============================================================================

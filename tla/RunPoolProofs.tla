--------------------------- MODULE RunPoolProofs ---------------------------
(***************************************************************************)
(* The pool's counters, verdicts and signals, for any number of files, any *)
(* --jobs, and whether or not a child may crash under its relay pump.      *)
(***************************************************************************)
EXTENDS RunPool, FiniteSetTheorems, TLAPS

Settled(v) == {f \in Files : slot[f] = "done" /\ verdict[f] = v}
Busy       == {f \in Files : slot[f] \in {"live", "closing"}}
Closing    == pc \in {"drain", "orphan", "grace"}

\* The launch loop has passed exactly the files that are no longer new; the
\* slot of a child that was not reaped is live, and the one slot between the
\* two is the one finish_slot works on.
Places ==
    /\ pc # "exit" => \A f \in Files : f >= next <=> slot[f] = "new"
    /\ \A f \in Files : slot[f] = "new" => verdict[f] = "fail"
    /\ \A f \in Files : slot[f] = "live" <=> child[f] \in {"run", "zombie"}
    /\ \A f \in Files : slot[f] = "closing"
                          => Closing /\ fin = f /\ child[f] = "reaped"
    /\ Closing => fin \in Files /\ slot[fin] = "closing"

\* A verdict other than FAIL was earned by a child that is gone for good.
Earned ==
    \A f \in Files :
        /\ verdict[f] # "fail" => child[f] = "reaped"
        /\ verdict[f] = "pass" => status[f] = "ok"
        /\ verdict[f] = "skip" => status[f] = "skip"

Counted ==
    /\ \A v \in Verdicts : count[v] = Cardinality(Settled(v))
    /\ live = Cardinality(Busy)

Ended == pc = "exit" => \A f \in Files : slot[f] = "done"

Inv == TypeOK /\ Places /\ Earned /\ Counted /\ Ended

-----------------------------------------------------------------------------
(* Counting.                                                               *)

LEMMA PartOfFiles ==
  ASSUME NEW S \in SUBSET Files
  PROVE  IsFiniteSet(S) /\ Cardinality(S) \in 0..N
<1>1. IsFiniteSet(Files) /\ Cardinality(Files) = N
  BY FS_Interval, PoolAssumption DEF Files
<1>2. IsFiniteSet(S) /\ Cardinality(S) <= N
  BY <1>1, FS_Subset
<1>3. Cardinality(S) \in Nat
  BY <1>2, FS_CardinalityType
<1> QED BY <1>2, <1>3, PoolAssumption

LEMMA OneMore ==
  ASSUME NEW S \in SUBSET Files, NEW f \in Files \ S
  PROVE  Cardinality(S \union {f}) = Cardinality(S) + 1
BY PartOfFiles, FS_AddElement

LEMMA OneLess ==
  ASSUME NEW S \in SUBSET Files, NEW f \in S
  PROVE  Cardinality(S \ {f}) = Cardinality(S) - 1
BY PartOfFiles, FS_RemoveElement

\* A step that settles one file with verdict v and tallies v keeps the
\* counters true.
LEMMA SettlesOne ==
  ASSUME TypeOK, Counted, NEW x \in Files, slot[x] # "done", NEW v \in Verdicts,
         slot' = [slot EXCEPT ![x] = "done"],
         verdict' = [verdict EXCEPT ![x] = v],
         count' = Tally(v)
  PROVE  /\ \A w \in Verdicts : count'[w] = Cardinality(Settled(w)')
         /\ count' \in [Verdicts -> 0..N]
<1>1. ASSUME NEW w \in Verdicts PROVE count'[w] = Cardinality(Settled(w)')
  <2>1. Settled(w) \in SUBSET Files /\ x \notin Settled(w)
    BY DEF Settled
  <2>2. CASE w = v
    <3>1. Settled(w)' = Settled(w) \union {x}
      BY <2>2 DEF Settled, TypeOK
    <3>2. count'[w] = count[w] + 1
      BY <2>2 DEF Tally, TypeOK
    <3> QED BY <2>1, <3>1, <3>2, OneMore DEF Counted
  <2>3. CASE w # v
    <3>1. Settled(w)' = Settled(w)
      BY <2>3 DEF Settled, TypeOK
    <3>2. count'[w] = count[w]
      BY <2>3 DEF Tally, TypeOK
    <3> QED BY <3>1, <3>2 DEF Counted
  <2> QED BY <2>2, <2>3
<1>2. ASSUME NEW w \in Verdicts PROVE count'[w] \in 0..N
  <2>1. Settled(w)' \in SUBSET Files
    BY DEF Settled
  <2> QED BY <1>1, <2>1, PartOfFiles
<1>3. count' = [w \in Verdicts |-> count'[w]]
  BY DEF Tally, TypeOK
<1> QED BY <1>1, <1>2, <1>3

LEMMA LiveType ==
  ASSUME Counted PROVE live \in 0..N
<1>1. Busy \in SUBSET Files
  BY DEF Busy
<1> QED BY <1>1, PartOfFiles DEF Counted

-----------------------------------------------------------------------------
(* The initial state, and one lemma per kind of step.                      *)

LEMMA InitInv == Init => Inv
<1> SUFFICES ASSUME Init PROVE Inv
  OBVIOUS
<1> USE DEF Init
<1>1. TypeOK
  <2>1. next \in 1..(N + 1) /\ live \in 0..Jobs /\ fin \in 0..N
    BY PoolAssumption
  <2>2. 0 \in 0..N /\ "fail" \in Verdicts /\ "fail" \in Statuses
    BY PoolAssumption DEF Verdicts, Statuses
  <2> QED BY <2>1, <2>2 DEF TypeOK
<1>2. Places
  BY PoolAssumption DEF Places, Closing, Files
<1>3. Earned /\ Ended
  BY DEF Earned, Ended
<1>4. Busy = {} /\ \A v \in Verdicts : Settled(v) = {}
  BY DEF Busy, Settled
<1>5. Counted
  BY <1>4, FS_EmptySet DEF Counted
<1> QED BY <1>1, <1>2, <1>3, <1>5 DEF Inv

\* The end of finish_slot.
LEMMA SettleInv ==
  ASSUME Inv, Closing, Settle, UNCHANGED <<child, status, group>>,
         hit' \in [Files -> {"none", "TERM", "KILL"}]
  PROVE  Inv'
<1> DEFINE v == VerdictOf(status[fin])
<1>1. fin \in Files /\ slot[fin] = "closing" /\ child[fin] = "reaped"
  BY DEF Inv, Places
<1>2. v \in Verdicts /\ (v = "pass" => status[fin] = "ok") /\ (v = "skip" => status[fin] = "skip")
  BY <1>1 DEF Inv, TypeOK, Statuses, VerdictOf, Verdicts
<1>3. (\A w \in Verdicts : count'[w] = Cardinality(Settled(w)')) /\ count' \in [Verdicts -> 0..N]
  <2> HIDE DEF v
  <2>1. verdict' = [verdict EXCEPT ![fin] = v] /\ count' = Tally(v) /\ slot' = [slot EXCEPT ![fin] = "done"]
    BY DEF Settle, v
  <2> QED BY <1>1, <1>2, <2>1, SettlesOne DEF Inv
<1>4. Busy' = Busy \ {fin} /\ fin \in Busy /\ Busy \in SUBSET Files
  BY <1>1 DEF Inv, TypeOK, Settle, Busy
<1>5. live' = Cardinality(Busy')
  BY <1>4, OneLess DEF Inv, Counted, Settle
<1>6. live' \in 0..Jobs
  <2>1. live' \in 0..N
    BY <1>5, <1>4, PartOfFiles
  <2> QED BY <2>1, PoolAssumption DEF Inv, TypeOK, Settle
<1>7. TypeOK'
  <2>1. slot' \in [Files -> {"new", "live", "closing", "done"}]
    BY DEF Inv, TypeOK, Settle
  <2>4. fin' \in 0..N
    BY PoolAssumption DEF Settle
  <2>2. verdict' \in [Files -> Verdicts]
    BY <1>2 DEF Inv, TypeOK, Settle
  <2>3. UNCHANGED <<next, sawSig, sigAt, child, status, group>> /\ pc' = "reap"
    BY DEF Settle, sigVars
  <2> QED BY <1>3, <1>6, <2>1, <2>2, <2>3, <2>4 DEF Inv, TypeOK
<1>8. Places'
  BY <1>1 DEF Inv, TypeOK, Places, Closing, Settle, Files
<1>9. Earned'
  BY <1>1, <1>2 DEF Inv, TypeOK, Earned, Settle
<1>10. Ended'
  BY DEF Ended, Settle
<1> QED BY <1>3, <1>5, <1>7, <1>8, <1>9, <1>10 DEF Inv, Counted

\* Break out of the loop: the interrupted tail.
LEMMA FinishInv ==
  ASSUME Inv, Finish
  PROVE  Inv'
<1>1. Busy = {} /\ live = 0
  <2>1. live = 0
    BY LiveType, PoolAssumption DEF Finish, LoopOn, Inv, TypeOK
  <2>2. Busy \in SUBSET Files
    BY DEF Busy
  <2> QED BY <2>1, <2>2, PartOfFiles, FS_EmptySet DEF Inv, Counted
<1>2. \A f \in Files : f \in Interrupted <=> sawSig /\ slot[f] = "new"
  BY DEF Interrupted, Finish, Inv, Places
<1>3. ASSUME NEW f \in Files, f \notin Interrupted PROVE slot[f] = "done"
  <2>1. slot[f] \notin {"live", "closing"}
    BY <1>1 DEF Busy
  <2>2. slot[f] # "new"
    <3>1. CASE sawSig
      BY <3>1, <1>2, <1>3
    <3>2. CASE ~sawSig
      <4>1. next > N
        BY <3>2, <1>1, PoolAssumption DEF Finish, LoopOn, MayLaunch, Inv, TypeOK
      <4> QED BY <4>1, PoolAssumption DEF Inv, Places, Finish, Files, TypeOK
    <3> QED BY <3>1, <3>2
  <2> QED BY <2>1, <2>2 DEF Inv, TypeOK
<1>4. \A f \in Files : slot'[f] = "done" /\ verdict'[f] = verdict[f]
  <2>1. ASSUME NEW f \in Files PROVE slot'[f] = "done"
    BY <1>3 DEF Finish
  <2>2. ASSUME NEW f \in Files PROVE verdict'[f] = verdict[f]
    BY <1>2 DEF Finish, Inv, Places
  <2> QED BY <2>1, <2>2
<1>5. ASSUME NEW v \in Verdicts PROVE count'[v] = Cardinality(Settled(v)')
  <2>1. Settled(v) \in SUBSET Files /\ Interrupted \in SUBSET Files
    BY DEF Settled, Interrupted
  <2>2. CASE v = "fail"
    <3>1. Settled(v)' = Settled(v) \union Interrupted
      <4>1. \A f \in Interrupted : f \in Files /\ verdict[f] = v
        BY <1>2, <2>1, <2>2 DEF Inv, Places
      <4>2. \A f \in Files : f \in Settled(v)' <=> verdict[f] = v
        BY <1>4 DEF Settled
      <4>3. \A f \in Files : f \in Settled(v) \/ f \in Interrupted <=> verdict[f] = v
        BY <1>3, <4>1 DEF Settled
      <4>4. Settled(v)' \in SUBSET Files
        BY DEF Settled
      <4> QED BY <2>1, <4>2, <4>3, <4>4
    <3>2. Settled(v) \cap Interrupted = {}
      BY <1>2 DEF Settled
    <3>3. Cardinality(Settled(v) \union Interrupted)
            = Cardinality(Settled(v)) + Cardinality(Interrupted) - Cardinality(Settled(v) \cap Interrupted)
      BY <2>1, PartOfFiles, FS_Union
    <3>4. Cardinality(Settled(v) \cap Interrupted) = 0
      BY <3>2, FS_EmptySet
    <3>5. count'[v] = count[v] + Cardinality(Interrupted)
      BY <2>2 DEF Finish, Inv, TypeOK, Verdicts
    <3>6. Cardinality(Settled(v)) \in Nat /\ Cardinality(Interrupted) \in Nat
      BY <2>1, PartOfFiles
    <3> QED BY <3>1, <3>3, <3>4, <3>5, <3>6 DEF Inv, Counted
  <2>3. CASE v # "fail"
    <3>1. Settled(v)' = Settled(v)
      BY <1>2, <1>3, <1>4, <2>3 DEF Settled, Inv, Places
    <3>2. count'[v] = count[v]
      BY <2>3 DEF Finish, Inv, TypeOK
    <3> QED BY <3>1, <3>2 DEF Inv, Counted
  <2> QED BY <2>2, <2>3
<1>6. count' \in [Verdicts -> 0..N]
  <2>1. ASSUME NEW v \in Verdicts PROVE count'[v] \in 0..N
    <3>1. Settled(v)' \in SUBSET Files
      BY DEF Settled
    <3> QED BY <3>1, <1>5, PartOfFiles
  <2>2. count' = [v \in Verdicts |-> count'[v]]
    BY DEF Finish, Inv, TypeOK
  <2> QED BY <2>1, <2>2
<1>7. Counted'
  <2>1. Busy' = {}
    BY <1>4 DEF Busy
  <2> QED BY <1>1, <1>5, <2>1, FS_EmptySet DEF Counted, Finish
<1>8. TypeOK'
  <2>1. verdict' \in [Files -> Verdicts] /\ slot' \in [Files -> {"new", "live", "closing", "done"}]
    BY DEF Finish, Inv, TypeOK, Verdicts
  <2> QED BY <1>6, <2>1 DEF Finish, Inv, TypeOK, sigVars, childVars
<1>9. Places'
  <2>1. \A f \in Files : child'[f] \notin {"run", "zombie"}
    BY <1>1 DEF Finish, Inv, Places, childVars, Busy
  <2> QED BY <1>4, <2>1 DEF Places, Closing, Finish
<1>10. Earned'
  BY <1>4 DEF Finish, Inv, Earned, childVars
<1> QED BY <1>4, <1>7, <1>8, <1>9, <1>10 DEF Inv, Ended


LEMMA LaunchInv ==
  ASSUME Inv, Launch
  PROVE  Inv'
<1> USE DEF Inv, Launch, MayLaunch
<1>1. next \in Files /\ slot[next] = "new"
  BY PoolAssumption DEF TypeOK, Files, Places
<1>2. Busy' = Busy \union {next} /\ next \notin Busy /\ Busy \in SUBSET Files
  BY <1>1 DEF TypeOK, Busy
<1>3. live' = Cardinality(Busy')
  BY <1>1, <1>2, OneMore DEF Counted
<1>4. \A v \in Verdicts : Settled(v)' = Settled(v)
  BY <1>1 DEF TypeOK, Settled
<1>5. TypeOK'
  <2>1. next' \in 1..(N + 1) /\ live' \in 0..Jobs
    BY PoolAssumption DEF TypeOK
  <2>2. slot' \in [Files -> {"new", "live", "closing", "done"}]
        /\ child' \in [Files -> {"none", "run", "zombie", "reaped"}]
    BY DEF TypeOK
  <2> QED BY <2>1, <2>2 DEF TypeOK, sigVars
<1>6. Places'
  BY <1>1, PoolAssumption DEF TypeOK, Places, Closing, Files
<1>7. Earned'
  BY <1>1 DEF TypeOK, Earned, Places
<1> QED BY <1>3, <1>4, <1>5, <1>6, <1>7 DEF Counted, Ended

LEMMA LaunchFailsInv ==
  ASSUME Inv, LaunchFails
  PROVE  Inv'
<1> USE DEF Inv, LaunchFails, MayLaunch
<1>1. next \in Files /\ slot[next] = "new" /\ verdict[next] = "fail"
  BY PoolAssumption DEF TypeOK, Files, Places
<1>2. (\A w \in Verdicts : count'[w] = Cardinality(Settled(w)')) /\ count' \in [Verdicts -> 0..N]
  <2>1. verdict' = [verdict EXCEPT ![next] = verdict[next]]
    BY <1>1 DEF TypeOK
  <2>2. verdict[next] \in Verdicts
    BY <1>1 DEF TypeOK
  <2> QED BY <1>1, <2>1, <2>2, SettlesOne
<1>3. Busy' = Busy
  BY <1>1 DEF TypeOK, Busy
<1>4. TypeOK'
  <2>1. next' \in 1..(N + 1)
    BY PoolAssumption DEF TypeOK
  <2>2. slot' \in [Files -> {"new", "live", "closing", "done"}]
    BY DEF TypeOK
  <2> QED BY <1>2, <2>1, <2>2 DEF TypeOK, sigVars, childVars
<1>5. Places'
  BY <1>1, PoolAssumption DEF TypeOK, Places, Closing, Files, childVars
<1>6. Earned'
  BY DEF Earned, childVars
<1> QED BY <1>2, <1>3, <1>4, <1>5, <1>6 DEF Counted, Ended

LEMMA ReapInv ==
  ASSUME Inv, NEW f \in Files, Reap(f)
  PROVE  Inv'
<1> USE DEF Inv, Reap
<1>1. slot[f] = "live"
  BY DEF Places
<1>2. Busy' = Busy /\ \A v \in Verdicts : Settled(v)' = Settled(v)
  BY <1>1 DEF TypeOK, Busy, Settled
<1>3. TypeOK'
  <2>1. slot' \in [Files -> {"new", "live", "closing", "done"}]
        /\ child' \in [Files -> {"none", "run", "zombie", "reaped"}]
    BY DEF TypeOK
  <2>2. fin' \in 0..N
    BY PoolAssumption DEF Files
  <2> QED BY <2>1, <2>2 DEF TypeOK, sigVars
<1>4. Places'
  BY <1>1 DEF TypeOK, Places, Closing
<1>5. Earned'
  BY DEF TypeOK, Earned
<1> QED BY <1>2, <1>3, <1>4, <1>5 DEF Counted, Ended

\* Steps of the parent that leave slots, verdicts and counters alone.
LEMMA MovesOnInv ==
  ASSUME Inv,
         TopQuiet \/ TopSignalled \/ ToPoll \/ ReapNone \/ Drain \/ OrphansTerm
  PROVE  Inv'
<1>1. UNCHANGED <<next, live, count, slot, verdict, fin, sawSig, child, status, group>>
  BY DEF TopQuiet, TopSignalled, ToPoll, ReapNone, Drain, OrphansTerm, sigVars, childVars
<1>2. pc' \in {"launch", "reap", "top", "orphan", "grace"} /\ pc # "exit"
      /\ (Closing' <=> Closing)
  BY DEF TopQuiet, TopSignalled, ToPoll, ReapNone, Drain, OrphansTerm, Closing
<1>3. sigAt' \in {"unset", "stamped", "over"}
  BY DEF Inv, TypeOK, TopQuiet, TopSignalled, ToPoll, ReapNone, Drain, OrphansTerm, sigVars
<1>4. hit' \in [Files -> {"none", "TERM", "KILL"}]
  <2>1. CASE TopSignalled
    BY <2>1 DEF Inv, TypeOK, TopSignalled, SignalSlots
  <2>2. CASE OrphansTerm
    BY <2>2 DEF Inv, TypeOK, OrphansTerm
  <2>3. CASE TopQuiet \/ ToPoll \/ ReapNone \/ Drain
    BY <2>3 DEF Inv, TypeOK, TopQuiet, ToPoll, ReapNone, Drain, childVars
  <2> QED BY <2>1, <2>2, <2>3
<1>5. TypeOK'
  BY <1>1, <1>2, <1>3, <1>4 DEF Inv, TypeOK
<1>6. Places' /\ Earned' /\ Ended'
  BY <1>1, <1>2 DEF Inv, Places, Earned, Ended
<1>7. Counted'
  BY <1>1 DEF Inv, Counted, Busy, Settled
<1> QED BY <1>5, <1>6, <1>7 DEF Inv

\* A child, its group, a signal, the passing of KillGrace.
LEMMA WorldInv ==
  ASSUME Inv, (\E f \in Files : ChildMoves(f)) \/ Signal \/ GracePasses
  PROVE  Inv'
<1>1. UNCHANGED poolVars
  BY DEF ChildMoves, Starts, MemberDies, TearsDown, Exits, Crashes, DiesOfSignal,
         SutHeedsTerm, Signal, GracePasses
<1>2. ASSUME NEW f \in Files, ChildMoves(f)
      PROVE  /\ UNCHANGED <<sigVars, hit>>
             /\ group' \in [Files -> SUBSET {"sut", "pump"}]
             /\ \/ UNCHANGED <<child, status>>
                \/ /\ child[f] = "run" /\ child' = [child EXCEPT ![f] = "zombie"]
                   /\ \E st \in Statuses : status' = [status EXCEPT ![f] = st]
  <2> USE DEF Inv, TypeOK, sigVars
  <2>1. CASE \E m \in {"sut", "pump"} : Starts(f, m) \/ MemberDies(f, m)
    BY <2>1 DEF Starts, MemberDies
  <2>2. CASE TearsDown(f) \/ SutHeedsTerm(f)
    BY <2>2 DEF TearsDown, SutHeedsTerm
  <2>3. CASE \E st \in {"ok", "skip", "fail"} : Exits(f, st)
    BY <2>3 DEF Exits, Statuses
  <2>4. CASE Crashes(f) \/ DiesOfSignal(f)
    BY <2>4 DEF Crashes, DiesOfSignal, Statuses
  <2> QED BY <1>2, <2>1, <2>2, <2>3, <2>4 DEF ChildMoves
<1>3. (\E f \in Files : ChildMoves(f))
      => TypeOK' /\ Places' /\ Earned'
  <2> SUFFICES ASSUME NEW f \in Files, ChildMoves(f) PROVE TypeOK' /\ Places' /\ Earned'
    OBVIOUS
  <2>1. CASE UNCHANGED <<child, status>>
    BY <2>1, <1>1, <1>2 DEF Inv, TypeOK, Places, Earned, Closing, poolVars, sigVars
  <2>2. ASSUME child[f] = "run", child' = [child EXCEPT ![f] = "zombie"],
               NEW st \in Statuses, status' = [status EXCEPT ![f] = st]
        PROVE  TypeOK' /\ Places' /\ Earned'
    <3>1. TypeOK'
      <4>1. child' \in [Files -> {"none", "run", "zombie", "reaped"}]
            /\ status' \in [Files -> Statuses]
        BY <2>2 DEF Inv, TypeOK
      <4> QED BY <4>1, <1>1, <1>2 DEF Inv, TypeOK, poolVars, sigVars
    <3>2. Places'
      BY <2>2, <1>1 DEF Inv, TypeOK, Places, Closing, poolVars
    <3>3. Earned'
      BY <2>2, <1>1 DEF Inv, TypeOK, Earned, poolVars
    <3> QED BY <3>1, <3>2, <3>3
  <2> QED BY <1>2, <2>1, <2>2
<1>4. Signal \/ GracePasses => TypeOK' /\ Places' /\ Earned'
  <2> SUFFICES ASSUME Signal \/ GracePasses PROVE TypeOK' /\ Places' /\ Earned'
    OBVIOUS
  <2>1. UNCHANGED childVars /\ sawSig' \in BOOLEAN /\ sigAt' \in {"unset", "stamped", "over"}
    BY DEF Inv, TypeOK, Signal, GracePasses
  <2>2. TypeOK'
    BY <1>1, <2>1 DEF Inv, TypeOK, poolVars, childVars
  <2>3. Places' /\ Earned'
    BY <1>1, <2>1 DEF Inv, Places, Earned, Closing, poolVars, childVars
  <2> QED BY <2>2, <2>3
<1>5. Counted' /\ Ended'
  BY <1>1 DEF Inv, Counted, Ended, Busy, Settled, poolVars
<1> QED BY <1>3, <1>4, <1>5 DEF Inv

LEMMA StepInv == Inv /\ [Next]_vars => Inv'
<1> SUFFICES ASSUME Inv, [Next]_vars PROVE Inv'
  OBVIOUS
<1>1. ASSUME NoOrphans \/ OrphansGone \/ OrphansKill PROVE Inv'
  <2>1. Closing /\ Settle /\ UNCHANGED <<child, status, group>>
    BY <1>1 DEF NoOrphans, OrphansGone, OrphansKill, Closing, childVars
  <2>2. hit' \in [Files -> {"none", "TERM", "KILL"}]
    BY <1>1 DEF NoOrphans, OrphansGone, OrphansKill, childVars, Inv, TypeOK
  <2> QED BY <2>1, <2>2, SettleInv
<1>2. CASE UNCHANGED vars
  BY <1>2 DEF Inv, TypeOK, Places, Closing, Earned, Counted, Ended, Busy, Settled,
              vars, poolVars, sigVars, childVars
<1>3. CASE Parent
  BY <1>1, <1>3, LaunchInv, LaunchFailsInv, ReapInv, FinishInv, MovesOnInv DEF Parent
<1>4. CASE (\E f \in Files : ChildMoves(f)) \/ Signal \/ GracePasses
  BY <1>4, WorldInv
<1> QED BY <1>2, <1>3, <1>4 DEF Next

LEMMA SpecInv == Spec => []Inv
BY InitInv, StepInv, PTL DEF Spec

-----------------------------------------------------------------------------
\* run_forked never holds more than --jobs slots, never counts past the number
\* of files, and works on a slot of its own in finish_slot.
THEOREM TypeCorrect == Spec => []TypeOK
<1>1. Inv => TypeOK
  BY DEF Inv
<1> QED BY <1>1, SpecInv, PTL

\* The summary's counters agree with the verdicts at every step, every file
\* has a verdict when run_forked reports, wherever the signal fell, and only a
\* child that was reaped and exited so makes a file passed or skipped.
THEOREM TallyIsTrue == Spec => []TallyTrue
<1>1. Inv => TallyTrue
  <2> SUFFICES ASSUME Inv PROVE TallyTrue
    OBVIOUS
  <2>1. live <= Jobs
    BY PoolAssumption DEF Inv, TypeOK
  <2> QED BY <2>1 DEF Inv, Counted, Settled, Busy, Ended, Earned, TallyTrue
<1> QED BY <1>1, SpecInv, PTL

\* slot_sig and slot_orphan reach only the groups of children that were not
\* reaped, or of the one that finish_slot has just reaped.
THEOREM SignalsAreAimed == Spec => SignalsAimed
<1> DEFINE Aimed == \A f \in Files : hit'[f] # hit[f] =>
                        child[f] \in {"run", "zombie"} \/ slot[f] = "closing"
<1>1. Inv /\ [Next]_vars => [Aimed]_vars
  <2> SUFFICES ASSUME Inv, Next, NEW f \in Files, hit'[f] # hit[f]
               PROVE  child[f] \in {"run", "zombie"} \/ slot[f] = "closing"
    OBVIOUS
  <2>1. CASE TopSignalled
    BY <2>1 DEF TopSignalled, SignalSlots, Inv, Places
  <2>2. CASE OrphansTerm \/ OrphansKill
    BY <2>2 DEF OrphansTerm, OrphansKill, Inv, Places, Closing, TypeOK
  <2>3. CASE UNCHANGED hit
    BY <2>3
  <2>4. TopSignalled \/ OrphansTerm \/ OrphansKill \/ UNCHANGED hit
    BY DEF Next, Parent, TopQuiet, Launch, LaunchFails, ToPoll, Finish, Reap, ReapNone,
           Drain, NoOrphans, OrphansGone, ChildMoves, Starts, MemberDies, TearsDown,
           Exits, Crashes, DiesOfSignal, SutHeedsTerm, Signal, GracePasses, childVars
  <2> QED BY <2>1, <2>2, <2>3, <2>4
<1> HIDE DEF Aimed
<1>2. Spec => [][Aimed]_vars
  BY <1>1, SpecInv, PTL DEF Spec
<1> QED BY <1>2 DEF SignalsAimed, Aimed
=============================================================================

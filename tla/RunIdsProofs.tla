---------------------------- MODULE RunIdsProofs ----------------------------
(***************************************************************************)
(* Proofs about the run-id allocator, for any set of processes and any     *)
(* RUN_ID_MAX.                                                             *)
(***************************************************************************)
EXTENDS RunIds, TLAPS

\* At most one process scans: the holder of the scan lock.
ScanExclusive ==
    \A p \in Procs : scanLock = p <=> pc[p] \in {"scan", "took"}

\* A probe's reference exists only between its take and its release, on the
\* id it stands at.
ProbeBrief ==
    \A p \in Procs, i \in Ids :
        <<p, "probe">> \in lock[i] => pc[p] = "took" /\ at[p] = i

IInv == TypeOK /\ PinsOnlyHeld /\ ScanExclusive /\ ProbeBrief

LEMMA InitIInv == Init => IInv
  BY MaxIdAssumption, NoneAssumption
  DEF Init, IInv, TypeOK, PinsOnlyHeld, ScanExclusive, ProbeBrief, PCs, Ids,
      Refs, Roles

\* The type invariant is preserved by every step.
LEMMA TypeStep == TypeOK /\ [Next]_vars => TypeOK'
<1> SUFFICES ASSUME TypeOK, [Next]_vars PROVE TypeOK'
  OBVIOUS
<1> USE MaxIdAssumption DEF TypeOK, PCs, Ids, Refs, Roles
<1>1. CASE UNCHANGED vars
  BY <1>1 DEF vars
<1>2. ASSUME NEW p \in Procs, Forked(p) PROVE TypeOK'
  BY <1>2 DEF Forked
<1>3. ASSUME NEW p \in Procs, NEW o \in {"acquire", "probe"}, Call(p, o)
      PROVE TypeOK'
  BY <1>3 DEF Call
<1>4. ASSUME NEW p \in Procs, TakeScanLock(p) PROVE TypeOK'
  BY <1>4 DEF TakeScanLock
<1>5. ASSUME NEW p \in Procs, ScanLockFails(p) PROVE TypeOK'
  BY <1>5 DEF ScanLockFails
<1>6. ASSUME NEW p \in Procs, OpenFails(p) \/ SkipBusy(p) PROVE TypeOK'
  <2>1. at[p] + 1 \in 1..(MaxId + 1)
    BY <1>6 DEF OpenFails, SkipBusy, Scanning
  <2> QED BY <1>6, <2>1 DEF OpenFails, SkipBusy
<1>7. ASSUME NEW p \in Procs, Win(p) PROVE TypeOK'
  <2>1. Closed(p) \in [Ids -> SUBSET Refs]
    BY DEF Closed
  <2>2. <<p, "run">> \in Refs
    OBVIOUS
  <2> QED BY <1>7, <2>1, <2>2 DEF Win, Scanning
<1>8. ASSUME NEW p \in Procs, ProbeTake(p) PROVE TypeOK'
  BY <1>8 DEF ProbeTake, Scanning
<1>9. ASSUME NEW p \in Procs, ProbeRelease(p) PROVE TypeOK'
  BY <1>9 DEF ProbeRelease
<1>10. ASSUME NEW p \in Procs, Exhausted(p) PROVE TypeOK'
  BY <1>10 DEF Exhausted
<1>11. ASSUME NEW p \in Procs, ForkPump(p) PROVE TypeOK'
  BY <1>11 DEF ForkPump
<1>12. ASSUME NEW p \in Procs, NEW i \in Ids, PumpEnds(p, i) PROVE TypeOK'
  BY <1>12 DEF PumpEnds
<1>13. ASSUME NEW p \in Procs, Ends(p) PROVE TypeOK'
  BY <1>13 DEF Ends
<1> QED
  BY <1>1, <1>2, <1>3, <1>4, <1>5, <1>6, <1>7, <1>8, <1>9, <1>10, <1>11,
     <1>12, <1>13 DEF Next, CallStep

\* So is the rest of the inductive invariant.
LEMMA IInvStep == IInv /\ [Next]_vars => IInv'
<1> SUFFICES ASSUME IInv, [Next]_vars PROVE IInv'
  OBVIOUS
<1>t. TypeOK'
  BY TypeStep DEF IInv
<1> DEFINE Rest == PinsOnlyHeld /\ ScanExclusive /\ ProbeBrief
<1> SUFFICES Rest'
  BY <1>t DEF IInv
<1> USE MaxIdAssumption, NoneAssumption
    DEF IInv, TypeOK, PinsOnlyHeld, ScanExclusive, ProbeBrief, PCs, Ids,
        Refs, Roles
<1>1. CASE UNCHANGED vars
  BY <1>1 DEF vars
<1>2. ASSUME NEW p \in Procs, Forked(p) PROVE Rest'
  BY <1>2 DEF Forked
<1>3. ASSUME NEW p \in Procs, NEW o \in {"acquire", "probe"}, Call(p, o)
      PROVE Rest'
  BY <1>3 DEF Call
<1>4. ASSUME NEW p \in Procs, TakeScanLock(p) PROVE Rest'
  BY <1>4 DEF TakeScanLock
<1>5. ASSUME NEW p \in Procs, ScanLockFails(p) PROVE Rest'
  BY <1>5 DEF ScanLockFails
<1>6. ASSUME NEW p \in Procs, OpenFails(p) \/ SkipBusy(p) PROVE Rest'
  BY <1>6 DEF OpenFails, SkipBusy, Scanning
<1>7. ASSUME NEW p \in Procs, Win(p) PROVE Rest'
  BY <1>7 DEF Win, Scanning, Free, Closed
<1>8. ASSUME NEW p \in Procs, ProbeTake(p) PROVE Rest'
  BY <1>8 DEF ProbeTake, Scanning, Free
<1>9. ASSUME NEW p \in Procs, ProbeRelease(p) PROVE Rest'
  BY <1>9 DEF ProbeRelease
<1>10. ASSUME NEW p \in Procs, Exhausted(p) PROVE Rest'
  BY <1>10 DEF Exhausted
<1>11. ASSUME NEW p \in Procs, ForkPump(p) PROVE Rest'
  <2>1. held[p] \in Ids /\ <<p, "run">> \in lock[held[p]]
    BY <1>11 DEF ForkPump
  <2>2. \A i \in Ids : lock'[i] \subseteq lock[i] \union {<<p, "pump">>}
    BY <1>11, <2>1 DEF ForkPump
  <2>3. \A i \in Ids : i # held[p] => lock'[i] = lock[i]
    BY <1>11, <2>1 DEF ForkPump
  <2>4. \A i \in Ids : lock[i] \subseteq lock'[i]
    BY <1>11, <2>1 DEF ForkPump
  <2>5. PinsOnlyHeld'
    <3>1. ASSUME NEW i \in Ids, NEW a \in lock'[i], NEW b \in lock'[i]
          PROVE  a[1] = b[1]
      <4>1. CASE i = held[p]
        <5>1. ASSUME NEW c \in lock'[i] PROVE c[1] = p
          BY <2>1, <2>2, <4>1
        <5> QED BY <5>1
      <4>2. CASE i # held[p]
        BY <2>3, <4>2
      <4> QED BY <4>1, <4>2
    <3>2. ASSUME NEW q \in Procs, NEW i \in Ids
          PROVE  <<q, "run">> \in lock'[i] <=> held'[q] = i
      <4>1. <<q, "run">> # <<p, "pump">>
        OBVIOUS
      <4>2. <<q, "run">> \in lock'[i] <=> <<q, "run">> \in lock[i]
        BY <2>2, <2>4, <4>1
      <4> QED BY <1>11, <4>2 DEF ForkPump
    <3> QED BY <3>1, <3>2
  <2>6. ScanExclusive' /\ ProbeBrief'
    BY <1>11, <2>2 DEF ForkPump
  <2> QED BY <2>5, <2>6
<1>12. ASSUME NEW p \in Procs, NEW i \in Ids, PumpEnds(p, i) PROVE Rest'
  BY <1>12 DEF PumpEnds
<1>13. ASSUME NEW p \in Procs, Ends(p) PROVE Rest'
  <2>1. \A i \in Ids : lock'[i] = lock[i] \ {<<p, "run">>, <<p, "probe">>}
    BY <1>13 DEF Ends
  <2>2. PinsOnlyHeld'
    <3>1. \A i \in Ids : \A a, b \in lock'[i] : a[1] = b[1]
      BY <2>1
    <3>2. ASSUME NEW q \in Procs, NEW i \in Ids
          PROVE  <<q, "run">> \in lock'[i] <=> held'[q] = i
      <4>1. CASE q = p
        BY <1>13, <2>1, <4>1 DEF Ends
      <4>2. CASE q # p
        BY <1>13, <2>1, <4>2 DEF Ends
      <4> QED BY <4>1, <4>2
    <3> QED BY <3>1, <3>2
  <2>3. ScanExclusive'
    BY <1>13 DEF Ends
  <2>4. ProbeBrief'
    BY <1>13, <2>1 DEF Ends
  <2> QED BY <2>2, <2>3, <2>4
<1> HIDE DEF IInv, TypeOK, Rest
<1> QED
  BY <1>1, <1>2, <1>3, <1>4, <1>5, <1>6, <1>7, <1>8, <1>9, <1>10, <1>11,
     <1>12, <1>13 DEF Next, CallStep

LEMMA InductiveInvariant == Spec => []IInv
  BY InitIInv, IInvStep, PTL DEF Spec

\* The allocator's state always has its type.
THEOREM TypeCorrect == Spec => []TypeOK
<1>1. IInv => TypeOK
  BY DEF IInv
<1> QED BY <1>1, InductiveInvariant, PTL

\* sim_run_acquire never gives one id to two processes, however many scan,
\* probe, crash or pass their descriptor on, and whatever RUN_ID_MAX is.
THEOREM IdsAreUnique == Spec => []UniqueIds
<1>1. IInv => UniqueIds
  <2> SUFFICES ASSUME IInv, NEW p \in Procs, NEW q \in Procs,
                      held[p] # 0, held[p] = held[q]
               PROVE  p = q
    BY DEF UniqueIds
  <2>1. held[p] \in Ids
    BY MaxIdAssumption DEF IInv, TypeOK, Ids
  <2>2. <<p, "run">> \in lock[held[p]] /\ <<q, "run">> \in lock[held[p]]
    BY <2>1 DEF IInv, PinsOnlyHeld
  <2> QED BY <2>1, <2>2 DEF IInv, PinsOnlyHeld
<1> QED BY <1>1, InductiveInvariant, PTL

\* A process pins exactly the id in its HeldRunLock and an id is busy on
\* account of one process only.
THEOREM PinsAreHeld == Spec => []PinsOnlyHeld
<1>1. IInv => PinsOnlyHeld
  BY DEF IInv
<1> QED BY <1>1, InductiveInvariant, PTL

\* A probe never makes another scan skip the id it locks for a moment.
THEOREM ProbesAreUnseen == Spec => []ProbeUnseen
<1>1. IInv => ProbeUnseen
  BY DEF IInv, ProbeUnseen, ScanExclusive, ProbeBrief, Scanning
<1> QED BY <1>1, InductiveInvariant, PTL

-----------------------------------------------------------------------------
(* The allocator implements RunLease.                                      *)

\* The leases of the lock table: what Lease substitutes for lease.
Leases == [i \in Ids |-> {r \in lock[i] : r[2] # "probe"}]

LEMMA LeaseInit == Init => Lease!Init
  BY DEF Init, Lease!Init, Lease!Ids, Ids

\* One step of the allocator is one step of the leases, or none: locks come
\* from Win and ForkPump only, and go when a process or a pump ends.
LEMMA LeaseStep == IInv /\ [Next]_vars => [Lease!Next]_Leases
<1> SUFFICES ASSUME IInv, [Next]_vars
             PROVE  Lease!Next \/ UNCHANGED Leases
  BY DEF Leases
<1> USE DEF IInv, TypeOK, Ids, Lease!Ids, Roles, Refs
<1>1. CASE UNCHANGED lock
  BY <1>1 DEF Leases
<1>2. ASSUME NEW p \in Procs, Win(p) PROVE Lease!Next
  <2>1. PICK k \in Ids : k = at[p] /\ lock[k] = {}
    BY <1>2 DEF Win, Scanning, Free
  <2>2. Lease!Grant(p, k)
    <3>1. lock' = [Closed(p) EXCEPT ![k] = {<<p, "run">>}]
      BY <1>2, <2>1 DEF Win
    <3>2. \A i \in Ids : lock'[i] = IF i = k THEN {<<p, "run">>}
                                    ELSE lock[i] \ {<<p, "run">>}
      BY <2>1, <3>1 DEF Closed
    <3>3. \A i \in Ids : Leases'[i] = IF i = k THEN {<<p, "run">>}
                                      ELSE Leases[i] \ {<<p, "run">>}
      <4> TAKE i \in Ids
      <4>1. Leases'[i] = {r \in lock'[i] : r[2] # "probe"}
            /\ Leases[i] = {r \in lock[i] : r[2] # "probe"}
        BY DEF Leases
      <4>2. CASE i = k
        <5>1. lock'[i] = {<<p, "run">>}
          BY <3>2, <4>2
        <5> QED BY <4>1, <4>2, <5>1
      <4>3. CASE i # k
        <5>1. lock'[i] = lock[i] \ {<<p, "run">>}
          BY <3>2, <4>3
        <5> QED BY <4>1, <4>3, <5>1
      <4> QED BY <4>2, <4>3
    <3>4. Leases' = [[i \in Ids |-> Leases[i] \ {<<p, "run">>}]
                       EXCEPT ![k] = {<<p, "run">>}]
      BY <2>1, <3>3 DEF Leases
    <3>5. Leases[k] = {}
      BY <2>1 DEF Leases
    <3> QED BY <3>4, <3>5 DEF Leases, Lease!Grant, Lease!Without
  <2> QED BY <2>1, <2>2 DEF Lease!Next
<1>3. ASSUME NEW p \in Procs, ProbeTake(p) PROVE UNCHANGED Leases
  <2>1. at[p] \in Ids /\ lock[at[p]] = {}
        /\ lock' = [lock EXCEPT ![at[p]] = {<<p, "probe">>}]
    BY <1>3 DEF ProbeTake, Scanning, Free
  <2>2. \A i \in Ids : {r \in lock'[i] : r[2] # "probe"}
                      = {r \in lock[i] : r[2] # "probe"}
    BY <2>1
  <2> QED BY <2>2 DEF Leases
<1>4. ASSUME NEW p \in Procs, ProbeRelease(p) PROVE UNCHANGED Leases
  <2>1. \A i \in Ids : lock'[i] = lock[i] \ {<<p, "probe">>}
    BY <1>4 DEF ProbeRelease
  <2> QED BY <2>1 DEF Leases
<1>5. ASSUME NEW p \in Procs, ForkPump(p) PROVE Lease!Next
  <2>1. PICK k \in Ids : k = held[p] /\ <<p, "run">> \in lock[k]
    BY <1>5, MaxIdAssumption DEF ForkPump, PinsOnlyHeld
  <2>2. lock' = [lock EXCEPT ![k] = @ \union {<<p, "pump">>}]
    BY <1>5, <2>1 DEF ForkPump
  <2>3. \A i \in Ids : Leases'[i] = IF i = k THEN Leases[i] \union {<<p, "pump">>}
                                    ELSE Leases[i]
    <3> TAKE i \in Ids
    <3>1. Leases'[i] = {r \in lock'[i] : r[2] # "probe"}
          /\ Leases[i] = {r \in lock[i] : r[2] # "probe"}
      BY DEF Leases
    <3>2. lock'[i] = IF i = k THEN lock[i] \union {<<p, "pump">>} ELSE lock[i]
      BY <2>2
    <3> QED BY <3>1, <3>2
  <2>4. Leases' = [Leases EXCEPT ![k] = @ \union {<<p, "pump">>}]
    BY <2>3 DEF Leases
  <2>5. <<p, "run">> \in Leases[k]
    BY <2>1 DEF Leases
  <2>6. Lease!Share(p, k)
    BY <2>4, <2>5 DEF Leases, Lease!Share
  <2> QED BY <2>6 DEF Lease!Next
<1>6. ASSUME NEW p \in Procs, NEW i \in Ids, PumpEnds(p, i) PROVE Lease!Next
  <2>1. Leases' = [Leases EXCEPT ![i] = @ \ {<<p, "pump">>}]
    BY <1>6 DEF PumpEnds, Leases
  <2>2. <<p, "pump">> \in Leases[i]
    BY <1>6 DEF PumpEnds, Leases
  <2>3. Lease!Drop(p, "pump", i)
    BY <2>1, <2>2 DEF Leases, Lease!Drop
  <2> QED BY <2>3 DEF Lease!Next, Lease!Roles
<1>7. ASSUME NEW p \in Procs, Ends(p) PROVE Lease!Next \/ UNCHANGED Leases
  <2>1. \A i \in Ids : Leases'[i] = Leases[i] \ {<<p, "run">>}
    BY <1>7 DEF Ends, Leases
  <2>2. CASE held[p] = 0
    <3>1. \A i \in Ids : Leases'[i] = Leases[i]
      BY <2>1, <2>2 DEF PinsOnlyHeld, Leases
    <3> QED BY <3>1 DEF Leases
  <2>3. CASE held[p] # 0
    <3>1. PICK k \in Ids : k = held[p] /\ <<p, "run">> \in Leases[k]
      BY <2>3, MaxIdAssumption DEF PinsOnlyHeld, Leases
    <3>2. \A i \in Ids : i # k => <<p, "run">> \notin Leases[i]
      BY <3>1 DEF PinsOnlyHeld, Leases
    <3>3. \A i \in Ids : i # k => Leases'[i] = Leases[i]
      BY <2>1, <3>2
    <3>4. Leases' = [Leases EXCEPT ![k] = @ \ {<<p, "run">>}]
      BY <2>1, <3>3 DEF Leases
    <3>5. Lease!Drop(p, "run", k)
      BY <3>1, <3>4 DEF Leases, Lease!Drop
    <3> QED BY <3>5 DEF Lease!Next, Lease!Roles
  <2> QED BY <2>2, <2>3
<1> HIDE DEF IInv, TypeOK, Leases
<1> QED
  BY <1>1, <1>2, <1>3, <1>4, <1>5, <1>6, <1>7
  DEF Next, CallStep, vars, Forked, Call, TakeScanLock, ScanLockFails,
      OpenFails, SkipBusy, Exhausted

\* Lock files, scan lock, probes and crashes implement exclusive leases.
THEOREM ImplementsLease == Spec => LeaseSpec
  BY LeaseInit, LeaseStep, InductiveInvariant, PTL
  DEF Spec, LeaseSpec, Lease!Spec, Leases
=============================================================================

------------------------------- MODULE RunIds -------------------------------
(***************************************************************************)
(* The run-id allocator of sim/sim.c (sim_run_acquire, sim_run_probe).     *)
(*                                                                         *)
(* Every id has a lock file.  A process takes the scan lock, walks the ids *)
(* upwards and keeps the first one whose file it can flock without         *)
(* waiting.  A flock belongs to the open file description: it lasts until  *)
(* the last process that refers to the description has closed it or ended. *)
(* A relay pump (driver/weld.c) is forked without exec, so it refers to    *)
(* its run's description as well; every other child execs and drops it.    *)
(***************************************************************************)
EXTENDS Integers

CONSTANTS Procs,   \* processes that acquire or probe, one call at a time
          MaxId,   \* RUN_ID_MAX
          None

ASSUME MaxIdAssumption == MaxId \in Nat \ {0}
ASSUME NoneAssumption  == None \notin Procs

Ids   == 1..MaxId
Roles == {"run", "pump", "probe"}
Refs  == Procs \X Roles

VARIABLES
    pc,        \* where each process is in its current call
    op,        \* the call it makes: "acquire" or "probe"
    at,        \* the scan position, the loop variable id
    held,      \* HeldRunLock as the id it locks; 0 for -1
    scanLock,  \* holder of RUN_LOCK_PATH
    lock       \* lock[i]: the references to the description that locks id i

vars == <<pc, op, at, held, scanLock, lock>>

PCs == {"off", "idle", "wait", "scan", "took"}

TypeOK ==
    /\ pc \in [Procs -> PCs]
    /\ op \in [Procs -> {"acquire", "probe"}]
    /\ at \in [Procs -> 1..(MaxId + 1)]
    /\ held \in [Procs -> 0..MaxId]
    /\ scanLock \in Procs \union {None}
    /\ lock \in [Ids -> SUBSET Refs]

Init ==
    /\ pc = [p \in Procs |-> "off"]
    /\ op = [p \in Procs |-> "acquire"]
    /\ at = [p \in Procs |-> 1]
    /\ held = [p \in Procs |-> 0]
    /\ scanLock = None
    /\ lock = [i \in Ids |-> {}]

Free(i) == lock[i] = {}

Forked(p) ==
    /\ pc[p] = "off"
    /\ pc' = [pc EXCEPT ![p] = "idle"]
    /\ UNCHANGED <<op, at, held, scanLock, lock>>

\* Either call opens the scan lock file and waits for its flock.
Call(p, o) ==
    /\ pc[p] = "idle"
    /\ pc' = [pc EXCEPT ![p] = "wait"]
    /\ op' = [op EXCEPT ![p] = o]
    /\ UNCHANGED <<at, held, scanLock, lock>>

TakeScanLock(p) ==
    /\ pc[p] = "wait"
    /\ scanLock = None
    /\ scanLock' = p
    /\ pc' = [pc EXCEPT ![p] = "scan"]
    /\ at' = [at EXCEPT ![p] = 1]
    /\ UNCHANGED <<op, held, lock>>

\* open or flock of the scan lock file fails: the call returns false.
ScanLockFails(p) ==
    /\ pc[p] = "wait"
    /\ pc' = [pc EXCEPT ![p] = "idle"]
    /\ UNCHANGED <<op, at, held, scanLock, lock>>

Scanning(p) == pc[p] = "scan" /\ at[p] \in Ids

\* The id's file does not open: the scan goes on to the next id.
OpenFails(p) ==
    /\ Scanning(p)
    /\ at' = [at EXCEPT ![p] = @ + 1]
    /\ UNCHANGED <<pc, op, held, scanLock, lock>>

\* Another description locks the file: LOCK_NB fails, and so on to the next.
SkipBusy(p) ==
    /\ Scanning(p) /\ ~Free(at[p])
    /\ at' = [at EXCEPT ![p] = @ + 1]
    /\ UNCHANGED <<pc, op, held, scanLock, lock>>

\* Slip: the lock of an earlier acquire stays open.
NotClosed(p) == lock

\* The references left when process p closes its own descriptor of its run.
Closed(p) == [i \in Ids |-> lock[i] \ {<<p, "run">>}]

\* acquire: keep the lock, close the one of an earlier acquire, return.
Win(p) ==
    /\ Scanning(p) /\ op[p] = "acquire" /\ Free(at[p])
    /\ lock' = [Closed(p) EXCEPT ![at[p]] = {<<p, "run">>}]
    /\ held' = [held EXCEPT ![p] = at[p]]
    /\ scanLock' = None
    /\ pc' = [pc EXCEPT ![p] = "idle"]
    /\ UNCHANGED <<op, at>>

\* probe: the lock is taken for a moment, then closed before the scan lock.
ProbeTake(p) ==
    /\ Scanning(p) /\ op[p] = "probe" /\ Free(at[p])
    /\ lock' = [lock EXCEPT ![at[p]] = {<<p, "probe">>}]
    /\ pc' = [pc EXCEPT ![p] = "took"]
    /\ UNCHANGED <<op, at, held, scanLock>>

ProbeRelease(p) ==
    /\ pc[p] = "took"
    /\ lock' = [i \in Ids |-> lock[i] \ {<<p, "probe">>}]
    /\ scanLock' = None
    /\ pc' = [pc EXCEPT ![p] = "idle"]
    /\ UNCHANGED <<op, at, held>>

\* Slip: the scan lock stays open when every id is busy.
ExhaustedHolding(p) ==
    /\ pc[p] = "scan" /\ at[p] \notin Ids
    /\ pc' = [pc EXCEPT ![p] = "idle"]
    /\ UNCHANGED <<op, at, held, scanLock, lock>>

\* The scan ran past RUN_ID_MAX: the call returns false.
Exhausted(p) ==
    /\ pc[p] = "scan" /\ at[p] \notin Ids
    /\ scanLock' = None
    /\ pc' = [pc EXCEPT ![p] = "idle"]
    /\ UNCHANGED <<op, at, held, lock>>

\* weld_relay_start: the pump inherits the descriptor of the held id.  One
\* reference stands for all the pumps of a run.
ForkPump(p) ==
    /\ pc[p] = "idle" /\ held[p] # 0
    /\ lock' = [lock EXCEPT ![held[p]] = @ \union {<<p, "pump">>}]
    /\ UNCHANGED <<pc, op, at, held, scanLock>>

\* Slip: a lock that goes with the first close of the file, as fcntl's does.
PumpEndsUnlocking(p, i) ==
    /\ <<p, "pump">> \in lock[i]
    /\ lock' = [lock EXCEPT ![i] = {}]
    /\ UNCHANGED <<pc, op, at, held, scanLock>>

\* A pump ends: its echo pipe closed, or it was stopped or killed.
PumpEnds(p, i) ==
    /\ <<p, "pump">> \in lock[i]
    /\ lock' = [lock EXCEPT ![i] = @ \ {<<p, "pump">>}]
    /\ UNCHANGED <<pc, op, at, held, scanLock>>

\* A process exits or is killed at any point: the kernel closes its files.
Ends(p) ==
    /\ pc[p] # "off"
    /\ pc' = [pc EXCEPT ![p] = "off"]
    /\ held' = [held EXCEPT ![p] = 0]
    /\ scanLock' = IF scanLock = p THEN None ELSE scanLock
    /\ lock' = [i \in Ids |-> lock[i] \ {<<p, "run">>, <<p, "probe">>}]
    /\ UNCHANGED <<op, at>>

\* The steps of a call in progress, which the process itself takes.
CallStep(p) ==
    \/ OpenFails(p) \/ SkipBusy(p) \/ Win(p)
    \/ ProbeTake(p) \/ ProbeRelease(p) \/ Exhausted(p)

Next ==
    \E p \in Procs :
        \/ Forked(p)
        \/ \E o \in {"acquire", "probe"} : Call(p, o)
        \/ TakeScanLock(p)
        \/ ScanLockFails(p)
        \/ CallStep(p)
        \/ ForkPump(p)
        \/ \E i \in Ids : PumpEnds(p, i)
        \/ Ends(p)

Spec == Init /\ [][Next]_vars

(***************************************************************************)
(* A process inside a call keeps running until it returns or ends, and the *)
(* kernel serves the waiters of a blocking flock in turn, so a waiter that *)
(* can be served again and again is served.  Nothing makes a process call, *)
(* fork a pump or end.                                                     *)
(***************************************************************************)
Fairness == \A p \in Procs : WF_vars(CallStep(p)) /\ SF_vars(TakeScanLock(p))

FairSpec == Spec /\ Fairness

-----------------------------------------------------------------------------
(* Properties.                                                             *)

\* Two processes never hold one run id, though scans, probes, crashes and
\* inherited descriptors interleave (sim_run_acquire: "ids stay unique
\* across live runs").
UniqueIds ==
    \A p, q \in Procs : held[p] # 0 /\ held[p] = held[q] => p = q

\* An id is busy only on account of one process, and a process pins exactly
\* the id in HeldRunLock: a second acquire lets go of the first id, and a
\* crash at any point of the scan strands none.
PinsOnlyHeld ==
    /\ \A i \in Ids : \A a, b \in lock[i] : a[1] = b[1]
    /\ \A p \in Procs, i \in Ids : <<p, "run">> \in lock[i] <=> held[p] = i

\* A probe's momentary lock never makes another process skip a free id: the
\* scan lock keeps every other scan away until the probe has let go.
ProbeUnseen ==
    \A p, q \in Procs :
        Scanning(q) /\ <<p, "probe">> \in lock[at[q]] => p = q

\* Every call returns or its process ends: nobody waits for ever on the scan
\* lock, whoever crashes while holding it.
CallReturns == \A p \in Procs : pc[p] = "wait" ~> pc[p] \in {"idle", "off"}

\* The lock files implement leases.  A probe's moment is no lease.
Lease == INSTANCE RunLease WITH
             lease <- [i \in Ids |-> {r \in lock[i] : r[2] # "probe"}]

\* The allocator implements RunLease: ids are granted only when free, one to
\* a run, and each lease ends only when a leaseholder ends.
LeaseSpec == Lease!Spec
=============================================================================

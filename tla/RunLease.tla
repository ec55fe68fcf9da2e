------------------------------ MODULE RunLease ------------------------------
(***************************************************************************)
(* What the run-id allocator of sim/sim.c promises, without the lock files *)
(* it is built from: every run id is leased to at most one run, a run      *)
(* holds at most one id, and a lease lasts while some process of that run  *)
(* still refers to it.  The leaseholders of an id are the processes that   *)
(* keep its lock alive.                                                    *)
(***************************************************************************)
EXTENDS Integers

CONSTANTS Procs,   \* the processes that run scenarios
          MaxId    \* RUN_ID_MAX

VARIABLE lease     \* lease[i]: the pairs <<process, role>> that keep id i

Ids   == 1..MaxId
Roles == {"run", "pump"}

Init == lease = [i \in Ids |-> {}]

\* The lease table once run p has given up whatever id it holds.
Without(p) == [i \in Ids |-> lease[i] \ {<<p, "run">>}]

\* A free id goes to run p, which gives up the id it had.
Grant(p, i) ==
    /\ lease[i] = {}
    /\ lease' = [Without(p) EXCEPT ![i] = {<<p, "run">>}]

\* A run passes its lease on to a relay pump that it forks.
Share(p, i) ==
    /\ <<p, "run">> \in lease[i]
    /\ lease' = [lease EXCEPT ![i] = @ \union {<<p, "pump">>}]

\* A leaseholder ends; the id is free when the last one has ended.
Drop(p, r, i) ==
    /\ <<p, r>> \in lease[i]
    /\ lease' = [lease EXCEPT ![i] = @ \ {<<p, r>>}]

Next ==
    \E p \in Procs, i \in Ids :
        \/ Grant(p, i)
        \/ Share(p, i)
        \/ \E r \in Roles : Drop(p, r, i)

Spec == Init /\ [][Next]_lease

-----------------------------------------------------------------------------
\* No two runs lease one id: the promise of sim_run_acquire.
Exclusive ==
    \A i \in Ids, p, q \in Procs, r, s \in Roles :
        <<p, r>> \in lease[i] /\ <<q, s>> \in lease[i] => p = q
=============================================================================

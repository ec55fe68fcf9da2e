----------------------------- MODULE Scenario -----------------------------
(***************************************************************************)
(* Scenario files as the lint of suite/exec.c and the trial check of       *)
(* suite/nemesis.c see them: the system under test, the phases, the steps  *)
(* of each phase and its condition.  Timeouts, texts, images and signals   *)
(* are left out; the names of workloads are the subject of Workloads, and  *)
(* here every workload is the unnamed one, "submitted".                    *)
(***************************************************************************)
EXTENDS Naturals, Sequences

CONSTANT Nodes  \* nodes of the file
ASSUME NodesAssumption == Nodes \in Nat \ {0}

Node == 0..(Nodes - 1)
Suts == {"concord", "weld"}

\* Steps of the fault and traffic verbs; node is that of the step, or 0.
Verbs == {"drop", "heal", "kill", "restart", "submit", "stop", "update", "pub"}
Step == [verb : Verbs, node : Nat]

\* Conditions; n is the count of peers and mesh_count, else the node.
Kinds == {"peers", "mesh", "assigned", "absent", "agree", "observed"}
Cond == [kind : Kinds, n : Nat]

Phase == [name : Nat, steps : Seq(Step), cond : Cond]

-----------------------------------------------------------------------------
(* The lint.                                                               *)

\* kEpCap of the endpoint that a bare node index stands for (sut_def_ep):
\* weld publishes and observes, concord submits.
CanPub(sut)     == sut = "weld"
CanObserve(sut) == sut = "weld"
CanSubmit(sut)  == sut = "concord"

\* val_step, for the verbs above.
val_step(s, sut) ==
    CASE s.verb \in {"drop", "heal", "kill", "restart"} -> s.node \in Node
      [] s.verb = "submit" -> s.node \in Node /\ CanSubmit(sut)
      [] s.verb = "pub"    -> s.node \in Node /\ CanPub(sut)
      [] s.verb \in {"stop", "update"} -> sut = "concord"

\* val_cond, for the kinds above.
val_cond(c, sut) ==
    CASE c.kind = "peers"    -> sut = "concord" /\ c.n \in 1..Nodes
      [] c.kind = "mesh"     -> c.n \in 1..Nodes
      [] c.kind = "observed" -> c.n \in Node /\ CanObserve(sut)
      [] c.kind \in {"assigned", "absent", "agree"} -> sut = "concord"

val_phase(p, sut) ==
    /\ \A k \in DOMAIN p.steps : val_step(p.steps[k], sut)
    /\ val_cond(p.cond, sut)

IsSubmit(f, j, k) ==
    /\ j \in DOMAIN f /\ k \in DOMAIN f[j].steps
    /\ f[j].steps[k].verb = "submit"

\* A submit stands before step k of phase j, or in the phases up to j.
SubmitBefore(f, j, k) ==
    \/ \E i \in 1..(j - 1) : \E l \in DOMAIN f[i].steps : IsSubmit(f, i, l)
    \/ \E l \in 1..(k - 1) : IsSubmit(f, j, l)
SubmitUpTo(f, j) == SubmitBefore(f, j, Len(f[j].steps) + 1)

NamesDiffer(f) == \A i, j \in DOMAIN f : f[i].name = f[j].name => i = j

\* val_top: names of phases differ, the unnamed workload is submitted once,
\* and a step or a condition about it comes after the submit.
val_top(f, sut) ==
    /\ Len(f) > 0
    /\ \A j \in DOMAIN f : val_phase(f[j], sut)
    /\ NamesDiffer(f)
    /\ \A j \in DOMAIN f :
           /\ \A k \in DOMAIN f[j].steps :
                  /\ IsSubmit(f, j, k) => ~SubmitBefore(f, j, k)
                  /\ f[j].steps[k].verb \in {"stop", "update"}
                         => SubmitBefore(f, j, k)
           /\ f[j].cond.kind \in {"assigned", "absent", "agree"} => SubmitUpTo(f, j)

-----------------------------------------------------------------------------
(* The minimizer's own check and its cuts.                                 *)

\* cond_needs knows assigned, present and absent.
cond_needs(c) == c.kind \in {"assigned", "absent"}

\* Slip: a condition on the workload does not ask for a submit.
TrialValidSteps(f) ==
    /\ Len(f) > 0
    /\ NamesDiffer(f)
    /\ \A j \in DOMAIN f :
           \A k \in DOMAIN f[j].steps :
               f[j].steps[k].verb = "stop" => SubmitBefore(f, j, k)

\* trial_valid: of the steps on a workload it knows stop.
trial_valid(f) ==
    /\ Len(f) > 0
    /\ NamesDiffer(f)
    /\ \A j \in DOMAIN f :
           /\ \A k \in DOMAIN f[j].steps :
                  f[j].steps[k].verb = "stop" => SubmitBefore(f, j, k)
           /\ cond_needs(f[j].cond) => SubmitUpTo(f, j)

Without(s, i) == SubSeq(s, 1, i - 1) \o SubSeq(s, i + 1, Len(s))

trial_no_phase(f, j) == Without(f, j)

\* A phase whose last step goes loses its do key as well.
trial_no_step(f, j, k) == [f EXCEPT ![j].steps = Without(@, k)]
=============================================================================

------------------------------- MODULE RunNet -------------------------------
(***************************************************************************)
(* What a run keeps on the host under its id: network namespaces, the host *)
(* route of the host form and the node homes in the state directory        *)
(* (run/run.c setup, unwind and teardown over sim/sim.c).  Names derive    *)
(* from the run id alone (sim_net_for_run), so what a crashed run left     *)
(* lies in the way of the next run with that id, and the only thing that   *)
(* keeps two live runs apart is the lease on the id.  This module builds   *)
(* on the leases of RunLease, which the lock files of RunIds implement.    *)
(***************************************************************************)
EXTENDS RunLease

CONSTANTS MaxNodes,  \* largest number of nodes of a scenario
          None,
          Left       \* the owner of what a process left: it died, or its
                     \* command to delete it failed

ASSUME IdsAssumption      == MaxId \in Nat \ {0}
ASSUME MaxNodesAssumption == MaxNodes \in Nat \ {0}
ASSUME OwnerAssumption    == None \notin Procs /\ Left \notin Procs /\ Left # None

Nodes  == 0..(MaxNodes - 1)
Owners == Procs \union {None, Left}
Forms  == {"host", "isolated"}

VARIABLES
    rid,     \* the run id of the current file
    stage,   \* how far the process is with the current file
    form,    \* isolate_all of the net of its run
    size,    \* r->n
    k,       \* the loop variable of the stage: the next node
    ns,      \* ns[i][j]: who made namespace resonance<i>_<j>; None: no such
    route,   \* whose TUN the host route 224.0.0.0/4 goes through
    home     \* home[i][j]: who made statedir-<i>/node<j>; None: no such

run  == <<rid, form, size>>
vars == <<lease, run, stage, k, ns, route, home>>

Stages == {"none", "netns", "tuns", "addrs", "spawn", "live", "hostdown",
           "unwind", "down"}

TypeOK ==
    /\ lease \in [Ids -> SUBSET (Procs \X Roles)]
    /\ rid \in [Procs -> Ids]
    /\ stage \in [Procs -> Stages]
    /\ form \in [Procs -> Forms]
    /\ size \in [Procs -> 1..MaxNodes]
    /\ k \in [Procs -> 0..MaxNodes]
    /\ ns \in [Ids -> [Nodes -> Owners]]
    /\ route \in Procs \union {None}
    /\ home \in [Ids -> [Nodes -> Owners]]

NetInit ==
    /\ Init
    /\ rid = [p \in Procs |-> 1]
    /\ stage = [p \in Procs |-> "none"]
    /\ form = [p \in Procs |-> "isolated"]
    /\ size = [p \in Procs |-> 1]
    /\ k = [p \in Procs |-> 0]
    /\ ns = [i \in Ids |-> [j \in Nodes |-> None]]
    /\ route = None
    /\ home = [i \in Ids |-> [j \in Nodes |-> None]]

\* The run of process p goes to another stage, at the stage's first node.
Go(p, st, j) ==
    /\ stage' = [stage EXCEPT ![p] = st]
    /\ k' = [k EXCEPT ![p] = j]

\* The Run is a local of suite_run_file: it goes with the file.
Over(p) ==
    /\ form' = [form EXCEPT ![p] = "isolated"]
    /\ size' = [size EXCEPT ![p] = 1]
    /\ Go(p, "none", 0)
    /\ UNCHANGED rid

\* sim_netns_setup_net leaves node 0 on the host, sim_netns_setup_all does not.
FirstNs(f) == IF f = "host" THEN 1 ELSE 0

(***************************************************************************)
(* Setup.  A failed command ends the setup with the unwind; no command is  *)
(* tried again.                                                            *)
(***************************************************************************)

\* suite_run_file gets an id, which gives up the id of the file before, names
\* the net after it and enters run_setup_host or run_setup_isolated with n
\* nodes.  setup_init only touches memory; if it fails nothing was made.
Begin(p, i, f, n) ==
    /\ stage[p] = "none"
    /\ Grant(p, i)
    /\ rid' = [rid EXCEPT ![p] = i]
    /\ form' = [form EXCEPT ![p] = f]
    /\ size' = [size EXCEPT ![p] = n]
    /\ Go(p, "netns", FirstNs(f))
    /\ UNCHANGED <<ns, route, home>>

\* A command of a setup stage fails (or a TUN does not open, which skips).
SetupFails(p) ==
    /\ stage[p] \in {"netns", "tuns", "addrs"}
    /\ Go(p, "hostdown", 0)
    /\ UNCHANGED <<lease, run, ns, route, home>>

\* netns_add_one: delete whatever has the name, whether that works or not,
\* then add it.  The add may fail, and it does while the name is there: then
\* the setup unwinds.
NetnsAdd(p, del, add) ==
    LET free == del \/ ns[rid[p]][k[p]] = None
    IN  /\ stage[p] = "netns" /\ k[p] < size[p]
        /\ ns' = [ns EXCEPT ![rid[p]][k[p]] = IF ~free THEN @
                                              ELSE IF add THEN p ELSE None]
        /\ IF free /\ add THEN Go(p, "netns", k[p] + 1)
                          ELSE Go(p, "hostdown", 0)
        /\ UNCHANGED <<lease, run, route, home>>

NetnsDone(p) ==
    /\ stage[p] = "netns" /\ k[p] = size[p]
    /\ Go(p, "tuns", 0)
    /\ UNCHANGED <<lease, run, ns, route, home>>

\* open_in_ns needs the namespace by its name; node 0 of the host form opens
\* its TUN on the host.
TunOpen(p) ==
    /\ stage[p] = "tuns" /\ k[p] < size[p]
    /\ k[p] < FirstNs(form[p]) \/ ns[rid[p]][k[p]] # None
    /\ k' = [k EXCEPT ![p] = @ + 1]
    /\ UNCHANGED <<lease, run, stage, ns, route, home>>

\* sim_nodes_add_net touches memory only and belongs to this step.
TunsDone(p) ==
    /\ stage[p] = "tuns" /\ k[p] = size[p]
    /\ Go(p, "addrs", 0)
    /\ UNCHANGED <<lease, run, ns, route, home>>

\* sim_addrs_up_net or sim_addrs_up_all for one node.  The host table takes
\* one multicast route: `ip route add' fails while another run has it.
AddrUp(p) ==
    /\ stage[p] = "addrs" /\ k[p] < size[p]
    /\ IF k[p] < FirstNs(form[p])
       THEN route = None /\ route' = p
       ELSE ns[rid[p]][k[p]] # None /\ UNCHANGED route
    /\ k' = [k EXCEPT ![p] = @ + 1]
    /\ UNCHANGED <<lease, run, stage, ns, home>>

SetupDone(p) ==
    /\ stage[p] = "addrs" /\ k[p] = size[p]
    /\ Go(p, "spawn", 0)
    /\ UNCHANGED <<lease, run, ns, route, home>>

(***************************************************************************)
(* The run: homes of the nodes.                                            *)
(***************************************************************************)

\* spawn_one_net: mkdir accepts a home that is there already.
Spawn(p) ==
    /\ stage[p] = "spawn" /\ k[p] < size[p]
    /\ home' = [home EXCEPT ![rid[p]][k[p]] = IF @ = None THEN p ELSE @]
    /\ k' = [k EXCEPT ![p] = @ + 1]
    /\ UNCHANGED <<lease, run, stage, ns, route>>

SpawnDone(p) ==
    /\ stage[p] = "spawn" /\ k[p] = size[p]
    /\ Go(p, "live", 0)
    /\ UNCHANGED <<lease, run, ns, route, home>>

\* A fresh restart of a node: its home is removed and made anew.
RestartFresh(p, j) ==
    /\ stage[p] = "live" /\ j < size[p]
    /\ home' = [home EXCEPT ![rid[p]][j] = p]
    /\ UNCHANGED <<lease, run, stage, k, ns, route>>

\* weld_relay_start; weld runs are isolated.
Relay(p) ==
    /\ stage[p] = "live" /\ form[p] = "isolated"
    /\ Share(p, rid[p])
    /\ UNCHANGED <<run, stage, k, ns, route, home>>

(***************************************************************************)
(* The ways down.                                                          *)
(***************************************************************************)

\* run_teardown: children are reaped and the TUNs closed, and the host device
\* takes its route with it.  The namespaces and the state directory follow.
Down(p) ==
    /\ route' = IF route = p THEN None ELSE route
    /\ Go(p, "down", 0)
    /\ UNCHANGED <<lease, run, ns>>

\* A spawn has failed, or the file has come to its end.
BeginTeardown(p) ==
    /\ stage[p] \in {"spawn", "live"}
    /\ Down(p)
    /\ UNCHANGED home

\* A fresh restart fails, before or after its rm -rf has removed the home:
\* the step fails, and the file with it.
RestartFails(p, j, gone) ==
    /\ stage[p] = "live" /\ j < size[p]
    /\ home' = [home EXCEPT ![rid[p]][j] = IF gone THEN None ELSE @]
    /\ Down(p)

\* Slip: `ip route del 224.0.0.0/4' without its dev.
HostDownAnyDev(p) ==
    /\ stage[p] = "hostdown"
    /\ route' = IF form[p] = "host" THEN None ELSE route
    /\ Go(p, "unwind", 0)
    /\ UNCHANGED <<lease, run, ns, home>>

\* setup_unwind: close the TUNs, then host_down_net takes the run's own
\* route, address and device off the host.
HostDown(p) ==
    /\ stage[p] = "hostdown"
    /\ route' = IF route = p THEN None ELSE route
    /\ Go(p, "unwind", 0)
    /\ UNCHANGED <<lease, run, ns, home>>

\* What a command to delete makes of an owner: nothing is left of it if it
\* works or there was nothing, else it stays behind.  Nobody tries again.
Deleted(o, ok) == IF ok \/ o = None THEN None ELSE Left

\* Slip: the loop of the isolated form's unwind starts at node 1.
NetnsDelFromOne(p, ok) ==
    /\ stage[p] \in {"down", "unwind"}
    /\ k[p] < size[p]
    /\ ns' = [ns EXCEPT ![rid[p]][k[p]] = IF k[p] = 0 THEN @
                                          ELSE Deleted(@, ok)]
    /\ k' = [k EXCEPT ![p] = @ + 1]
    /\ UNCHANGED <<lease, run, stage, route, home>>

\* netns_del_one for every node of the run, whether it has one or not; what
\* `ip netns del' answers is ignored.
NetnsDel(p, ok) ==
    /\ stage[p] \in {"down", "unwind"}
    /\ k[p] < size[p]
    /\ ns' = [ns EXCEPT ![rid[p]][k[p]] = Deleted(@, ok)]
    /\ k' = [k EXCEPT ![p] = @ + 1]
    /\ UNCHANGED <<lease, run, stage, route, home>>

\* The setup has failed: suite_run_file returns SUITE_FAIL or SUITE_SKIP.
Unwound(p) ==
    /\ stage[p] = "unwind" /\ k[p] = size[p]
    /\ Over(p)
    /\ UNCHANGED <<lease, ns, route, home>>

\* run_teardown ends with rm -rf of the state directory, best effort: some
\* homes may stay.
Wiped(p, stay) ==
    /\ stage[p] = "down" /\ k[p] = size[p]
    /\ home' = [home EXCEPT ![rid[p]] =
                    [j \in Nodes |-> Deleted(home[rid[p]][j], j \notin stay)]]
    /\ Over(p)
    /\ UNCHANGED <<lease, ns, route>>

\* A relay pump ends, whatever has become of its run.
RelayEnds(p, i) ==
    /\ Drop(p, "pump", i)
    /\ UNCHANGED <<run, stage, k, ns, route, home>>

\* What process p owned in a table has no owner any more.
Abandon(tab, p) ==
    [i \in Ids |-> [j \in Nodes |-> IF tab[i][j] = p THEN Left ELSE tab[i][j]]]

\* A process dies: the kernel closes its TUNs, and with the host device goes
\* the route.  Names and directories stay.
Dies(p) ==
    /\ Drop(p, "run", rid[p])
    /\ ns' = Abandon(ns, p)
    /\ home' = Abandon(home, p)
    /\ route' = IF route = p THEN None ELSE route
    /\ Over(p)

NetNext ==
    \E p \in Procs :
        \/ \E i \in Ids, f \in Forms, n \in 1..MaxNodes : Begin(p, i, f, n)
        \/ \E del, add \in BOOLEAN : NetnsAdd(p, del, add)
        \/ NetnsDone(p) \/ TunOpen(p) \/ TunsDone(p) \/ AddrUp(p)
        \/ SetupDone(p) \/ SetupFails(p)
        \/ Spawn(p) \/ SpawnDone(p)
        \/ \E j \in Nodes : RestartFresh(p, j)
        \/ Relay(p)
        \/ \E j \in Nodes, gone \in BOOLEAN : RestartFails(p, j, gone)
        \/ BeginTeardown(p) \/ HostDown(p)
        \/ \E ok \in BOOLEAN : NetnsDel(p, ok)
        \/ Unwound(p)
        \/ \E stay \in SUBSET Nodes : Wiped(p, stay)
        \/ \E i \in Ids : RelayEnds(p, i)
        \/ Dies(p)

NetSpec == NetInit /\ [][NetNext]_vars

-----------------------------------------------------------------------------
(* Properties.                                                             *)

\* The nodes of p's run whose namespaces have been made and not deleted.
Made(p) ==
    LET all == FirstNs(form[p])..(size[p] - 1)
    IN  CASE stage[p] = "netns" -> {j \in all : j < k[p]}
          [] stage[p] \in {"tuns", "addrs", "spawn", "live"} -> all
          [] stage[p] = "down" -> {j \in all : j >= k[p]}
          [] OTHER -> {}

\* A live run keeps what it set up: until its own teardown, each of its
\* namespaces, its host route and its nodes' homes are there and nobody
\* else's, though other runs clear stale names before they set up, unwind
\* failed setups and wipe state directories meanwhile.
OwnNet ==
    \A p \in Procs :
        /\ \A j \in Made(p) : ns[rid[p]][j] = p
        /\ stage[p] \in {"spawn", "live"} /\ form[p] = "host" => route = p
        /\ stage[p] = "live" =>
               \A j \in 0..(size[p] - 1) : home[rid[p]][j] \in {p, Left}

\* A run that ends has tried to delete all that it made: whatever failed and
\* in whichever stage, the namespaces, homes and the route found on the host
\* belong to a run that is still being set up, living or being taken down
\* under that very id, or they are Left, by a process that died or by an
\* `ip netns del' or `rm -rf' that failed (setup_unwind and run_teardown
\* ignore what these answer).  The route never stays.
NothingLeft ==
    /\ \A i \in Ids, j \in Nodes :
           /\ ns[i][j] \in Procs =>
                  rid[ns[i][j]] = i /\ stage[ns[i][j]] # "none"
           /\ home[i][j] \in Procs =>
                  rid[home[i][j]] = i /\ stage[home[i][j]] # "none"
    /\ route \in Procs => stage[route] # "none"
=============================================================================

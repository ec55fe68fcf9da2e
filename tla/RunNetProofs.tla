---------------------------- MODULE RunNetProofs ----------------------------
(***************************************************************************)
(* Proofs that runs keep their networks apart, for any set of processes,   *)
(* any number of ids and any number of nodes.                              *)
(***************************************************************************)
EXTENDS RunNet, TLAPS

(***************************************************************************)
(* The inductive invariant.                                                *)
(***************************************************************************)

\* A run in any stage has the lease of its id.
Leased ==
    \A p \in Procs : stage[p] # "none" => <<p, "run">> \in lease[rid[p]]

\* The loop variable stays within the run's nodes.
Bounded == \A p \in Procs : k[p] <= size[p]

\* A namespace belongs to a node of a run under that id, and a run that goes
\* down has not come to it yet.
NsOf ==
    \A p \in Procs, i \in Ids, j \in Nodes :
        ns[i][j] = p =>
            /\ rid[p] = i /\ stage[p] # "none" /\ j < size[p]
            /\ stage[p] \in {"down", "unwind"} => k[p] <= j

\* A home belongs to a run under that id that has come to its spawns.
HomeOf ==
    \A p \in Procs, i \in Ids, j \in Nodes :
        home[i][j] = p => rid[p] = i /\ stage[p] \in {"spawn", "live", "down"}

\* The route belongs to a run between the address of its first node and the
\* close of its TUNs.
RouteOf ==
    \A p \in Procs :
        route = p => stage[p] \in {"addrs", "spawn", "live", "hostdown"}

\* Node j of p's run has its namespace: Made, as a condition.
HasNs(p, j) ==
    /\ FirstNs(form[p]) <= j /\ j < size[p]
    /\ \/ stage[p] = "netns" /\ j < k[p]
       \/ stage[p] \in {"tuns", "addrs", "spawn", "live"}
       \/ stage[p] = "down" /\ k[p] <= j

NsKept ==
    \A p \in Procs, j \in Nodes : HasNs(p, j) => ns[rid[p]][j] = p

\* The route is there as soon as node 0 of the host form has its address.
RouteKept ==
    \A p \in Procs :
        /\ form[p] = "host"
        /\ stage[p] \in {"spawn", "live"} \/ (stage[p] = "addrs" /\ k[p] > 0)
        => route = p

\* The homes that p's spawns have come to.
HasHome(p, j) ==
    /\ j < size[p]
    /\ stage[p] = "live" \/ (stage[p] = "spawn" /\ j < k[p])

HomeKept ==
    \A p \in Procs, j \in Nodes :
        HasHome(p, j) => home[rid[p]][j] \in {p, Left}

NetInv == NsOf /\ HomeOf /\ RouteOf /\ NsKept /\ RouteKept /\ HomeKept

IInv == TypeOK /\ Exclusive /\ Leased /\ Bounded /\ NetInv

-----------------------------------------------------------------------------
LEMMA InitIInv == NetInit => IInv
<1> SUFFICES ASSUME NetInit PROVE IInv
  OBVIOUS
<1> USE IdsAssumption, MaxNodesAssumption, OwnerAssumption DEF NetInit, Init
<1>1. TypeOK
  BY DEF TypeOK, Ids, Nodes, Owners, Forms, Stages
<1>2. Exclusive /\ Leased /\ Bounded
  BY DEF Exclusive, Leased, Bounded
<1>3. NsOf /\ HomeOf /\ RouteOf
  BY DEF NsOf, HomeOf, RouteOf
<1>4. NsKept /\ RouteKept /\ HomeKept
  BY DEF NsKept, RouteKept, HomeKept, HasNs, HasHome
<1> QED
  BY <1>1, <1>2, <1>3, <1>4 DEF IInv, NetInv

\* The stages of a step are stages, its loop variable counts nodes.
LEMMA GoTypes ==
  ASSUME TypeOK, NEW p \in Procs, NEW st \in Stages, NEW j \in 0..MaxNodes,
         Go(p, st, j)
  PROVE  stage' \in [Procs -> Stages] /\ k' \in [Procs -> 0..MaxNodes]
  BY DEF TypeOK, Go

LEMMA OverTypes ==
  ASSUME TypeOK, NEW p \in Procs, Over(p)
  PROVE  /\ stage' \in [Procs -> Stages] /\ k' \in [Procs -> 0..MaxNodes]
         /\ rid' \in [Procs -> Ids] /\ form' \in [Procs -> Forms]
         /\ size' \in [Procs -> 1..MaxNodes]
<1>1. stage' \in [Procs -> Stages] /\ k' \in [Procs -> 0..MaxNodes]
  BY GoTypes, MaxNodesAssumption DEF Over, Stages
<1>2. rid' \in [Procs -> Ids]
  BY DEF Over, TypeOK
<1>3. form' \in [Procs -> Forms] /\ size' \in [Procs -> 1..MaxNodes]
  <2>1. "isolated" \in Forms /\ 1 \in 1..MaxNodes
    BY MaxNodesAssumption DEF Forms
  <2> QED
    BY <2>1 DEF Over, TypeOK
<1> QED
  BY <1>1, <1>2, <1>3

\* Setting one entry of a table of owners gives a table of owners.
LEMMA TableTypes ==
  ASSUME NEW tab \in [Ids -> [Nodes -> Owners]], NEW i \in Ids, NEW j \in Nodes,
         NEW o \in Owners
  PROVE  [tab EXCEPT ![i][j] = o] \in [Ids -> [Nodes -> Owners]]
  OBVIOUS

LEMMA AbandonTypes ==
  ASSUME NEW tab \in [Ids -> [Nodes -> Owners]], NEW p
  PROVE  Abandon(tab, p) \in [Ids -> [Nodes -> Owners]]
  BY DEF Abandon, Owners

LEMMA NodeTypes ==
  ASSUME TypeOK, NEW p \in Procs, k[p] < size[p]
  PROVE  k[p] \in Nodes /\ k[p] + 1 \in 0..MaxNodes
  BY MaxNodesAssumption DEF TypeOK, Nodes

LEMMA TypeStep == TypeOK /\ [NetNext]_vars => TypeOK'
<1> SUFFICES ASSUME TypeOK, [NetNext]_vars PROVE TypeOK'
  OBVIOUS
<1> USE DEF run
<1>1. CASE UNCHANGED vars
  BY <1>1 DEF vars, TypeOK
<1>2. ASSUME NEW p \in Procs, NEW i \in Ids, NEW f \in Forms,
             NEW n \in 1..MaxNodes, Begin(p, i, f, n)
      PROVE  TypeOK'
  <2>1. FirstNs(f) \in 0..MaxNodes
    BY MaxNodesAssumption DEF FirstNs
  <2>2. stage' \in [Procs -> Stages] /\ k' \in [Procs -> 0..MaxNodes]
    BY <1>2, <2>1, GoTypes DEF Begin, Stages
  <2>3. lease' \in [Ids -> SUBSET (Procs \X Roles)]
    BY <1>2 DEF Begin, Grant, Without, TypeOK, Roles
  <2> QED
    BY <1>2, <2>2, <2>3 DEF Begin, TypeOK
<1>3. ASSUME NEW p \in Procs, NEW del \in BOOLEAN, NEW add \in BOOLEAN,
             NetnsAdd(p, del, add)
      PROVE  TypeOK'
  <2>1. k[p] \in Nodes /\ k[p] + 1 \in 0..MaxNodes
    BY <1>3, NodeTypes DEF NetnsAdd
  <2>2. stage' \in [Procs -> Stages] /\ k' \in [Procs -> 0..MaxNodes]
    BY <1>3, <2>1, GoTypes, MaxNodesAssumption DEF NetnsAdd, Stages
  <2>3. ns' \in [Ids -> [Nodes -> Owners]]
    <3>1. rid[p] \in Ids /\ ns[rid[p]][k[p]] \in Owners
      BY <2>1 DEF TypeOK
    <3>2. PICK o \in Owners : ns' = [ns EXCEPT ![rid[p]][k[p]] = o]
      BY <1>3, <3>1 DEF NetnsAdd, Owners
    <3> QED
      BY <2>1, <3>1, <3>2, TableTypes DEF TypeOK
  <2> QED
    BY <1>3, <2>2, <2>3 DEF NetnsAdd, TypeOK
<1>4. ASSUME NEW p \in Procs,
             NetnsDone(p) \/ TunsDone(p) \/ SetupDone(p) \/ SetupFails(p)
                 \/ SpawnDone(p)
      PROVE  TypeOK'
  <2>1. stage' \in [Procs -> Stages] /\ k' \in [Procs -> 0..MaxNodes]
    BY <1>4, GoTypes, MaxNodesAssumption
    DEF NetnsDone, TunsDone, SetupDone, SetupFails, SpawnDone, Stages
  <2> QED
    BY <1>4, <2>1
    DEF NetnsDone, TunsDone, SetupDone, SetupFails, SpawnDone, TypeOK
<1>5. ASSUME NEW p \in Procs, TunOpen(p) \/ AddrUp(p) PROVE TypeOK'
  <2>1. k[p] + 1 \in 0..MaxNodes
    BY <1>5, NodeTypes DEF TunOpen, AddrUp
  <2>2. k' \in [Procs -> 0..MaxNodes]
    BY <1>5, <2>1 DEF TunOpen, AddrUp, TypeOK
  <2> QED
    BY <1>5, <2>2 DEF TunOpen, AddrUp, TypeOK
<1>6. ASSUME NEW p \in Procs, Spawn(p) PROVE TypeOK'
  <2>1. k[p] \in Nodes /\ k[p] + 1 \in 0..MaxNodes
    BY <1>6, NodeTypes DEF Spawn
  <2>2. k' \in [Procs -> 0..MaxNodes]
    BY <1>6, <2>1 DEF Spawn, TypeOK
  <2>3. home' \in [Ids -> [Nodes -> Owners]]
    BY <1>6, <2>1 DEF Spawn, TypeOK, Owners
  <2> QED
    BY <1>6, <2>2, <2>3 DEF Spawn, TypeOK
<1>7. ASSUME NEW p \in Procs, NEW j \in Nodes, RestartFresh(p, j) PROVE TypeOK'
  BY <1>7, TableTypes DEF RestartFresh, TypeOK, Owners
<1>8. ASSUME NEW p \in Procs, Relay(p) PROVE TypeOK'
  BY <1>8 DEF Relay, Share, TypeOK, Roles
<1>9. ASSUME NEW p \in Procs, BeginTeardown(p) \/ HostDown(p) PROVE TypeOK'
  <2>1. stage' \in [Procs -> Stages] /\ k' \in [Procs -> 0..MaxNodes]
    BY <1>9, GoTypes, MaxNodesAssumption
    DEF BeginTeardown, Down, HostDown, Stages
  <2> QED
    BY <1>9, <2>1 DEF BeginTeardown, Down, HostDown, TypeOK
<1>9a. ASSUME NEW p \in Procs, NEW j \in Nodes, NEW gone \in BOOLEAN,
              RestartFails(p, j, gone)
       PROVE  TypeOK'
  <2>1. stage' \in [Procs -> Stages] /\ k' \in [Procs -> 0..MaxNodes]
    BY <1>9a, GoTypes, MaxNodesAssumption DEF RestartFails, Down, Stages
  <2>2. home' \in [Ids -> [Nodes -> Owners]]
    BY <1>9a DEF RestartFails, TypeOK, Owners
  <2> QED
    BY <1>9a, <2>1, <2>2 DEF RestartFails, Down, TypeOK
<1>10. ASSUME NEW p \in Procs, NEW ok \in BOOLEAN, NetnsDel(p, ok)
       PROVE  TypeOK'
  <2>1. k[p] \in Nodes /\ k[p] + 1 \in 0..MaxNodes
    BY <1>10, NodeTypes DEF NetnsDel
  <2>2. k' \in [Procs -> 0..MaxNodes]
    BY <1>10, <2>1 DEF NetnsDel, TypeOK
  <2>3. ns' \in [Ids -> [Nodes -> Owners]]
    BY <1>10, <2>1, TableTypes DEF NetnsDel, Deleted, TypeOK, Owners
  <2> QED
    BY <1>10, <2>2, <2>3 DEF NetnsDel, TypeOK
<1>11. ASSUME NEW p \in Procs, Unwound(p) PROVE TypeOK'
  BY <1>11, OverTypes DEF Unwound, TypeOK
<1>12. ASSUME NEW p \in Procs, NEW stay \in SUBSET Nodes, Wiped(p, stay)
       PROVE  TypeOK'
  <2>1. home' \in [Ids -> [Nodes -> Owners]]
    BY <1>12 DEF Wiped, Deleted, TypeOK, Owners
  <2> QED
    BY <1>12, <2>1, OverTypes DEF Wiped, TypeOK
<1>13. ASSUME NEW p \in Procs, NEW i \in Ids, RelayEnds(p, i) PROVE TypeOK'
  BY <1>13 DEF RelayEnds, Drop, TypeOK
<1>14. ASSUME NEW p \in Procs, Dies(p) PROVE TypeOK'
  <2>1. ns' \in [Ids -> [Nodes -> Owners]] /\ home' \in [Ids -> [Nodes -> Owners]]
    BY <1>14, AbandonTypes DEF Dies, TypeOK
  <2>2. lease' \in [Ids -> SUBSET (Procs \X Roles)]
    BY <1>14 DEF Dies, Drop, TypeOK
  <2>3. route' \in Procs \union {None}
    BY <1>14 DEF Dies, TypeOK
  <2> QED
    BY <1>14, <2>1, <2>2, <2>3, OverTypes DEF Dies, TypeOK
<1> QED
  BY <1>1, <1>2, <1>3, <1>4, <1>5, <1>6, <1>7, <1>8, <1>9, <1>10, <1>11,
     <1>12, <1>13, <1>14, <1>9a DEF NetNext

-----------------------------------------------------------------------------
(* Leases.                                                                 *)

\* Two runs in their stages have different ids.
LEMMA Apart ==
  ASSUME TypeOK, Exclusive, Leased, NEW p \in Procs, NEW q \in Procs, p # q,
         stage[p] # "none", stage[q] # "none"
  PROVE  rid[p] # rid[q]
  BY DEF TypeOK, Exclusive, Leased, Roles

\* A step that leaves leases and ids alone and begins no stage keeps them.
LEMMA SameLeases ==
  ASSUME Exclusive, Leased, UNCHANGED <<lease, rid>>,
         \A p \in Procs : stage'[p] # "none" => stage[p] # "none"
  PROVE  Exclusive' /\ Leased'
  BY DEF Exclusive, Leased

LEMMA LeaseStep ==
  TypeOK /\ Exclusive /\ Leased /\ [NetNext]_vars => Exclusive' /\ Leased'
<1> SUFFICES ASSUME TypeOK, Exclusive, Leased, [NetNext]_vars
             PROVE  Exclusive' /\ Leased'
  OBVIOUS
<1> USE DEF run
<1>1. CASE UNCHANGED vars
  BY <1>1, SameLeases DEF vars
<1>2. ASSUME NEW p \in Procs, NEW i \in Ids, NEW f \in Forms,
             NEW n \in 1..MaxNodes, Begin(p, i, f, n)
      PROVE  Exclusive' /\ Leased'
  <2>1. /\ lease[i] = {}
        /\ \A l \in Ids : lease'[l] = IF l = i THEN {<<p, "run">>}
                                              ELSE lease[l] \ {<<p, "run">>}
    BY <1>2 DEF Begin, Grant, Without, TypeOK
  <2>2. Exclusive'
    BY <2>1 DEF Exclusive
  <2>3. ASSUME NEW q \in Procs, stage'[q] # "none"
        PROVE  <<q, "run">> \in lease'[rid'[q]]
    <3>1. CASE q = p
      BY <1>2, <2>1, <3>1 DEF Begin, TypeOK
    <3>2. CASE q # p
      BY <1>2, <2>1, <2>3, <3>2 DEF Begin, Go, TypeOK, Leased
    <3> QED BY <3>1, <3>2
  <2> QED
    BY <2>2, <2>3 DEF Leased
<1>3. ASSUME NEW p \in Procs, NEW del \in BOOLEAN, NEW add \in BOOLEAN,
             NetnsAdd(p, del, add)
      PROVE  Exclusive' /\ Leased'
  BY <1>3, SameLeases DEF NetnsAdd, Go, TypeOK
<1>4. ASSUME NEW p \in Procs,
             NetnsDone(p) \/ TunsDone(p) \/ SetupDone(p) \/ SetupFails(p)
                 \/ SpawnDone(p)
      PROVE  Exclusive' /\ Leased'
  BY <1>4, SameLeases
  DEF NetnsDone, TunsDone, SetupDone, SetupFails, SpawnDone, Go, TypeOK
<1>5. ASSUME NEW p \in Procs,
             \/ TunOpen(p) \/ AddrUp(p) \/ Spawn(p)
             \/ \E ok \in BOOLEAN : NetnsDel(p, ok)
             \/ \E j \in Nodes : RestartFresh(p, j)
      PROVE  Exclusive' /\ Leased'
  BY <1>5, SameLeases DEF TunOpen, AddrUp, Spawn, NetnsDel, RestartFresh
<1>6. ASSUME NEW p \in Procs,
             \/ BeginTeardown(p) \/ HostDown(p)
             \/ \E j \in Nodes, gone \in BOOLEAN : RestartFails(p, j, gone)
      PROVE  Exclusive' /\ Leased'
  BY <1>6, SameLeases
  DEF BeginTeardown, RestartFails, Down, HostDown, Go, TypeOK
<1>7. ASSUME NEW p \in Procs,
             Unwound(p) \/ \E stay \in SUBSET Nodes : Wiped(p, stay)
      PROVE  Exclusive' /\ Leased'
  BY <1>7, SameLeases DEF Unwound, Wiped, Over, Go, TypeOK
<1>8. ASSUME NEW p \in Procs, Relay(p) PROVE Exclusive' /\ Leased'
  <2>1. /\ <<p, "run">> \in lease[rid[p]]
        /\ \A l \in Ids : lease'[l] = IF l = rid[p]
                                      THEN lease[l] \union {<<p, "pump">>}
                                      ELSE lease[l]
    BY <1>8 DEF Relay, Share, TypeOK
  <2>2. ASSUME NEW q \in Procs, NEW r \in Roles, <<q, r>> \in lease[rid[p]]
        PROVE  q = p
    BY <2>1, <2>2 DEF Exclusive, Roles, TypeOK
  <2>3. ASSUME NEW l \in Ids, NEW q \in Procs, NEW r \in Roles,
               <<q, r>> \in lease'[l]
        PROVE  <<q, r>> \in lease[l] \/ (l = rid[p] /\ q = p)
    <3>1. <<q, r>> \in lease[l] \/ (l = rid[p] /\ <<q, r>> = <<p, "pump">>)
      BY <2>1, <2>3, Zenon
    <3> QED
      BY <3>1
  <2>4. Exclusive'
    BY <2>2, <2>3 DEF Exclusive
  <2>5. Leased'
    BY <1>8, <2>1 DEF Relay, Leased, TypeOK
  <2> QED
    BY <2>4, <2>5
<1>9. ASSUME NEW p \in Procs, NEW i \in Ids, RelayEnds(p, i)
      PROVE  Exclusive' /\ Leased'
  <2>1. \A l \in Ids : lease'[l] = IF l = i THEN lease[l] \ {<<p, "pump">>}
                                            ELSE lease[l]
    BY <1>9 DEF RelayEnds, Drop, TypeOK
  <2>2. Exclusive'
    BY <2>1 DEF Exclusive
  <2>3. Leased'
    BY <1>9, <2>1 DEF RelayEnds, Leased, TypeOK
  <2> QED
    BY <2>2, <2>3
<1>10. ASSUME NEW p \in Procs, Dies(p) PROVE Exclusive' /\ Leased'
  <2>1. \A l \in Ids : lease'[l] = IF l = rid[p] THEN lease[l] \ {<<p, "run">>}
                                                 ELSE lease[l]
    BY <1>10 DEF Dies, Drop, TypeOK
  <2>2. Exclusive'
    BY <2>1 DEF Exclusive
  <2>3. Leased'
    BY <1>10, <2>1 DEF Dies, Over, Go, Leased, TypeOK
  <2> QED
    BY <2>2, <2>3
<1> QED
  BY <1>1, <1>2, <1>3, <1>4, <1>5, <1>6, <1>7, <1>8, <1>9, <1>10 DEF NetNext

LEMMA BoundedStep == TypeOK /\ Bounded /\ [NetNext]_vars => Bounded'
<1> SUFFICES ASSUME TypeOK, Bounded, [NetNext]_vars, NEW q \in Procs
             PROVE  k'[q] <= size'[q]
  BY DEF Bounded
<1> USE DEF run, TypeOK, Bounded, Go
<1>1. CASE UNCHANGED vars
  BY <1>1 DEF vars
<1>2. ASSUME NEW p \in Procs, NEW i \in Ids, NEW f \in Forms,
             NEW n \in 1..MaxNodes, Begin(p, i, f, n)
      PROVE  k'[q] <= size'[q]
  BY <1>2 DEF Begin, FirstNs
<1>3. ASSUME NEW p \in Procs, NEW del \in BOOLEAN, NEW add \in BOOLEAN,
             NetnsAdd(p, del, add)
      PROVE  k'[q] <= size'[q]
  <2>1. k[p] < size[p] /\ size' = size
    BY <1>3 DEF NetnsAdd
  <2>2. k' = [k EXCEPT ![p] = k[p] + 1] \/ k' = [k EXCEPT ![p] = 0]
    <3>1. Go(p, "netns", k[p] + 1) \/ Go(p, "hostdown", 0)
      <4> HIDE DEF Go
      <4> QED BY <1>3, Zenon DEF NetnsAdd
    <3> QED
      BY <3>1
  <2>3. CASE k' = [k EXCEPT ![p] = k[p] + 1]
    BY <2>1, <2>3
  <2>4. CASE k' = [k EXCEPT ![p] = 0]
    BY <2>1, <2>4
  <2> QED
    BY <2>2, <2>3, <2>4
<1>4. ASSUME NEW p \in Procs,
             NetnsDone(p) \/ TunsDone(p) \/ SetupDone(p) \/ SetupFails(p)
                 \/ SpawnDone(p) \/ BeginTeardown(p) \/ HostDown(p)
                 \/ \E j \in Nodes, gone \in BOOLEAN : RestartFails(p, j, gone)
      PROVE  k'[q] <= size'[q]
  <2>1. k' = [k EXCEPT ![p] = 0] /\ size' = size
    BY <1>4, Zenon DEF NetnsDone, TunsDone, SetupDone, SetupFails, SpawnDone,
                       BeginTeardown, RestartFails, Down, HostDown
  <2> QED
    BY <2>1
<1>5. ASSUME NEW p \in Procs,
             \/ TunOpen(p) \/ AddrUp(p) \/ Spawn(p)
             \/ \E ok \in BOOLEAN : NetnsDel(p, ok)
      PROVE  k'[q] <= size'[q]
  <2>1. k[p] < size[p] /\ k' = [k EXCEPT ![p] = k[p] + 1] /\ size' = size
    BY <1>5, Zenon DEF TunOpen, AddrUp, Spawn, NetnsDel
  <2> QED
    BY <2>1
<1>6. ASSUME NEW p \in Procs,
             \/ Relay(p) \/ \E j \in Nodes : RestartFresh(p, j)
             \/ \E i \in Ids : RelayEnds(p, i)
      PROVE  k'[q] <= size'[q]
  BY <1>6 DEF Relay, RestartFresh, RelayEnds
<1>7. ASSUME NEW p \in Procs,
             Unwound(p) \/ Dies(p) \/ \E stay \in SUBSET Nodes : Wiped(p, stay)
      PROVE  k'[q] <= size'[q]
  <2>1. Over(p)
    BY <1>7 DEF Unwound, Wiped, Dies
  <2> QED
    BY <2>1 DEF Over
<1> QED
  BY <1>1, <1>2, <1>3, <1>4, <1>5, <1>6, <1>7 DEF NetNext

-----------------------------------------------------------------------------
(* What is on the host.  Every action is one process p's; each fact is     *)
(* shown for an arbitrary process q, which is p or keeps its own state.    *)

\* Process q takes no part in a step of p's.
Aside(q) ==
    /\ stage'[q] = stage[q] /\ k'[q] = k[q]
    /\ rid'[q] = rid[q] /\ form'[q] = form[q] /\ size'[q] = size[q]

\* What NetInv says of one process.
NetOf(q) ==
    /\ \A i \in Ids, j \in Nodes :
           /\ ns[i][j] = q =>
                  /\ rid[q] = i /\ stage[q] # "none" /\ j < size[q]
                  /\ stage[q] \in {"down", "unwind"} => k[q] <= j
           /\ home[i][j] = q => rid[q] = i /\ stage[q] \in {"spawn", "live", "down"}
    /\ route = q => stage[q] \in {"addrs", "spawn", "live", "hostdown"}
    /\ \A j \in Nodes : HasNs(q, j) => ns[rid[q]][j] = q
    /\ /\ form[q] = "host"
       /\ stage[q] \in {"spawn", "live"} \/ (stage[q] = "addrs" /\ k[q] > 0)
       => route = q
    /\ \A j \in Nodes : HasHome(q, j) => home[rid[q]][j] \in {q, Left}

LEMMA NetOfAll == NetInv <=> \A q \in Procs : NetOf(q)
  BY DEF NetInv, NetOf, NsOf, HomeOf, RouteOf, NsKept, RouteKept, HomeKept

\* A step that q stands aside from keeps what is q's, if it gives q nothing
\* and takes nothing from q.
LEMMA AsideKeeps ==
  ASSUME NEW q \in Procs, NetOf(q), Aside(q), rid[q] \in Ids,
         \A i \in Ids, j \in Nodes : ns'[i][j] = q <=> ns[i][j] = q,
         \A i \in Ids, j \in Nodes : home'[i][j] = q <=> home[i][j] = q,
         \A i \in Ids, j \in Nodes :
             i = rid[q] /\ stage[q] # "none" /\ home[i][j] = Left
                 => home'[i][j] = Left,
         route' = q <=> route = q
  PROVE  NetOf(q)'
<1>1. \A j \in Nodes : HasNs(q, j)' <=> HasNs(q, j)
  BY DEF HasNs, Aside
<1>2. \A j \in Nodes : HasHome(q, j)' <=> HasHome(q, j)
  BY DEF HasHome, Aside
<1>3. \A j \in Nodes : HasHome(q, j) => stage[q] # "none"
  BY DEF HasHome
<1> QED
  BY <1>1, <1>2, <1>3 DEF NetOf, Aside

\* Every step keeps what NetInv says of a process q.
LEMMA NetStep == IInv /\ [NetNext]_vars => NetInv'
<1> SUFFICES ASSUME IInv, [NetNext]_vars, NEW q \in Procs PROVE NetOf(q)'
  <2>1. (\A q \in Procs : NetOf(q)') => NetInv'
    BY DEF NetInv, NetOf, NsOf, HomeOf, RouteOf, NsKept, RouteKept, HomeKept
  <2> QED
    BY <2>1
<1>t. TypeOK /\ TypeOK'
  BY TypeStep DEF IInv
<1>q. NetOf(q)
  BY NetOfAll DEF IInv
<1>r. rid[q] \in Ids
  BY <1>t DEF TypeOK
<1>b. \A p \in Procs : k[p] <= size[p]
  BY DEF IInv, Bounded
<1>a. ASSUME NEW p \in Procs, p # q, stage[p] # "none", stage[q] # "none"
      PROVE  rid[p] # rid[q]
  BY <1>a, <1>t, Apart DEF IInv
<1>o. ASSUME NEW p \in Procs, p # q, stage[p] # "none", NEW j \in Nodes
      PROVE  ns[rid[p]][j] # q /\ home[rid[p]][j] # q
  BY <1>a, <1>o, <1>q, <1>t DEF NetOf, TypeOK
<1> USE DEF run
<1>1. CASE UNCHANGED vars
  BY <1>1, <1>q, <1>r, AsideKeeps DEF vars, Aside
<1>2. ASSUME NEW p \in Procs, NEW i \in Ids, NEW f \in Forms,
             NEW n \in 1..MaxNodes, Begin(p, i, f, n)
      PROVE  NetOf(q)'
  <2>1. CASE q = p
    BY <1>2, <1>q, <1>t, <2>1, OwnerAssumption
    DEF Begin, Go, NetOf, HasNs, HasHome, TypeOK, FirstNs, Nodes
  <2>2. CASE q # p
    <3>1. Aside(q)
      BY <1>2, <1>t, <2>2 DEF Begin, Go, Aside, TypeOK
    <3> QED
      BY <1>2, <1>q, <1>r, <3>1, AsideKeeps DEF Begin
  <2> QED BY <2>1, <2>2
<1>3. ASSUME NEW p \in Procs, NEW del \in BOOLEAN, NEW add \in BOOLEAN,
             NetnsAdd(p, del, add)
      PROVE  NetOf(q)'
  <2>1. k[p] \in Nodes /\ rid[p] \in Ids
    BY <1>3, <1>t, NodeTypes DEF NetnsAdd, TypeOK
  <2>2. \A i \in Ids, j \in Nodes :
            ns'[i][j] = IF i = rid[p] /\ j = k[p] /\ (del \/ ns[i][j] = None)
                        THEN IF add THEN p ELSE None
                        ELSE ns[i][j]
    BY <1>3, <1>t, <2>1 DEF NetnsAdd, TypeOK
  <2>3. CASE q = p
    <3>1. CASE add /\ (del \/ ns[rid[p]][k[p]] = None)
      BY <1>3, <1>q, <1>t, <2>1, <2>2, <2>3, <3>1, OwnerAssumption
      DEF NetnsAdd, Go, NetOf, HasNs, HasHome, TypeOK, FirstNs, Nodes
    <3>2. CASE ~(add /\ (del \/ ns[rid[p]][k[p]] = None))
      BY <1>3, <1>q, <1>t, <2>1, <2>2, <2>3, <3>2, OwnerAssumption
      DEF NetnsAdd, Go, NetOf, HasNs, HasHome, TypeOK, FirstNs, Nodes
    <3> QED BY <3>1, <3>2
  <2>4. CASE q # p
    <3>1. Aside(q)
      BY <1>3, <1>t, <2>4 DEF NetnsAdd, Go, Aside, TypeOK
    <3>2. \A i \in Ids, j \in Nodes : ns'[i][j] = q <=> ns[i][j] = q
      BY <1>3, <1>o, <2>1, <2>2, <2>4, OwnerAssumption DEF NetnsAdd
    <3> QED
      BY <1>3, <1>q, <1>r, <3>1, <3>2, AsideKeeps DEF NetnsAdd
  <2> QED BY <2>3, <2>4
<1>4. ASSUME NEW p \in Procs,
             NetnsDone(p) \/ TunsDone(p) \/ SetupDone(p) \/ SetupFails(p)
                 \/ SpawnDone(p)
      PROVE  NetOf(q)'
  <2> USE DEF NetnsDone, TunsDone, SetupDone, SetupFails, SpawnDone
  <2>1. CASE q = p
    <3> USE <1>q, <1>t, <1>b, <2>1, OwnerAssumption
        DEF Go, NetOf, HasNs, HasHome, TypeOK, FirstNs, Nodes, Forms
    <3>1. CASE NetnsDone(p)
      BY <3>1
    <3>2. CASE TunsDone(p)
      BY <3>2
    <3>3. CASE SetupDone(p)
      BY <3>3
    <3>4. CASE SetupFails(p)
      BY <3>4
    <3>5. CASE SpawnDone(p)
      BY <3>5
    <3> QED
      BY <1>4, <3>1, <3>2, <3>3, <3>4, <3>5
  <2>2. CASE q # p
    <3>1. Aside(q) /\ UNCHANGED <<ns, route, home>>
      BY <1>4, <1>t, <2>2 DEF Go, Aside, TypeOK
    <3> QED
      BY <1>q, <1>r, <3>1, AsideKeeps
  <2> QED BY <2>1, <2>2
<1>5. ASSUME NEW p \in Procs, TunOpen(p) PROVE NetOf(q)'
  <2>1. CASE q = p
    BY <1>5, <1>q, <1>t, <2>1
    DEF TunOpen, NetOf, HasNs, HasHome, TypeOK, FirstNs, Nodes
  <2>2. CASE q # p
    <3>1. Aside(q)
      BY <1>5, <1>t, <2>2 DEF TunOpen, Aside, TypeOK
    <3> QED
      BY <1>5, <1>q, <1>r, <3>1, AsideKeeps DEF TunOpen
  <2> QED BY <2>1, <2>2
<1>6. ASSUME NEW p \in Procs, AddrUp(p) PROVE NetOf(q)'
  <2>1. CASE q = p
    BY <1>6, <1>q, <1>t, <2>1, OwnerAssumption
    DEF AddrUp, NetOf, HasNs, HasHome, TypeOK, FirstNs, Nodes, Forms
  <2>2. CASE q # p
    <3>1. Aside(q)
      BY <1>6, <1>t, <2>2 DEF AddrUp, Aside, TypeOK
    <3>2. route' = q <=> route = q
      BY <1>6, <2>2, OwnerAssumption DEF AddrUp
    <3> QED
      BY <1>6, <1>q, <1>r, <3>1, <3>2, AsideKeeps DEF AddrUp
  <2> QED BY <2>1, <2>2
<1>7. ASSUME NEW p \in Procs, Spawn(p) PROVE NetOf(q)'
  <2>1. k[p] \in Nodes /\ rid[p] \in Ids
    BY <1>7, <1>t, NodeTypes DEF Spawn, TypeOK
  <2>2. \A i \in Ids, j \in Nodes :
            home'[i][j] = IF i = rid[p] /\ j = k[p] /\ home[i][j] = None
                          THEN p ELSE home[i][j]
    BY <1>7, <1>t, <2>1 DEF Spawn, TypeOK
  <2>3. CASE q = p
    <3>1. home[rid[p]][k[p]] \in {p, None, Left}
      <4>1. ASSUME NEW o \in Procs, home[rid[p]][k[p]] = o PROVE o = p
        <5>1. NetOf(o)
          BY NetOfAll DEF IInv
        <5>2. rid[o] = rid[p] /\ stage[o] # "none"
          BY <2>1, <4>1, <5>1 DEF NetOf
        <5> QED
          BY <1>7, <1>a, <2>3, <5>2 DEF Spawn
      <4> QED
        BY <1>t, <2>1, <4>1 DEF TypeOK, Owners
    <3> QED
      BY <1>7, <1>q, <1>t, <2>1, <2>2, <2>3, <3>1, OwnerAssumption
      DEF Spawn, NetOf, HasNs, HasHome, TypeOK, FirstNs, Nodes
  <2>4. CASE q # p
    <3>1. Aside(q)
      BY <1>7, <1>t, <2>4 DEF Spawn, Aside, TypeOK
    <3>2. \A i \in Ids, j \in Nodes : home'[i][j] = q <=> home[i][j] = q
      BY <2>2, <2>4, OwnerAssumption
    <3>3. \A i \in Ids, j \in Nodes : home[i][j] = Left => home'[i][j] = Left
      BY <2>2, OwnerAssumption
    <3> QED
      BY <1>7, <1>q, <1>r, <3>1, <3>2, <3>3, AsideKeeps DEF Spawn
  <2> QED BY <2>3, <2>4
<1>8. ASSUME NEW p \in Procs, NEW l \in Nodes, RestartFresh(p, l) PROVE NetOf(q)'
  <2>1. \A i \in Ids, j \in Nodes :
            home'[i][j] = IF i = rid[p] /\ j = l THEN p ELSE home[i][j]
    BY <1>8, <1>t DEF RestartFresh, TypeOK
  <2>2. CASE q = p
    BY <1>8, <1>q, <1>r, <2>1, <2>2
    DEF RestartFresh, NetOf, HasNs, HasHome
  <2>3. CASE q # p
    <3>1. Aside(q)
      BY <1>8 DEF RestartFresh, Aside
    <3>2. \A i \in Ids, j \in Nodes : home'[i][j] = q <=> home[i][j] = q
      BY <1>8, <1>o, <2>1, <2>3 DEF RestartFresh
    <3>3. \A i \in Ids, j \in Nodes :
              i = rid[q] /\ stage[q] # "none" /\ home[i][j] = Left
                  => home'[i][j] = Left
      BY <1>8, <1>a, <2>1, <2>3 DEF RestartFresh
    <3> QED
      BY <1>8, <1>q, <1>r, <3>1, <3>2, <3>3, AsideKeeps DEF RestartFresh
  <2> QED BY <2>2, <2>3
<1>9. ASSUME NEW p \in Procs, Relay(p) \/ \E i \in Ids : RelayEnds(p, i)
      PROVE  NetOf(q)'
  <2>1. Aside(q) /\ UNCHANGED <<ns, route, home>>
    BY <1>9 DEF Relay, RelayEnds, Aside
  <2> QED
    BY <1>q, <1>r, <2>1, AsideKeeps
<1>10. ASSUME NEW p \in Procs, BeginTeardown(p) \/ HostDown(p) PROVE NetOf(q)'
  <2> USE DEF BeginTeardown, Down, HostDown
  <2>1. CASE q = p
    <3> USE <1>q, <1>t, <2>1, OwnerAssumption
        DEF Go, NetOf, HasNs, HasHome, TypeOK, FirstNs, Nodes
    <3>1. CASE BeginTeardown(p)
      BY <3>1
    <3>2. CASE HostDown(p)
      BY <3>2
    <3> QED
      BY <1>10, <3>1, <3>2
  <2>2. CASE q # p
    <3>1. Aside(q) /\ UNCHANGED <<ns, home>>
      BY <1>10, <1>t, <2>2 DEF Go, Aside, TypeOK
    <3>2. route' = q <=> route = q
      BY <1>10, <2>2, OwnerAssumption
    <3> QED
      BY <1>q, <1>r, <3>1, <3>2, AsideKeeps
  <2> QED BY <2>1, <2>2
<1>10a. ASSUME NEW p \in Procs, NEW l \in Nodes, NEW gone \in BOOLEAN,
              RestartFails(p, l, gone)
       PROVE  NetOf(q)'
  <2> USE DEF RestartFails, Down
  <2>1. \A i \in Ids, j \in Nodes :
            home'[i][j] = IF i = rid[p] /\ j = l /\ gone THEN None ELSE home[i][j]
    BY <1>10a, <1>t DEF TypeOK
  <2>2. CASE q = p
    <3>1. \A i \in Ids, j \in Nodes : home'[i][j] = q => home[i][j] = q
      BY <2>1, OwnerAssumption
    <3>2. /\ stage[q] = "live" /\ stage'[q] = "down" /\ k'[q] = 0
          /\ rid'[q] = rid[q] /\ form'[q] = form[q] /\ size'[q] = size[q]
          /\ ns' = ns /\ route' # q
      BY <1>10a, <1>t, <2>2, OwnerAssumption DEF Go, TypeOK
    <3> QED
      BY <1>q, <1>t, <3>1, <3>2
      DEF NetOf, HasNs, HasHome, TypeOK, FirstNs, Nodes
  <2>3. CASE q # p
    <3>1. Aside(q) /\ UNCHANGED ns
      BY <1>10a, <1>t, <2>3 DEF Go, Aside, TypeOK
    <3>2. \A i \in Ids, j \in Nodes : home'[i][j] = q <=> home[i][j] = q
      BY <1>10a, <1>o, <2>1, <2>3, OwnerAssumption
    <3>3. \A i \in Ids, j \in Nodes :
              i = rid[q] /\ stage[q] # "none" /\ home[i][j] = Left
                  => home'[i][j] = Left
      BY <1>10a, <1>a, <2>1, <2>3
    <3>4. route' = q <=> route = q
      BY <1>10a, <2>3, OwnerAssumption
    <3> QED
      BY <1>q, <1>r, <3>1, <3>2, <3>3, <3>4, AsideKeeps
  <2> QED BY <2>2, <2>3
<1>11. ASSUME NEW p \in Procs, NEW ok \in BOOLEAN, NetnsDel(p, ok)
       PROVE  NetOf(q)'
  <2>1. k[p] \in Nodes /\ rid[p] \in Ids
    BY <1>11, <1>t, NodeTypes DEF NetnsDel, TypeOK
  <2>2. \A i \in Ids, j \in Nodes :
            ns'[i][j] = IF i = rid[p] /\ j = k[p] THEN Deleted(ns[i][j], ok)
                                                  ELSE ns[i][j]
    BY <1>11, <1>t, <2>1 DEF NetnsDel, TypeOK
  <2> USE DEF Deleted
  <2>3. CASE q = p
    BY <1>11, <1>q, <1>t, <2>1, <2>2, <2>3, OwnerAssumption
    DEF NetnsDel, NetOf, HasNs, HasHome, TypeOK, FirstNs, Nodes
  <2>4. CASE q # p
    <3>1. Aside(q)
      BY <1>11, <1>t, <2>4 DEF NetnsDel, Aside, TypeOK
    <3>2. \A i \in Ids, j \in Nodes : ns'[i][j] = q <=> ns[i][j] = q
      BY <1>11, <1>o, <2>1, <2>2, <2>4, OwnerAssumption DEF NetnsDel
    <3> QED
      BY <1>11, <1>q, <1>r, <3>1, <3>2, AsideKeeps DEF NetnsDel
  <2> QED BY <2>3, <2>4
<1>12. ASSUME NEW p \in Procs, Unwound(p) PROVE NetOf(q)'
  <2>1. CASE q = p
    BY <1>12, <1>q, <1>t, <2>1
    DEF Unwound, Over, Go, NetOf, HasNs, HasHome, TypeOK, FirstNs, Nodes
  <2>2. CASE q # p
    <3>1. Aside(q)
      BY <1>12, <1>t, <2>2 DEF Unwound, Over, Go, Aside, TypeOK
    <3> QED
      BY <1>12, <1>q, <1>r, <3>1, AsideKeeps DEF Unwound
  <2> QED BY <2>1, <2>2
<1>13. ASSUME NEW p \in Procs, NEW stay \in SUBSET Nodes, Wiped(p, stay)
       PROVE  NetOf(q)'
  <2>1. \A i \in Ids, j \in Nodes :
            home'[i][j] = IF i = rid[p] THEN Deleted(home[i][j], j \notin stay)
                                        ELSE home[i][j]
    BY <1>13, <1>t DEF Wiped, TypeOK
  <2> USE DEF Deleted
  <2>2. CASE q = p
    BY <1>13, <1>q, <1>t, <2>1, <2>2, OwnerAssumption
    DEF Wiped, Over, Go, NetOf, HasNs, HasHome, TypeOK, FirstNs, Nodes
  <2>3. CASE q # p
    <3>1. Aside(q)
      BY <1>13, <1>t, <2>3 DEF Wiped, Over, Go, Aside, TypeOK
    <3>2. \A i \in Ids, j \in Nodes : home'[i][j] = q <=> home[i][j] = q
      BY <1>13, <1>o, <2>1, <2>3, OwnerAssumption DEF Wiped
    <3>3. \A i \in Ids, j \in Nodes :
              i = rid[q] /\ stage[q] # "none" /\ home[i][j] = Left
                  => home'[i][j] = Left
      BY <1>13, <1>a, <2>1, <2>3 DEF Wiped
    <3> QED
      BY <1>13, <1>q, <1>r, <3>1, <3>2, <3>3, AsideKeeps DEF Wiped
  <2> QED BY <2>2, <2>3
<1>14. ASSUME NEW p \in Procs, Dies(p) PROVE NetOf(q)'
  <2>1. \A i \in Ids, j \in Nodes :
            /\ ns'[i][j] = IF ns[i][j] = p THEN Left ELSE ns[i][j]
            /\ home'[i][j] = IF home[i][j] = p THEN Left ELSE home[i][j]
    BY <1>14 DEF Dies, Abandon
  <2>2. CASE q = p
    BY <1>14, <1>q, <1>t, <2>1, <2>2, OwnerAssumption
    DEF Dies, Over, Go, NetOf, HasNs, HasHome, TypeOK, FirstNs, Nodes
  <2>3. CASE q # p
    <3>1. Aside(q)
      BY <1>14, <1>t, <2>3 DEF Dies, Over, Go, Aside, TypeOK
    <3>2. \A i \in Ids, j \in Nodes :
              /\ ns'[i][j] = q <=> ns[i][j] = q
              /\ home'[i][j] = q <=> home[i][j] = q
              /\ home[i][j] = Left => home'[i][j] = Left
      BY <2>1, <2>3, OwnerAssumption
    <3>3. route' = q <=> route = q
      BY <1>14, <2>3, OwnerAssumption DEF Dies
    <3> QED
      BY <1>q, <1>r, <3>1, <3>2, <3>3, AsideKeeps
  <2> QED BY <2>2, <2>3
<1> HIDE DEF NetOf
<1> QED
  BY <1>1, <1>2, <1>3, <1>4, <1>5, <1>6, <1>7, <1>8, <1>9, <1>10, <1>11,
     <1>12, <1>13, <1>14, <1>10a DEF NetNext

LEMMA IInvStep == IInv /\ [NetNext]_vars => IInv'
  BY TypeStep, LeaseStep, BoundedStep, NetStep DEF IInv

LEMMA IInvHolds == NetSpec => []IInv
  BY InitIInv, IInvStep, PTL DEF NetSpec

-----------------------------------------------------------------------------
\* The inductive invariant gives the two promises.
LEMMA IInvOwnNet == IInv => OwnNet
<1> SUFFICES ASSUME IInv, NEW p \in Procs
             PROVE  /\ \A j \in Made(p) : ns[rid[p]][j] = p
                    /\ stage[p] \in {"spawn", "live"} /\ form[p] = "host"
                           => route = p
                    /\ stage[p] = "live" =>
                           \A j \in 0..(size[p] - 1) : home[rid[p]][j] \in {p, Left}
  BY DEF OwnNet
<1>1. \A j \in Made(p) : j \in Nodes /\ HasNs(p, j)
  BY MaxNodesAssumption DEF Made, HasNs, IInv, TypeOK, Nodes, FirstNs
<1>2. stage[p] = "live" =>
          \A j \in 0..(size[p] - 1) : j \in Nodes /\ HasHome(p, j)
  BY MaxNodesAssumption DEF HasHome, IInv, TypeOK, Nodes
<1> QED
  BY <1>1, <1>2 DEF IInv, NetInv, NsKept, RouteKept, HomeKept

LEMMA IInvNothingLeft == IInv => NothingLeft
  BY DEF IInv, NetInv, NsOf, HomeOf, RouteOf, NothingLeft

\* The variables of a run and the tables it shares with others keep their
\* types: run/run.c never leaves the nodes of its run.
THEOREM NetTypes == NetSpec => []TypeOK
  BY IInvHolds, PTL DEF IInv

\* For any number of processes, ids and nodes, and whichever commands fail
\* and processes die: until its own teardown a live run has each of its
\* namespaces, its host route and its homes, and no other run takes them.
THEOREM NetsAreOwn == NetSpec => []OwnNet
  BY IInvHolds, IInvOwnNet, PTL

\* Likewise, setup_unwind and run_teardown pass over nothing: what is found on
\* the host belongs to a run that has not ended, or it is left over from a
\* process that died or from a command to delete it that failed.
THEOREM NothingStays == NetSpec => []NothingLeft
  BY IInvHolds, IInvNothingLeft, PTL
=============================================================================

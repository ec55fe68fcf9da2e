-------------------------------- MODULE Mesh --------------------------------
(***************************************************************************)
(* The packets of a run: the pump of tun/tun.c, called for one ready TUN   *)
(* after the other by run_poll and run_poll_nomcast, and the steps drop,   *)
(* heal, slow, move, kill and restart of suite/exec.c that change what it  *)
(* does.  The flow counters appear as what one packet adds to them.        *)
(***************************************************************************)
EXTENDS Integers, FiniteSets, Sequences

CONSTANTS N,         \* number of nodes
          EdgeMax,   \* TUN_MAP_MAX, the size of the table of directed edges
          Reach, Span,
          Places,    \* where a move may put a node
          Shapes,    \* the QoS a drop may ask for
          SlowSecs,  \* of a slow step
          Scopes,    \* node sets a step may list
          BadWrites, \* sets of nodes to which a write may fail
          QueueMax,  \* packets the kernel holds of one TUN
          Senders,   \* the nodes that send
          InFlight,  \* bound on the packets in all queues
          MaxSteps   \* bound on the steps of the file

Nodes == 1..N

\* Destinations: a node, an address nobody has, multicast, broadcast.
Unknown == 0
Multi   == N + 1
Broad   == N + 2

Chance == {"never", "may", "always"}
Shape  == [loss : Chance, cap : Chance, dup : Chance, slow : {0, SlowSecs}]
Off    == [loss |-> "never", cap |-> "never", dup |-> "never", slow |-> 0]

ASSUME MeshAssumption ==
    /\ N \in Nat \ {0} /\ EdgeMax \in Nat
    /\ Reach \in Nat /\ Span \in Nat /\ Places \subseteq Int
    /\ SlowSecs \in Nat \ {0}
    /\ \A q \in Shapes : q \in Shape /\ q.slow = 0
    /\ Scopes \subseteq SUBSET Nodes /\ BadWrites \subseteq SUBSET Nodes
    /\ QueueMax \in Nat \ {0} /\ Senders \subseteq Nodes
    /\ InFlight \in Nat /\ MaxSteps \in Nat

\* The directed edges there can be, and whether the table holds them all.
AllEdges  == {e \in Nodes \X Nodes : e[1] # e[2]}
TableFits == Cardinality(AllEdges) <= EdgeMax

VARIABLES
    marks,   \* PollCtx.drop
    edges,   \* TunMap.drop: pairs from, to
    qos,     \* TunMap.qos, Off for a node without a slot
    hold,    \* seconds until the slow gate of a node opens
    dead,    \* Run.dead, 0 for -1
    blind,   \* the phase says multicast: off
    x,       \* places of the nodes
    queue,   \* what the kernel holds of each TUN
    steps,   \* steps taken
    last,    \* what the last packet became
    cell,    \* what it added to the flow counters of its targets
    deaf     \* history: the nodes that an in drop has cut since the last heal

faultVars == <<marks, edges, qos, hold, deaf>>
vars == <<faultVars, dead, blind, x, queue, steps, last, cell>>

\* What can lose or double a packet; a delay or a slow gate cannot.
Lossy(q) == q.loss # "never" \/ q.cap # "never" \/ q.dup # "never"

Links == INSTANCE LinkFaults
         WITH mute <- marks,
              shaped <- {i \in Nodes : Lossy(qos[i])}

Zero == [pkts |-> 0, radio |-> 0, policy |-> 0]

TypeOK ==
    /\ marks \subseteq Nodes
    /\ edges \subseteq AllEdges
    /\ Cardinality(edges) <= EdgeMax
    /\ qos \in [Nodes -> Shape]
    /\ hold \in [Nodes -> 0..SlowSecs]
    /\ dead \in 0..N
    /\ blind \in BOOLEAN
    /\ x \in [Nodes -> Int]
    /\ queue \in [Nodes -> Seq(0..(N + 2))]
    /\ steps \in 0..MaxSteps
    /\ deaf \subseteq Nodes

\* setup_init; sim_nodes_add_net puts the nodes a metre apart.
Init ==
    /\ marks = {} /\ edges = {} /\ deaf = {}
    /\ qos = [i \in Nodes |-> Off]
    /\ hold = [i \in Nodes |-> 0]
    /\ dead = 0 /\ blind = FALSE
    /\ x = [i \in Nodes |-> i - 1]
    /\ queue = [i \in Nodes |-> << >>]
    /\ steps = 0
    /\ last = Links!Nothing /\ cell = [j \in Nodes |-> Zero]

-----------------------------------------------------------------------------
(* Steps.  They run between two polls.                                     *)

Event(e) == last' = e /\ cell' = [j \in Nodes |-> Zero]

Quiet == Event(Links!Nothing)

Step(e) ==
    /\ steps < MaxSteps /\ steps' = steps + 1
    /\ Event(e)
    /\ UNCHANGED queue

\* Slip: only senders that are listed too.
ArmListed(S) == edges \union {e \in S \X S : e[1] # e[2]}

\* tun_drop_set for every edge into S, in the order of the two loops; what
\* no longer fits into the table is left out.
Arm(S) ==
    LET new == {e \in Nodes \X S : e[1] # e[2]} \ edges
        Upto(e) == {f \in new : f[2] < e[2] \/ (f[2] = e[2] /\ f[1] <= e[1])}
    IN  edges \union {e \in new : Cardinality(edges) + Cardinality(Upto(e)) <= EdgeMax}

\* drop without fault keys.  dir is none of them: with dir alone it is this cut
\* (suite/exec.h), although docs/yaml has "even dir alone" select the QoS path.
DropPlain(S, dir) ==
    /\ Step([what |-> "drop", scope |-> S, dir |-> dir])
    /\ marks' = IF dir = "in" THEN marks ELSE marks \union S
    /\ edges' = IF dir = "out" THEN edges ELSE Arm(S)
    /\ deaf' = IF dir = "out" THEN deaf ELSE deaf \union S
    /\ UNCHANGED <<qos, hold, dead, blind, x>>

\* tun_qos_set: a new slot or the old one, its stamps zeroed.
SetQos(S, q) ==
    /\ qos' = [i \in Nodes |-> IF i \in S THEN q ELSE qos[i]]
    /\ hold' = [i \in Nodes |-> IF i \in S THEN 0 ELSE hold[i]]

\* drop with fault keys: a sender-side approximation of the direction.
DropFault(S, dir, q) ==
    /\ Step([what |-> "shape", scope |-> S, dir |-> dir, lossy |-> Lossy(q)])
    /\ SetQos(CASE dir = "out" -> S [] dir = "in" -> Nodes \ S [] OTHER -> Nodes, q)
    /\ UNCHANGED <<marks, edges, deaf, dead, blind, x>>

Slow(S) ==
    /\ Step([what |-> "shape", scope |-> S, dir |-> "out", lossy |-> FALSE])
    /\ SetQos(S, [Off EXCEPT !.slow = SlowSecs])
    /\ UNCHANGED <<marks, edges, deaf, dead, blind, x>>

\* Slip: a heal of some nodes gives all of them a voice.
HealAllMarks(S) ==
    /\ Step([what |-> "heal", scope |-> S])
    /\ marks' = {}
    /\ edges' = {} /\ deaf' = {}
    /\ SetQos(Nodes, Off)
    /\ UNCHANGED <<dead, blind, x>>

Heal(S) ==
    /\ Step([what |-> "heal", scope |-> S])
    /\ marks' = marks \ S
    /\ edges' = {} /\ deaf' = {}
    /\ SetQos(Nodes, Off)
    /\ UNCHANGED <<dead, blind, x>>

Move(i, p) ==
    /\ Step(Links!Nothing)
    /\ x' = [x EXCEPT ![i] = p]
    /\ UNCHANGED <<faultVars, dead, blind>>

\* kill: the first dead node takes the slot; restart frees it.
Kill(i) ==
    /\ Step(Links!Nothing)
    /\ dead' = IF dead = 0 THEN i ELSE dead
    /\ UNCHANGED <<faultVars, blind, x>>

Restart(i) ==
    /\ Step(Links!Nothing)
    /\ dead' = IF dead = i THEN 0 ELSE dead
    /\ UNCHANGED <<faultVars, blind, x>>

\* The next phase begins, with or without multicast.
NextPhase(b) ==
    /\ Step(Links!Nothing)
    /\ blind' = b
    /\ UNCHANGED <<faultVars, dead, x>>

-----------------------------------------------------------------------------
(* Packets.                                                                *)

\* The packets that are in some queue.
Held == UNION {{i} \X (1..Len(queue[i])) : i \in Nodes}

\* A node sends; the kernel keeps the packet until the TUN is read, and drops
\* it when its queue is full.
Send(i, d) ==
    /\ i \in Senders /\ Cardinality(Held) < InFlight
    /\ queue' = [queue EXCEPT ![i] = IF Len(@) < QueueMax THEN Append(@, d) ELSE @]
    /\ Quiet
    /\ UNCHANGED <<faultVars, dead, blind, x, steps>>

Take(i) ==
    /\ queue[i] # << >>
    /\ queue' = [queue EXCEPT ![i] = Tail(@)]
    /\ UNCHANGED <<marks, edges, qos, deaf, dead, blind, x, steps>>

\* poll_once reads the TUN of the dead and of the marked, and forgets.
Discard(i) ==
    /\ i = dead \/ i \in marks
    /\ Take(i) /\ Quiet /\ UNCHANGED hold

\* The pump reads a packet, unless the slow gate is closed.
Read(i) ==
    /\ i # dead /\ i \notin marks
    /\ hold[i] = 0
    /\ Take(i)
    /\ hold' = [hold EXCEPT ![i] = qos[i].slow]

\* tun_forward in fwd_counted: one write, which may be refused.
Forward(i, j, bad) ==
    IF Links!Hears(i, j) /\ j \notin bad THEN [Zero EXCEPT !.pkts = 1]
                                         ELSE [Zero EXCEPT !.radio = 1]

\* The writes of qsend: the second of a doubled packet fails or not whatever
\* became of the first.
Writes(i, j, bad, twice, again) ==
    LET one == Forward(i, j, bad)
        two == Forward(i, j, again)
    IN  IF twice THEN [pkts |-> one.pkts + two.pkts, radio |-> one.radio + two.radio,
                       policy |-> 0]
                 ELSE one

Became(i, cast, dst, bad, cells) ==
    /\ cell' = [j \in Nodes |-> IF j \in dst THEN cells[j] ELSE Zero]
    /\ last' = [what |-> "packet", from |-> i, cast |-> cast, dst |-> dst, bad |-> bad,
                copies |-> [j \in Nodes |-> IF j \in dst THEN cells[j].pkts ELSE 0]]

\* No IPv4, an address nobody has or its own, or multicast in a blind phase.
Ignore(i) ==
    /\ Read(i) /\ Quiet
    /\ \/ Head(queue[i]) \in {Unknown, i}
       \/ Head(queue[i]) = Multi /\ blind

\* Multicast and broadcast pass neither the edges nor the QoS.
FanOut(i, bad) ==
    /\ Read(i)
    /\ \/ Head(queue[i]) = Multi /\ ~blind
       \/ Head(queue[i]) = Broad
    /\ Became(i, IF Head(queue[i]) = Multi THEN "multi" ELSE "broad",
              Nodes \ {i}, bad, [j \in Nodes |-> Forward(i, j, bad)])

Outcomes(c) == CASE c = "never" -> {FALSE} [] c = "always" -> {TRUE} [] OTHER -> BOOLEAN

\* Slip: a denial by loss or bucket goes uncounted.
UnicastUncounted(i, j, bad) ==
    /\ Read(i) /\ Head(queue[i]) = j /\ j # i
    /\ \E lost \in Outcomes(qos[i].loss), denied \in Outcomes(qos[i].cap),
          twice \in Outcomes(qos[i].dup), again \in BadWrites :
           Became(i, "one", {j}, IF twice THEN bad \union again ELSE bad,
                  [k \in Nodes |->
                      IF <<i, j>> \in edges THEN [Zero EXCEPT !.policy = 1]
                      ELSE IF lost \/ denied THEN Zero
                      ELSE Writes(i, j, bad, twice, again)])

\* Unicast: a directed edge drops it; else qsend.
Unicast(i, j, bad) ==
    /\ Read(i) /\ Head(queue[i]) = j /\ j # i
    /\ \E lost \in Outcomes(qos[i].loss), denied \in Outcomes(qos[i].cap),
          twice \in Outcomes(qos[i].dup), again \in BadWrites :
           Became(i, "one", {j}, IF twice THEN bad \union again ELSE bad,
                  [k \in Nodes |->
                      IF <<i, j>> \in edges \/ lost \/ denied
                      THEN [Zero EXCEPT !.policy = 1]
                      ELSE Writes(i, j, bad, twice, again)])

\* Slip: the pump stamps the gate before it looks at it, so a poll that finds
\* a packet behind a closed gate starts the wait again.
TickStamped ==
    /\ \E i \in Nodes : hold[i] > 0
    /\ hold' = [i \in Nodes |-> IF hold[i] > 0 /\ queue[i] = << >> THEN hold[i] - 1
                                                                 ELSE hold[i]]
    /\ Quiet
    /\ UNCHANGED <<marks, edges, qos, deaf, dead, blind, x, queue, steps>>

\* A second passes for the slow gates.
Tick ==
    /\ \E i \in Nodes : hold[i] > 0
    /\ hold' = [i \in Nodes |-> IF hold[i] > 0 THEN hold[i] - 1 ELSE 0]
    /\ Quiet
    /\ UNCHANGED <<marks, edges, qos, deaf, dead, blind, x, queue, steps>>

Pump(i) ==
    \/ Discard(i) \/ Ignore(i)
    \/ \E bad \in BadWrites : FanOut(i, bad) \/ \E j \in Nodes : Unicast(i, j, bad)

Next ==
    \/ \E S \in Scopes :
           \/ Heal(S) \/ Slow(S)
           \/ \E dir \in {"out", "in", "both"} :
                  DropPlain(S, dir) \/ \E q \in Shapes : DropFault(S, dir, q)
    \/ \E i \in Nodes :
           \/ Kill(i) \/ Restart(i) \/ Pump(i)
           \/ \E p \in Places : Move(i, p)
           \/ \E d \in 0..(N + 2) : Send(i, d)
    \/ \E b \in BOOLEAN : NextPhase(b)
    \/ Tick

Spec == Init /\ [][Next]_vars

\* Every poll hands each ready TUN to the pump once, and time passes.
FairSpec == Spec /\ WF_vars(Tick) /\ \A i \in Nodes : WF_vars(Pump(i))

-----------------------------------------------------------------------------
(* Properties.                                                             *)

\* The tables implement the promise of LinkFaults: mute nodes are not heard,
\* deaf ones get no unicast, heals lift what they should and no more, and an
\* unshaped pair in range gets one copy, also after any script of faults.  A
\* drop with dir and no fault key cuts, as the code and suite/exec.h have it
\* ("dir: alone never arms QoS shaping") and docs/yaml has not.
LinkSpec == Links!LinkSpec

\* "in arms directed tun edges from every other fd into each listed fd"
\* (suite/exec.h): all of them, whatever was armed before.
DeafArmed == \A j \in Nodes, k \in deaf : j # k => <<j, k>> \in edges

\* Every packet the pump addresses to a node is counted there once, or twice
\* if it is unicast, passes the QoS of its sender and is doubled by it, in the
\* columns that say what became of each write.
Accounted ==
    last.what = "packet" => \A j \in last.dst :
        /\ cell[j].pkts + cell[j].radio + cell[j].policy \in
               IF last.cast = "one" /\ cell[j].policy = 0
               THEN {IF t THEN 2 ELSE 1 : t \in Outcomes(qos[last.from].dup)}
               ELSE {1}
        /\ cell[j].policy > 0 => j \in deaf \/ qos[last.from].loss # "never"
                                   \/ qos[last.from].cap # "never"
        /\ cell[j].radio > 0 => ~Links!Hears(last.from, j) \/ j \in last.bad

\* However long the backlog of a TUN, it moves: as long as packets are queued
\* there the first of them is taken out in the end, and so each that the
\* kernel has accepted, though its node is slow, mute or dead and goes on
\* sending ("held packets stay queued in kernel, one drain window per
\* slow_secs", tun/tun.c).
BacklogMoves ==
    \A i \in Nodes : []<>(queue[i] = << >>) \/ []<><<Take(i)>>_vars
=============================================================================

------------------------------ MODULE SimCore ------------------------------
(***************************************************************************)
(* The simulation core: the event heap (heap/heap.c), the context that     *)
(* schedules and runs events (shared/context.c), the list of nodes         *)
(* (NodeList) and the in-process UDP of udp/udp.c.  The program that uses  *)
(* the core calls it before context_run and from within handlers.          *)
(*                                                                         *)
(* The loops of heap_push, heap_pop and udp_mcast take a step for each     *)
(* turn; nothing else happens before they have ended.                      *)
(***************************************************************************)
EXTENDS NodeList, SequencesExt, FiniteSets

CONSTANTS Budgets,  \* bounds on the nodes and on the events of a behaviour
          MaxTime,  \* bound on the times a caller asks for
          Reach,    \* radio range
          Ports,    \* UDP ports
          BindMax   \* UDP_BIND_MAX

ASSUME SimCoreAssumption ==
    /\ {MaxTime, Reach, BindMax} \subseteq Nat /\ Places \subseteq Int
    /\ Ports \subseteq Nat \ {0}
    /\ Budgets \subseteq [ids : 0..MaxIds, events : Nat]

VARIABLES clock, next_seq,
          heap,   \* MinHeap.data, counted from one
          sift,   \* which way the heap is being sifted, and the index
          cast,   \* the multicast under way: its sender, port and index
          binds,  \* udp_binds
          where,  \* "out" of context_run, in its "loop", or in a "call"
          ev,     \* the event that fires
          heard,  \* the bind that its datagram has reached, or NoBind
          budget  \* the bounds of this behaviour

queue    == <<heap, next_seq, sift>>
coreVars == <<queue, clock, cast, binds, where, ev, heard, budget>>
simVars  == <<listVars, coreVars>>

NoBind  == [node |-> 0, port |-> 0, born |-> 0]
NoEvent == [at |-> 0, seq |-> 0, to |-> 0, port |-> 0, born |-> 0]
NoSift  == [dir |-> "none", k |-> 0]
NoCast  == [from |-> 0, port |-> 0, i |-> 0]

\* port 0 is that of an event with a handler of its own.
SimEvent == [at : Nat, seq : Nat \ {0}, to : Nat, port : Ports \union {0}, born : Nat]

CoreTypeOK ==
    /\ ListTypeOK
    /\ budget \in Budgets /\ clock \in Nat
    /\ next_seq \in 1..(budget.events + 1)
    /\ heap \in Seq(SimEvent) /\ Len(heap) < next_seq
    /\ ev \in SimEvent \union {NoEvent}
    /\ binds \subseteq [node : Nat, port : Ports, born : Nat]
    /\ IsFiniteSet(binds) /\ Cardinality(binds) <= BindMax
    /\ \A b, d \in binds : b.node = d.node /\ b.port = d.port => b = d
    /\ heard \in binds \union {NoBind}
    /\ where \in {"out", "loop", "call"}
    /\ sift \in [dir : {"up", "down"}, k : 1..Len(heap)] \union {NoSift}
    /\ cast \in [from : Nat, port : Ports, i : 1..(Len(data) + 1)] \union {NoCast}

CoreInit ==
    /\ ListInit
    /\ clock = 0 /\ next_seq = 1 /\ heap = <<>> /\ sift = NoSift
    /\ cast = NoCast /\ binds = {}
    /\ where = "out" /\ ev = NoEvent /\ heard = NoBind
    /\ budget \in Budgets

-----------------------------------------------------------------------------
(* The heap.                                                               *)

\* Slip: events of one time are taken as they come.
BeforeByTime(a, b) == a.at < b.at

event_before(a, b) == a.at < b.at \/ (a.at = b.at /\ a.seq < b.seq)

Swap(h, a, b) == [h EXCEPT ![a] = h[b], ![b] = h[a]]

Sifting(dir, k) == sift' = [dir |-> dir, k |-> k]

\* heap_push puts the event at the end, and its loop moves it up.
heap_push(e) == heap' = Append(heap, e) /\ Sifting("up", Len(heap) + 1)

SiftUp ==
    LET k == sift.k
    IN  /\ sift.dir = "up"
        /\ IF k > 1 /\ event_before(heap[k], heap[k \div 2])
           THEN heap' = Swap(heap, k, k \div 2) /\ Sifting("up", k \div 2)
           ELSE sift' = NoSift /\ UNCHANGED heap
        /\ UNCHANGED <<listVars, next_seq, clock, cast, binds, where, ev, heard, budget>>

\* heap_pop puts the last event into the place of the first, and its loop
\* moves it down.
heap_pop ==
    IF Len(heap) = 1 THEN heap' = <<>> /\ sift' = NoSift
    ELSE heap' = Front([heap EXCEPT ![1] = Last(heap)]) /\ Sifting("down", 1)

\* The first of an entry and its children.
Smallest(h, k) ==
    LET l == IF 2 * k <= Len(h) /\ event_before(h[2 * k], h[k]) THEN 2 * k ELSE k
    IN  IF 2 * k + 1 <= Len(h) /\ event_before(h[2 * k + 1], h[l])
        THEN 2 * k + 1 ELSE l

SiftDown ==
    LET k == sift.k
        m == Smallest(heap, k)
    IN  /\ sift.dir = "down"
        /\ IF m # k
           THEN heap' = Swap(heap, k, m) /\ Sifting("down", m)
           ELSE sift' = NoSift /\ UNCHANGED heap
        /\ UNCHANGED <<listVars, next_seq, clock, cast, binds, where, ev, heard, budget>>

-----------------------------------------------------------------------------
(* Scheduling.                                                             *)

\* Calls come from outside context_run and from handlers.
Calling == where \in {"out", "call"} /\ sift = NoSift /\ cast = NoCast

\* enqueue: nothing in the past.
enqueue(t, to, port, born) ==
    IF t < clock \/ next_seq > budget.events THEN UNCHANGED queue
    ELSE /\ heap_push([at |-> t, seq |-> next_seq, to |-> to,
                       port |-> port, born |-> born])
         /\ next_seq' = next_seq + 1

\* context_schedule: port 0 is a handler that is called as it is.
Schedule(t) ==
    /\ Calling /\ next_seq <= budget.events
    /\ enqueue(t, 0, 0, 0)
    /\ UNCHANGED <<listVars, clock, cast, binds, where, ev, heard, budget>>

\* radio_path, in one dimension: distance is the delay.
Reaches(a, b) == a - b <= Reach /\ b - a <= Reach
Delay(a, b)   == IF a < b THEN b - a ELSE a - b

\* context_send and udp_send: one event when the radio reaches.
SendTo(from, to, port) ==
    LET a == NodeOf(from)
        b == NodeOf(to)
    IN  IF Reaches(a.at, b.at)
        THEN enqueue(clock + Delay(a.at, b.at), to, port, b.born)
        ELSE UNCHANGED queue

UdpSend(from, to, port) ==
    /\ Calling /\ next_seq <= budget.events
    /\ Live(from) /\ Live(to)
    /\ SendTo(from, to, port)
    /\ UNCHANGED <<listVars, clock, cast, binds, where, ev, heard, budget>>

\* The handler comes with the event, whoever is bound.
ContextSend(from, to) ==
    /\ Calling /\ next_seq <= budget.events
    /\ Live(from) /\ Live(to)
    /\ SendTo(from, to, 0)
    /\ UNCHANGED <<listVars, clock, cast, binds, where, ev, heard, budget>>

\* udp_mcast: all nodes but the sender, in the order of the array.
Mcast(from, port) ==
    /\ Calling /\ next_seq + Len(data) - 2 <= budget.events
    /\ Live(from)
    /\ cast' = [from |-> from, port |-> port, i |-> 1]
    /\ UNCHANGED <<listVars, queue, clock, binds, where, ev, heard, budget>>

McastHop ==
    /\ cast # NoCast /\ sift = NoSift
    /\ IF cast.i > Len(data) THEN cast' = NoCast /\ UNCHANGED queue
       ELSE /\ cast' = [cast EXCEPT !.i = @ + 1]
            /\ IF data[cast.i].id = cast.from THEN UNCHANGED queue
               ELSE SendTo(cast.from, data[cast.i].id, cast.port)
    /\ UNCHANGED <<listVars, clock, binds, where, ev, heard, budget>>

\* udp_bind: one listener for a node and a port.
Bind(id, port) ==
    /\ Calling
    /\ Live(id)
    /\ \A b \in binds : ~(b.node = id /\ b.port = port)
    /\ Cardinality(binds) < BindMax
    /\ binds' = binds \union
           {[node |-> id, port |-> port, born |-> NodeOf(id).born]}
    /\ UNCHANGED <<listVars, queue, clock, cast, where, ev, heard, budget>>

AddCall(p) ==
    Calling /\ next_id < budget.ids /\ AddNode(p) /\ UNCHANGED coreVars

RemoveCall(id) ==
    Calling /\ RemoveNode(id) /\ UNCHANGED coreVars

-----------------------------------------------------------------------------
(* context_run.                                                            *)

Run ==
    /\ Calling /\ where = "out" /\ where' = "loop"
    /\ UNCHANGED <<listVars, queue, clock, cast, binds, ev, heard, budget>>

\* The next event: time goes forward, and the handler is called.  A datagram
\* goes to the bind of its node and port, if there is one.
Pop ==
    /\ where = "loop" /\ heap # <<>>
    /\ ev' = Head(heap)
    /\ heap_pop
    /\ clock' = IF Head(heap).at > clock THEN Head(heap).at ELSE clock
    /\ LET bs == {b \in binds : b.node = ev'.to /\ b.port = ev'.port}
       IN  heard' = IF bs = {} THEN NoBind ELSE CHOOSE b \in bs : TRUE
    /\ where' = "call"
    /\ UNCHANGED <<listVars, next_seq, cast, binds, budget>>

Return ==
    /\ Calling /\ where = "call" /\ where' = "loop"
    /\ heard' = NoBind
    /\ UNCHANGED <<listVars, queue, clock, cast, binds, ev, budget>>

Drained ==
    /\ where = "loop" /\ heap = <<>> /\ where' = "out"
    /\ UNCHANGED <<listVars, queue, clock, cast, binds, ev, heard, budget>>

CoreNext ==
    \/ \E p \in Places : AddCall(p)
    \/ \E id \in DOMAIN by_id : RemoveCall(id)
    \/ \E t \in 0..MaxTime : Schedule(t)
    \/ \E from, to \in DOMAIN by_id :
           ContextSend(from, to) \/ \E port \in Ports : UdpSend(from, to, port)
    \/ \E from \in DOMAIN by_id, port \in Ports : Mcast(from, port)
    \/ \E id \in DOMAIN by_id, port \in Ports : Bind(id, port)
    \/ SiftUp \/ SiftDown \/ McastHop
    \/ Run \/ Pop \/ Return \/ Drained

CoreSpec == CoreInit /\ [][CoreNext]_simVars

-----------------------------------------------------------------------------
(* Properties.                                                             *)

Stamp(e) == [at |-> e.at, seq |-> e.seq]

Events == INSTANCE EventQueue
          WITH pending <- {Stamp(heap[k]) : k \in 1..Len(heap)},
               last <- Stamp(ev)

\* The heap in its array implements the queue: what is popped is the least of
\* all pending events, none is lost or doubled, and handlers that schedule
\* more do not disturb that.
QueueSpec == Events!QueueSpec

\* A datagram is heard by a listener of the node it was sent to, never by that
\* of a node that came later ("Binds outlive their node").
OwnDatagrams ==
    where = "call" /\ heard # NoBind => heard.born = ev.born
=============================================================================

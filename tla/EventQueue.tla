----------------------------- MODULE EventQueue -----------------------------
(***************************************************************************)
(* What the simulation core promises of its events: they fire one at a     *)
(* time in the order of time and, at one time, in the order they were      *)
(* scheduled in; a handler may schedule more, but nothing in the past.     *)
(***************************************************************************)
EXTENDS Naturals

VARIABLES pending,  \* scheduled events, each with its time and number
          clock,    \* the time of the last event
          next_seq, \* the number of the next event
          last      \* the last event that has fired

queueVars == <<pending, clock, next_seq, last>>

Event == [at : Nat, seq : Nat]

Before(a, b) == a.at < b.at \/ (a.at = b.at /\ a.seq < b.seq)

\* Numbers count from one here, so that 0 is before all of them.
QueueInit ==
    /\ pending = {} /\ clock = 0 /\ next_seq = 1
    /\ last = [at |-> 0, seq |-> 0]

\* One or, in a fan-out, several events are scheduled.
Put ==
    /\ pending \subseteq pending' /\ pending' \subseteq Event
    /\ next_seq' \in Nat /\ next_seq <= next_seq'
    /\ \A e \in pending' \ pending :
           e.at >= clock /\ next_seq <= e.seq /\ e.seq < next_seq'
    /\ UNCHANGED <<clock, last>>

Fire ==
    \E e \in pending :
        /\ \A f \in pending \ {e} : Before(e, f)
        /\ pending' = pending \ {e}
        /\ clock' = e.at
        /\ last' = e
        /\ UNCHANGED next_seq

QueueNext == Put \/ Fire
QueueSpec == QueueInit /\ [][QueueNext]_queueVars

\* Events fire in the order of time and number, those that were scheduled by
\* handlers in between included, and time does not go back.
FiresInOrder ==
    [][clock <= clock' /\ (last' # last => Before(last, last'))]_queueVars
=============================================================================

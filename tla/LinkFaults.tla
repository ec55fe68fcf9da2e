----------------------------- MODULE LinkFaults -----------------------------
(***************************************************************************)
(* What the mesh of a run promises a scenario about its links, without     *)
(* tables, queues and clocks.  A node is mute (nothing it sends goes       *)
(* anywhere), deaf (no unicast reaches it), shaped (what it unicasts may   *)
(* be lost or doubled) or none of these; between two nodes that are none   *)
(* of these and that hear each other, one packet makes exactly one copy.   *)
(***************************************************************************)
EXTENDS Integers

CONSTANTS Nodes,
          Reach,  \* how far a radio carries
          Span    \* places on the map: 0 .. Span - 1

VARIABLES mute, deaf, shaped,
          dead,   \* the node noted dead, 0 for none
          blind,  \* a phase with multicast: off
          x,      \* places
          last    \* the last step of the file, or what the last packet became

linkVars == <<mute, deaf, shaped, dead, blind, x, last>>

Nothing == [what |-> "nothing"]

LinkInit ==
    /\ mute = {} /\ deaf = {} /\ shaped = {}
    /\ dead = 0 /\ blind = FALSE
    /\ last = Nothing

\* A drop without fault keys silences the listed nodes (out), deafens them
\* (in), or both.
Cut ==
    /\ last'.what = "drop"
    /\ mute' = mute \union IF last'.dir = "in" THEN {} ELSE last'.scope
    /\ deaf' = deaf \union IF last'.dir = "out" THEN {} ELSE last'.scope
    /\ UNCHANGED <<shaped, dead, blind, x>>

\* The senders a drop with fault keys shapes.
Shaped(scope, dir) ==
    CASE dir = "out" -> scope [] dir = "in" -> Nodes \ scope [] OTHER -> Nodes

\* A drop with fault keys, or a slow, which is never lossy: the last one counts.
Shape ==
    /\ last'.what = "shape"
    /\ LET S == Shaped(last'.scope, last'.dir)
       IN  shaped' = IF last'.lossy THEN shaped \union S ELSE shaped \ S
    /\ UNCHANGED <<mute, deaf, dead, blind, x>>

\* A heal lifts every pump fault, but gives only the nodes it lists a voice.
Mend ==
    /\ last'.what = "heal"
    /\ mute' = mute \ last'.scope
    /\ deaf' = {} /\ shaped' = {}
    /\ UNCHANGED <<dead, blind, x>>

\* kill, restart, move and the begin of a phase leave the faults alone.
Rearrange ==
    /\ last' = Nothing
    /\ UNCHANGED <<mute, deaf, shaped>>

Hears(i, j) ==
    /\ x[i] \in 0..(Span - 1) /\ x[j] \in 0..(Span - 1)
    /\ x[i] - x[j] \in (0 - Reach)..Reach

Copies(i, cast, j) ==
    IF ~Hears(i, j) \/ (cast = "one" /\ j \in deaf) THEN {0}
    ELSE IF cast = "one" /\ i \in shaped THEN 0..2
    ELSE {1}

\* One copy less, of what there may be.
Fewer(C) == {0} \union {c - 1 : c \in C \ {0}}

\* A packet for one node, or for all others by multicast or broadcast.  A
\* write to a node of "bad" has failed.
Carry ==
    /\ last'.what = "packet"
    /\ last'.from \in Nodes \ (mute \union {dead})
    /\ last'.from \notin last'.dst
    /\ last'.cast = "multi" => ~blind
    /\ \A j \in Nodes :
           last'.copies[j] \in
               IF j \notin last'.dst THEN {0}
               ELSE IF j \in last'.bad THEN Fewer(Copies(last'.from, last'.cast, j))
               ELSE Copies(last'.from, last'.cast, j)
    /\ UNCHANGED <<mute, deaf, shaped, dead, blind, x>>

LinkNext == Cut \/ Shape \/ Mend \/ Rearrange \/ Carry

LinkSpec == LinkInit /\ [][LinkNext]_linkVars
=============================================================================

----------------------------- MODULE MeshProofs -----------------------------
(***************************************************************************)
(* The mesh implements LinkFaults, for any number of nodes whose edges fit *)
(* into the table, any reach and map, any fault script and any writes that *)
(* fail.                                                                   *)
(***************************************************************************)
EXTENDS Mesh, FiniteSetTheorems, SequenceTheorems, TLAPS

\* What an in drop of S asks for.
Into(S) == {e \in Nodes \X S : e[1] # e[2]}

\* The table holds no edge that an in drop has not asked for.
EdgesAsked == \A j, k \in Nodes : <<j, k>> \in edges => k \in deaf

Inv == TypeOK /\ DeafArmed /\ EdgesAsked

LEMMA AllEdgesFinite == IsFiniteSet(AllEdges) /\ Cardinality(AllEdges) \in Nat
<1>1. IsFiniteSet(Nodes)
  BY FS_Interval, MeshAssumption DEF Nodes
<1>2. IsFiniteSet(Nodes \X Nodes)
  BY <1>1, FS_Product
<1>3. AllEdges \in SUBSET (Nodes \X Nodes)
  BY DEF AllEdges
<1>4. IsFiniteSet(AllEdges)
  BY <1>2, <1>3, FS_Subset
<1> QED BY <1>4, FS_CardinalityType

\* A table that holds every edge never leaves one out.
LEMMA ArmAll ==
  ASSUME TableFits, edges \subseteq AllEdges, NEW S \in SUBSET Nodes
  PROVE  Arm(S) = edges \union Into(S)
<1> DEFINE new == Into(S) \ edges
           Upto(e) == {f \in new : f[2] < e[2] \/ (f[2] = e[2] /\ f[1] <= e[1])}
<1>1. Arm(S) = edges \union {e \in new : Cardinality(edges) + Cardinality(Upto(e)) <= EdgeMax}
  BY DEF Arm, Into
<1>2. ASSUME NEW e \in new PROVE Cardinality(edges) + Cardinality(Upto(e)) <= EdgeMax
  <2>1. Upto(e) \in SUBSET AllEdges /\ edges \in SUBSET AllEdges
    BY DEF Into, AllEdges
  <2>2. IsFiniteSet(Upto(e)) /\ IsFiniteSet(edges)
    BY <2>1, AllEdgesFinite, FS_Subset
  <2>3. edges \cap Upto(e) = {}
    OBVIOUS
  <2>4. Cardinality(edges \cup Upto(e))
          = Cardinality(edges) + Cardinality(Upto(e)) - Cardinality(edges \cap Upto(e))
    BY <2>2, FS_Union
  <2>5. edges \cup Upto(e) \in SUBSET AllEdges
    BY <2>1
  <2>6. Cardinality(edges \cup Upto(e)) <= Cardinality(AllEdges)
    BY <2>5, AllEdgesFinite, FS_Subset
  <2>7. Cardinality(edges \cap Upto(e)) = 0
    BY <2>3, FS_EmptySet
  <2>8. Cardinality(edges) \in Nat /\ Cardinality(Upto(e)) \in Nat
    BY <2>2, FS_CardinalityType
  <2> HIDE DEF Upto, new
  <2> QED BY <2>4, <2>6, <2>7, <2>8, AllEdgesFinite, MeshAssumption DEF TableFits
<1> HIDE DEF Upto
<1> QED BY <1>1, <1>2

LEMMA InitInv == Init => Inv
<1> SUFFICES ASSUME Init PROVE Inv
  OBVIOUS
<1>1. Cardinality({}) = 0
  BY FS_EmptySet
<1>2. queue \in [Nodes -> Seq(0..(N + 2))]
  BY DEF Init
<1>3. x \in [Nodes -> Int]
  BY MeshAssumption DEF Init, Nodes
<1>4. Off \in Shape
  BY DEF Off, Shape, Chance
<1>5. qos \in [Nodes -> Shape] /\ hold \in [Nodes -> 0..SlowSecs]
  BY <1>4, MeshAssumption DEF Init
<1>6. 0 \in 0..N /\ 0 \in 0..MaxSteps /\ 0 <= EdgeMax
  BY MeshAssumption
<1> QED
  BY <1>1, <1>2, <1>3, <1>5, <1>6 DEF Init, Inv, TypeOK, DeafArmed, EdgesAsked

\* Setting the QoS of some nodes keeps slots and gates in their types.
LEMMA SetQosType ==
  ASSUME TypeOK, NEW S, NEW q \in Shape, SetQos(S, q)
  PROVE  qos' \in [Nodes -> Shape] /\ hold' \in [Nodes -> 0..SlowSecs]
  BY MeshAssumption DEF SetQos, TypeOK

\* Taking a packet out of a TUN touches neither tables nor marks.
LEMMA TakeInv ==
  ASSUME Inv, NEW i \in Nodes, Take(i), hold' \in [Nodes -> 0..SlowSecs]
  PROVE  Inv'
<1>1. queue[i] \in Seq(0..(N + 2)) /\ queue[i] # << >>
  BY DEF Inv, TypeOK, Take
<1>2. Tail(queue[i]) \in Seq(0..(N + 2))
  BY <1>1, HeadTailProperties
<1>3. queue' \in [Nodes -> Seq(0..(N + 2))]
  BY <1>2 DEF Inv, TypeOK, Take
<1> QED BY <1>3 DEF Inv, TypeOK, DeafArmed, EdgesAsked, Take

LEMMA ReadInv ==
  ASSUME Inv, NEW i \in Nodes, Read(i)
  PROVE  Inv'
<1>0. qos[i] \in Shape
  BY DEF Inv, TypeOK
<1>1. qos[i].slow \in 0..SlowSecs
  BY <1>0, MeshAssumption DEF Shape
<1>2. hold' \in [Nodes -> 0..SlowSecs]
  BY <1>1 DEF Read, Inv, TypeOK
<1> QED BY <1>2, TakeInv DEF Read

LEMMA StepType ==
  ASSUME TypeOK, NEW e, Step(e)
  PROVE  steps' \in 0..MaxSteps /\ queue' = queue
  BY MeshAssumption DEF TypeOK, Step

\* The invariant is inductive when the table holds every edge.
LEMMA NextInv == ASSUME TableFits, Inv, [Next]_vars PROVE Inv'
<1>1. CASE UNCHANGED vars
  BY <1>1 DEF vars, faultVars, Inv, TypeOK, DeafArmed, EdgesAsked
<1>2. ASSUME NEW S \in Scopes, NEW dir \in {"out", "in", "both"}, DropPlain(S, dir)
      PROVE  Inv'
  <2>1. S \in SUBSET Nodes
    BY MeshAssumption
  <2>2. Arm(S) = edges \union Into(S)
    BY <2>1, ArmAll DEF Inv, TypeOK
  <2>3. edges' = (IF dir = "out" THEN edges ELSE edges \union Into(S))
    BY <1>2, <2>2 DEF DropPlain
  <2>4. edges' \in SUBSET AllEdges
    BY <2>1, <2>3 DEF Inv, TypeOK, Into, AllEdges
  <2>5. IsFiniteSet(edges') /\ Cardinality(edges') <= Cardinality(AllEdges)
    BY <2>4, AllEdgesFinite, FS_Subset
  <2>6. Cardinality(edges') \in Nat
    BY <2>5, FS_CardinalityType
  <2>7. Cardinality(edges') <= EdgeMax
    BY <2>5, <2>6, AllEdgesFinite, MeshAssumption DEF TableFits
  <2>8. DeafArmed' /\ EdgesAsked'
    BY <1>2, <2>1, <2>3 DEF DropPlain, Inv, DeafArmed, EdgesAsked, Into
  <2>9. steps' \in 0..MaxSteps /\ queue' = queue
    BY <1>2, StepType DEF DropPlain, Inv
  <2> QED BY <1>2, <2>1, <2>4, <2>7, <2>8, <2>9 DEF DropPlain, Inv, TypeOK
<1>3. ASSUME NEW S \in Scopes, NEW dir \in {"out", "in", "both"}, NEW q \in Shapes,
             DropFault(S, dir, q)
      PROVE  Inv'
  <2>1. q \in Shape
    BY MeshAssumption
  <2>2. qos' \in [Nodes -> Shape] /\ hold' \in [Nodes -> 0..SlowSecs]
    BY <1>3, <2>1, SetQosType DEF DropFault, Inv
  <2>3. steps' \in 0..MaxSteps /\ queue' = queue
    BY <1>3, StepType DEF DropFault, Inv
  <2> QED BY <1>3, <2>2, <2>3 DEF DropFault, Inv, TypeOK, DeafArmed, EdgesAsked
<1>4. ASSUME NEW S \in Scopes, Slow(S) PROVE Inv'
  <2>1. [Off EXCEPT !.slow = SlowSecs] \in Shape
    BY DEF Off, Shape, Chance
  <2>2. qos' \in [Nodes -> Shape] /\ hold' \in [Nodes -> 0..SlowSecs]
    BY <1>4, <2>1, SetQosType DEF Slow, Inv
  <2>3. steps' \in 0..MaxSteps /\ queue' = queue
    BY <1>4, StepType DEF Slow, Inv
  <2> QED BY <1>4, <2>2, <2>3 DEF Slow, Inv, TypeOK, DeafArmed, EdgesAsked
<1>5. ASSUME NEW S \in Scopes, Heal(S) PROVE Inv'
  <2>1. Off \in Shape
    BY DEF Off, Shape, Chance
  <2>2. qos' \in [Nodes -> Shape] /\ hold' \in [Nodes -> 0..SlowSecs]
    BY <1>5, <2>1, SetQosType DEF Heal, Inv
  <2>3. steps' \in 0..MaxSteps /\ queue' = queue
    BY <1>5, StepType DEF Heal, Inv
  <2>4. Cardinality({}) = 0 /\ 0 <= EdgeMax
    BY FS_EmptySet, MeshAssumption
  <2> QED BY <1>5, <2>2, <2>3, <2>4 DEF Heal, Inv, TypeOK, DeafArmed, EdgesAsked
<1>6. ASSUME NEW i \in Nodes, NEW p \in Places, Move(i, p) PROVE Inv'
  <2>1. x' \in [Nodes -> Int]
    BY <1>6, MeshAssumption DEF Move, Inv, TypeOK
  <2>2. steps' \in 0..MaxSteps /\ queue' = queue
    BY <1>6, StepType DEF Move, Inv
  <2> QED BY <1>6, <2>1, <2>2 DEF Move, faultVars, Inv, TypeOK, DeafArmed, EdgesAsked
<1>7. ASSUME NEW i \in Nodes, Kill(i) \/ Restart(i) PROVE Inv'
  <2>1. dead' \in 0..N
    BY <1>7, MeshAssumption DEF Kill, Restart, Inv, TypeOK, Nodes
  <2>2. steps' \in 0..MaxSteps /\ queue' = queue
    BY <1>7, StepType DEF Kill, Restart, Inv
  <2> QED BY <1>7, <2>1, <2>2 DEF Kill, Restart, faultVars, Inv, TypeOK, DeafArmed, EdgesAsked
<1>8. ASSUME NEW b \in BOOLEAN, NextPhase(b) PROVE Inv'
  <2>1. steps' \in 0..MaxSteps /\ queue' = queue
    BY <1>8, StepType DEF NextPhase, Inv
  <2> QED BY <1>8, <2>1 DEF NextPhase, faultVars, Inv, TypeOK, DeafArmed, EdgesAsked
<1>9. ASSUME NEW i \in Nodes, NEW d \in 0..(N + 2), Send(i, d) PROVE Inv'
  <2>1. queue[i] \in Seq(0..(N + 2)) /\ Append(queue[i], d) \in Seq(0..(N + 2))
    BY DEF Inv, TypeOK
  <2>2. queue' \in [Nodes -> Seq(0..(N + 2))]
    BY <1>9, <2>1 DEF Send, Inv, TypeOK
  <2> QED BY <1>9, <2>2 DEF Send, faultVars, Inv, TypeOK, DeafArmed, EdgesAsked
<1>10. ASSUME NEW i \in Nodes, Pump(i) PROVE Inv'
  <2>1. CASE Discard(i)
    <3>1. hold' \in [Nodes -> 0..SlowSecs]
      BY <2>1 DEF Discard, Inv, TypeOK
    <3> QED BY <2>1, <3>1, TakeInv DEF Discard
  <2>2. CASE Read(i)
    BY <2>2, ReadInv
  <2> QED BY <1>10, <2>1, <2>2 DEF Pump, Ignore, FanOut, Unicast
<1>11. CASE Tick
  <2>1. hold' \in [Nodes -> 0..SlowSecs]
    BY <1>11, MeshAssumption DEF Tick, Inv, TypeOK
  <2> QED BY <1>11, <2>1 DEF Tick, Inv, TypeOK, DeafArmed, EdgesAsked
<1> HIDE DEF Inv
<1> QED
  BY <1>1, <1>2, <1>3, <1>4, <1>5, <1>6, <1>7, <1>8, <1>9, <1>10, <1>11 DEF Next

LEMMA InductiveInv == ASSUME TableFits PROVE Spec => []Inv
<1>1. Inv /\ [Next]_vars => Inv'
  BY NextInv
<1> QED BY <1>1, InitInv, PTL DEF Spec

\* The invariant of the run, for every number of nodes.
THEOREM MeshTypes == ASSUME TableFits PROVE Spec => []TypeOK
<1>1. Inv => TypeOK
  BY DEF Inv
<1> QED BY <1>1, InductiveInv, PTL

\* When the table holds every edge, an in drop cuts all unicast it should,
\* whatever was dropped and healed before.
THEOREM DropsArm == ASSUME TableFits PROVE Spec => []DeafArmed
<1>1. Inv => DeafArmed
  BY DEF Inv
<1> QED BY <1>1, InductiveInv, PTL

-----------------------------------------------------------------------------
(* Refinement.                                                             *)

Lossies == {i \in Nodes : Lossy(qos[i])}

LEMMA LinkInit == Init => Links!LinkInit
<1> SUFFICES ASSUME Init PROVE Links!LinkInit
  OBVIOUS
<1>1. ASSUME NEW i \in Nodes PROVE ~Lossy(qos[i])
  BY DEF Init, Lossy, Off
<1> QED BY <1>1 DEF Init, Links!LinkInit

LEMMA FanOutCarries ==
  ASSUME Inv, NEW i \in Nodes, NEW bad \in BadWrites, FanOut(i, bad)
  PROVE  Links!Carry
<1>1. i # dead /\ i \notin marks /\ UNCHANGED <<marks, qos, deaf, dead, blind, x>>
  BY DEF FanOut, Read, Take
<1> DEFINE cast == IF Head(queue[i]) = Multi THEN "multi" ELSE "broad"
<1>2. /\ last'.what = "packet" /\ last'.from = i /\ last'.cast = cast
      /\ last'.dst = Nodes \ {i} /\ last'.bad = bad
      /\ \A j \in Nodes : last'.copies[j] = IF j \in Nodes \ {i} THEN Forward(i, j, bad).pkts ELSE 0
  BY DEF FanOut, Became
<1>3. cast = "multi" => ~blind
  <2>1. Multi # Broad
    BY MeshAssumption DEF Multi, Broad
  <2> QED BY <2>1 DEF FanOut
<1>4. cast # "one"
  OBVIOUS
<1> HIDE DEF cast
<1>5. ASSUME NEW j \in Nodes
      PROVE  last'.copies[j] \in
                 IF j \notin last'.dst THEN {0}
                 ELSE IF j \in last'.bad THEN Links!Fewer(Links!Copies(last'.from, last'.cast, j))
                 ELSE Links!Copies(last'.from, last'.cast, j)
  <2>1. Forward(i, j, bad).pkts = IF Links!Hears(i, j) /\ j \notin bad THEN 1 ELSE 0
    BY DEF Forward, Zero
  <2>2. 0 \in Links!Fewer(Links!Copies(i, cast, j))
    BY DEF Links!Fewer
  <2>3. j \notin bad => Forward(i, j, bad).pkts \in Links!Copies(i, cast, j)
    BY <1>4, <2>1 DEF Links!Copies
  <2> HIDE DEF Links!Hears
  <2> QED BY <1>2, <2>1, <2>2, <2>3
<1> QED BY <1>1, <1>2, <1>3, <1>5 DEF Links!Carry

LEMMA UnicastCarries ==
  ASSUME Inv, NEW i \in Nodes, NEW j \in Nodes, NEW bad \in BadWrites, Unicast(i, j, bad)
  PROVE  Links!Carry
<1>1. i # dead /\ i \notin marks /\ i # j /\ UNCHANGED <<marks, qos, deaf, dead, blind, x>>
  BY DEF Unicast, Read, Take
<1>2. PICK lost \in Outcomes(qos[i].loss), denied \in Outcomes(qos[i].cap),
           twice \in Outcomes(qos[i].dup), again \in BadWrites :
           Became(i, "one", {j}, IF twice THEN bad \union again ELSE bad,
                  [k \in Nodes |->
                      IF <<i, j>> \in edges \/ lost \/ denied
                      THEN [Zero EXCEPT !.policy = 1]
                      ELSE Writes(i, j, bad, twice, again)])
  BY DEF Unicast
<1>3. lost \in BOOLEAN /\ denied \in BOOLEAN /\ twice \in BOOLEAN
  BY DEF Outcomes
<1>4. i \notin Lossies => ~lost /\ ~denied /\ ~twice
  BY DEF Lossies, Lossy, Outcomes
<1> DEFINE failed == IF twice THEN bad \union again ELSE bad
           n == IF <<i, j>> \in edges \/ lost \/ denied THEN 0
                ELSE Writes(i, j, bad, twice, again).pkts
<1>5. /\ last'.what = "packet" /\ last'.from = i /\ last'.cast = "one"
      /\ last'.dst = {j} /\ last'.bad = failed
      /\ \A k \in Nodes : last'.copies[k] = IF k = j THEN n ELSE 0
  BY <1>2 DEF Became, Zero
<1>6. <<i, j>> \in edges <=> j \in deaf
  BY <1>1 DEF Inv, DeafArmed, EdgesAsked
<1>7. /\ j \notin failed => n \in Links!Copies(i, "one", j)
      /\ j \in failed => n \in Links!Fewer(Links!Copies(i, "one", j))
  <2>1. CASE j \in deaf \/ lost \/ denied \/ ~Links!Hears(i, j)
    <3>1. n = 0
      BY <1>3, <1>6, <2>1 DEF Writes, Forward, Zero
    <3>2. 0 \in Links!Fewer(Links!Copies(i, "one", j))
      BY DEF Links!Fewer
    <3>3. 0 \in Links!Copies(i, "one", j)
      <4>1. CASE i \in Lossies
        BY <4>1 DEF Links!Copies, Lossies
      <4>2. CASE i \notin Lossies
        BY <1>4, <2>1, <4>2 DEF Links!Copies
      <4> QED BY <4>1, <4>2
    <3> HIDE DEF n
    <3> QED BY <3>1, <3>2, <3>3
  <2>2. CASE Links!Hears(i, j) /\ j \notin deaf /\ ~lost /\ ~denied
    <3>1. n = Writes(i, j, bad, twice, again).pkts
      BY <1>6, <2>2
    <3>2. Links!Copies(i, "one", j) = IF i \in Lossies THEN 0..2 ELSE {1}
      BY <2>2 DEF Links!Copies, Lossies
    <3>3. CASE twice
      <4>1. i \in Lossies
        BY <1>4, <3>3
      <4>2. n = (IF j \in bad THEN 0 ELSE 1) + (IF j \in again THEN 0 ELSE 1)
        BY <2>2, <3>1, <3>3 DEF Writes, Forward, Zero
      <4>3. n \in 0..2 /\ (j \in bad \union again => n \in {0, 1})
        BY <4>2
      <4>4. Links!Fewer(Links!Copies(i, "one", j)) = {0, 1}
        BY <3>2, <4>1 DEF Links!Fewer
      <4> HIDE DEF n
      <4> QED BY <3>2, <3>3, <4>1, <4>3, <4>4
    <3>4. CASE ~twice
      <4>1. n = IF j \in bad THEN 0 ELSE 1
        BY <2>2, <3>1, <3>4 DEF Writes, Forward, Zero
      <4>2. 0 \in Links!Fewer(Links!Copies(i, "one", j))
        BY DEF Links!Fewer
      <4>3. 1 \in Links!Copies(i, "one", j)
        BY <3>2
      <4> HIDE DEF n
      <4> QED BY <3>4, <4>1, <4>2, <4>3
    <3> QED BY <3>3, <3>4
  <2> QED BY <2>1, <2>2
<1> HIDE DEF n, failed
<1>8. ASSUME NEW k \in Nodes
      PROVE  last'.copies[k] \in
                 IF k \notin last'.dst THEN {0}
                 ELSE IF k \in last'.bad THEN Links!Fewer(Links!Copies(last'.from, last'.cast, k))
                 ELSE Links!Copies(last'.from, last'.cast, k)
  BY <1>5, <1>7
<1> QED BY <1>1, <1>5, <1>8 DEF Links!Carry

\* Every step of the mesh is a step of LinkFaults or changes none of it.
LEMMA LinkStep == ASSUME Inv, [Next]_vars PROVE [Links!LinkNext]_(Links!linkVars)
<1> SUFFICES ASSUME ~UNCHANGED Links!linkVars PROVE Links!LinkNext
  OBVIOUS
<1> USE DEF Links!LinkNext
<1>0. CASE UNCHANGED vars
  BY <1>0 DEF vars, faultVars, Links!linkVars
<1>1. ASSUME NEW S \in Scopes, NEW dir \in {"out", "in", "both"}, DropPlain(S, dir)
      PROVE  Links!Cut
  <2>1. last' = [what |-> "drop", scope |-> S, dir |-> dir]
    BY <1>1 DEF DropPlain, Step, Event
  <2> QED BY <1>1, <2>1 DEF DropPlain, Links!Cut
<1>2. ASSUME NEW S \in Scopes, NEW dir \in {"out", "in", "both"}, NEW q \in Shapes,
             DropFault(S, dir, q)
      PROVE  Links!Shape
  <2>1. last' = [what |-> "shape", scope |-> S, dir |-> dir, lossy |-> Lossy(q)]
    BY <1>2 DEF DropFault, Step, Event
  <2> DEFINE T == Links!Shaped(S, dir)
  <2>2. qos' = [i \in Nodes |-> IF i \in T THEN q ELSE qos[i]]
    BY <1>2 DEF DropFault, SetQos, Links!Shaped
  <2>3. Lossies' = {i \in Nodes : IF i \in T THEN Lossy(q) ELSE Lossy(qos[i])}
    BY <2>2 DEF Lossies, Lossy
  <2>4. T \subseteq Nodes
    BY MeshAssumption DEF Links!Shaped
  <2>5. Lossies' = IF Lossy(q) THEN Lossies \union T ELSE Lossies \ T
    <3> HIDE DEF T
    <3> QED BY <2>3, <2>4 DEF Lossies
  <2> QED BY <1>2, <2>1, <2>5 DEF DropFault, Links!Shape, Lossies
<1>3. ASSUME NEW S \in Scopes, Slow(S) PROVE Links!Shape
  <2>1. last' = [what |-> "shape", scope |-> S, dir |-> "out", lossy |-> FALSE]
    BY <1>3 DEF Slow, Step, Event
  <2>2. qos' = [i \in Nodes |-> IF i \in S THEN [Off EXCEPT !.slow = SlowSecs] ELSE qos[i]]
    BY <1>3 DEF Slow, SetQos
  <2>3. Lossies' = Lossies \ S
    BY <2>2 DEF Lossies, Lossy, Off
  <2> QED BY <1>3, <2>1, <2>3 DEF Slow, Links!Shape, Links!Shaped, Lossies
<1>4. ASSUME NEW S \in Scopes, Heal(S) PROVE Links!Mend
  <2>1. last' = [what |-> "heal", scope |-> S]
    BY <1>4 DEF Heal, Step, Event
  <2>2. qos' = [i \in Nodes |-> IF i \in Nodes THEN Off ELSE qos[i]]
    BY <1>4 DEF Heal, SetQos
  <2>3. Lossies' = {}
    BY <2>2 DEF Lossies, Lossy, Off
  <2> QED BY <1>4, <2>1, <2>3 DEF Heal, Links!Mend, Lossies
<1>5. ASSUME NEW i \in Nodes,
             \/ Kill(i) \/ Restart(i) \/ \E p \in Places : Move(i, p)
             \/ \E b \in BOOLEAN : NextPhase(b)
      PROVE  Links!Rearrange
  BY <1>5 DEF Kill, Restart, Move, NextPhase, Step, Event, faultVars, Links!Rearrange
<1>6. ASSUME NEW i \in Nodes, NEW d \in 0..(N + 2), Send(i, d) PROVE Links!Rearrange
  BY <1>6 DEF Send, Quiet, Event, faultVars, Links!Rearrange
<1>7. CASE Tick
  BY <1>7 DEF Tick, Quiet, Event, Links!Rearrange
<1>8. ASSUME NEW i \in Nodes, Pump(i) PROVE Links!Rearrange \/ Links!Carry
  <2>1. CASE Discard(i) \/ Ignore(i)
    BY <2>1 DEF Discard, Ignore, Read, Take, Quiet, Event, Links!Rearrange
  <2>2. ASSUME NEW bad \in BadWrites, FanOut(i, bad) PROVE Links!Carry
    BY <2>2, FanOutCarries
  <2>3. ASSUME NEW bad \in BadWrites, NEW j \in Nodes, Unicast(i, j, bad) PROVE Links!Carry
    BY <2>3, UnicastCarries
  <2> QED BY <1>8, <2>1, <2>2, <2>3 DEF Pump
<1>9. 1 \in Nodes
  BY MeshAssumption DEF Nodes
<1> QED BY <1>0, <1>1, <1>2, <1>3, <1>4, <1>5, <1>6, <1>7, <1>8, <1>9 DEF Next

\* Marks, edges, slots, gates and queues keep the promise of LinkFaults, for
\* any number of nodes whose edges fit into the table.
THEOREM ImplementsLinks == ASSUME TableFits PROVE Spec => LinkSpec
  BY LinkInit, LinkStep, InductiveInv, PTL
  DEF Spec, LinkSpec, Links!LinkSpec

-----------------------------------------------------------------------------
(* The flow counters, whether or not the table holds every edge.           *)

\* Steps add no edge that no in drop asked for.
LEMMA AskedStep ==
  ASSUME EdgesAsked, [Next]_vars
  PROVE  EdgesAsked'
<1>1. ASSUME NEW S \in Scopes, NEW dir \in {"out", "in", "both"}, DropPlain(S, dir)
      PROVE  EdgesAsked'
  <2>1. \A j, k \in Nodes : <<j, k>> \in Arm(S) => <<j, k>> \in edges \/ k \in S
    BY DEF Arm
  <2> QED BY <1>1, <2>1 DEF DropPlain, EdgesAsked
<1>2. ASSUME NEW S \in Scopes, Heal(S) PROVE EdgesAsked'
  BY <1>2 DEF Heal, EdgesAsked
<1>3. CASE UNCHANGED <<edges, deaf>>
  BY <1>3 DEF EdgesAsked
<1>4. ASSUME NEW S \in Scopes,
             Slow(S) \/ \E dir \in {"out", "in", "both"}, q \in Shapes : DropFault(S, dir, q)
      PROVE  UNCHANGED <<edges, deaf>>
  BY <1>4 DEF Slow, DropFault
<1>5. ASSUME NEW i \in Nodes,
             \/ Kill(i) \/ Restart(i) \/ (\E p \in Places : Move(i, p))
             \/ \E d \in 0..(N + 2) : Send(i, d)
      PROVE  UNCHANGED <<edges, deaf>>
  BY <1>5 DEF Kill, Restart, Move, Send, faultVars
<1>6. ASSUME NEW i \in Nodes, Pump(i) PROVE UNCHANGED <<edges, deaf>>
  BY <1>6 DEF Pump, Discard, Ignore, FanOut, Unicast, Read, Take
<1>7. ASSUME Tick \/ \E b \in BOOLEAN : NextPhase(b) PROVE UNCHANGED <<edges, deaf>>
  BY <1>7 DEF Tick, NextPhase, faultVars
<1>8. CASE UNCHANGED vars
  BY <1>3, <1>8 DEF vars, faultVars
<1> QED BY <1>1, <1>2, <1>3, <1>4, <1>5, <1>6, <1>7, <1>8 DEF Next

LEMMA FanOutAccounted ==
  ASSUME NEW i \in Nodes, NEW bad \in BadWrites, FanOut(i, bad)
  PROVE  Accounted'
<1>1. UNCHANGED <<x, qos, deaf>>
  BY DEF FanOut, Read, Take
<1>2. last'.dst = Nodes \ {i} /\ last'.from = i /\ last'.bad = bad /\ last'.cast # "one"
      /\ \A j \in Nodes \ {i} : cell'[j] = Forward(i, j, bad)
  BY DEF FanOut, Became
<1>3. ASSUME NEW j \in Nodes \ {i}
      PROVE  /\ cell'[j].pkts + cell'[j].radio + cell'[j].policy = 1
             /\ ~(cell'[j].policy > 0)
             /\ cell'[j].radio > 0 => ~Links!Hears(i, j) \/ j \in bad
  BY <1>2 DEF Forward, Zero
<1>4. \A j \in Nodes : Links!Hears(i, j)' <=> Links!Hears(i, j)
  BY <1>1 DEF Links!Hears
<1> HIDE DEF Links!Hears
<1> QED BY <1>2, <1>3, <1>4 DEF Accounted

LEMMA UnicastAccounted ==
  ASSUME EdgesAsked, NEW i \in Nodes, NEW j \in Nodes, NEW bad \in BadWrites, Unicast(i, j, bad)
  PROVE  Accounted'
<1>1. UNCHANGED <<x, qos, deaf>>
  BY DEF Unicast, Read, Take
<1>2. PICK lost \in Outcomes(qos[i].loss), denied \in Outcomes(qos[i].cap),
           twice \in Outcomes(qos[i].dup), again \in BadWrites :
           Became(i, "one", {j}, IF twice THEN bad \union again ELSE bad,
                  [k \in Nodes |->
                      IF <<i, j>> \in edges \/ lost \/ denied
                      THEN [Zero EXCEPT !.policy = 1]
                      ELSE Writes(i, j, bad, twice, again)])
  BY DEF Unicast
<1>3. lost \in BOOLEAN /\ denied \in BOOLEAN /\ twice \in BOOLEAN
      /\ (lost => qos[i].loss # "never") /\ (denied => qos[i].cap # "never")
  BY DEF Outcomes
<1> DEFINE failed == IF twice THEN bad \union again ELSE bad
<1>4. last'.dst = {j} /\ last'.from = i /\ last'.cast = "one" /\ last'.bad = failed
      /\ cell'[j] = IF <<i, j>> \in edges \/ lost \/ denied THEN [Zero EXCEPT !.policy = 1]
                    ELSE Writes(i, j, bad, twice, again)
  BY <1>2 DEF Became
<1>5. <<i, j>> \in edges => j \in deaf
  BY DEF EdgesAsked
<1>6. Links!Hears(i, j)' <=> Links!Hears(i, j)
  BY <1>1 DEF Links!Hears
<1>7. CASE <<i, j>> \in edges \/ lost \/ denied
  <2>1. cell'[j] = [Zero EXCEPT !.policy = 1]
    BY <1>4, <1>7
  <2>2. /\ cell'[j].pkts + cell'[j].radio + cell'[j].policy = 1 /\ cell'[j].policy # 0
        /\ ~(cell'[j].radio > 0)
    BY <2>1 DEF Zero
  <2>3. j \in deaf \/ qos[i].loss # "never" \/ qos[i].cap # "never"
    BY <1>3, <1>5, <1>7
  <2>4. last'.dst = {j} /\ last'.from = i /\ deaf' = deaf /\ qos' = qos
    BY <1>1, <1>4
  <2> HIDE DEF failed
  <2> QED BY <2>2, <2>3, <2>4 DEF Accounted
<1>8. CASE ~(<<i, j>> \in edges \/ lost \/ denied)
  <2>1. cell'[j] = Writes(i, j, bad, twice, again)
    BY <1>4, <1>8
  <2>2. /\ cell'[j].pkts + cell'[j].radio + cell'[j].policy = (IF twice THEN 2 ELSE 1)
        /\ cell'[j].policy = 0
        /\ cell'[j].radio > 0 => ~Links!Hears(i, j) \/ j \in failed
    <3>1. CASE twice
      BY <2>1, <3>1 DEF Writes, Forward, Zero
    <3>2. CASE ~twice
      BY <2>1, <3>2 DEF Writes, Forward, Zero
    <3> QED BY <3>1, <3>2
  <2>3. cell'[j].radio > 0 => ~Links!Hears(i, j)' \/ j \in failed
    BY <1>6, <2>2
  <2>4. (IF twice THEN 2 ELSE 1) \in {IF t THEN 2 ELSE 1 : t \in Outcomes(qos[i].dup)}
    OBVIOUS
  <2>5. cell'[j].pkts + cell'[j].radio + cell'[j].policy
            \in {IF t THEN 2 ELSE 1 : t \in Outcomes(qos[i].dup)}'
    BY <1>1, <2>2, <2>4
  <2>6. last'.dst = {j} /\ last'.from = i /\ last'.cast = "one" /\ last'.bad = failed
    BY <1>4
  <2> HIDE DEF Links!Hears, failed
  <2> QED BY <2>2, <2>3, <2>5, <2>6 DEF Accounted
<1> QED BY <1>7, <1>8

LEMMA AccountedStep ==
  ASSUME EdgesAsked, Accounted, [Next]_vars
  PROVE  Accounted'
<1>1. CASE UNCHANGED vars
  BY <1>1 DEF vars, faultVars, Accounted, Links!Hears
<1>2. CASE last'.what # "packet"
  BY <1>2 DEF Accounted
<1>3. ASSUME NEW e, Event(e), e.what # "packet" PROVE last'.what # "packet"
  BY <1>3 DEF Event
<1>4. Links!Nothing.what # "packet"
  BY DEF Links!Nothing
<1>5. ASSUME NEW S \in Scopes,
             \/ Heal(S) \/ Slow(S)
             \/ \E dir \in {"out", "in", "both"} :
                    DropPlain(S, dir) \/ \E q \in Shapes : DropFault(S, dir, q)
      PROVE  last'.what # "packet"
  BY <1>5 DEF Heal, Slow, DropPlain, DropFault, Step, Event
<1>6. ASSUME NEW i \in Nodes,
             \/ Kill(i) \/ Restart(i) \/ (\E p \in Places : Move(i, p))
             \/ (\E d \in 0..(N + 2) : Send(i, d)) \/ Discard(i) \/ Ignore(i)
      PROVE  last'.what # "packet"
  BY <1>4, <1>6 DEF Kill, Restart, Move, Send, Discard, Ignore, Step, Quiet, Event
<1>7. ASSUME Tick \/ \E b \in BOOLEAN : NextPhase(b) PROVE last'.what # "packet"
  BY <1>4, <1>7 DEF Tick, NextPhase, Step, Quiet, Event
<1>8. ASSUME NEW i \in Nodes, Pump(i) PROVE Accounted'
  <2>1. CASE Discard(i) \/ Ignore(i)
    BY <2>1, <1>2, <1>6
  <2> QED BY <1>8, <2>1, FanOutAccounted, UnicastAccounted DEF Pump
<1> HIDE DEF Accounted
<1> QED BY <1>1, <1>2, <1>5, <1>6, <1>7, <1>8 DEF Next

\* Every packet is counted where it was addressed, once or, if the QoS of its
\* sender doubled it, twice, in the columns that say why each write did or did
\* not arrive, whatever the table size.
THEOREM PacketsAccounted == Spec => []Accounted
<1>1. Init => EdgesAsked /\ Accounted
  BY DEF Init, EdgesAsked, Accounted, Links!Nothing
<1>2. EdgesAsked /\ Accounted /\ [Next]_vars => (EdgesAsked /\ Accounted)'
  BY AskedStep, AccountedStep
<1> QED BY <1>1, <1>2, PTL DEF Spec
=============================================================================

--------------------------- MODULE SimBenchProofs ---------------------------
(***************************************************************************)
(* Two developments that share no state.                                   *)
(*                                                                         *)
(* The simulation core, for any nodes, events and handlers: the node list  *)
(* agrees with its directory, the heap in its array implements the queue   *)
(* of events, and a datagram reaches no listener of another node.          *)
(*                                                                         *)
(* The benchmark step: the relay, the backstops, the ladder of a ramp and  *)
(* the metrics, for any file and mapping, any caps and clocks, and any     *)
(* behaviour of the system under test.                                     *)
(***************************************************************************)
EXTENDS SimCore, Bench, SequenceTheorems, FiniteSetTheorems,
        WellFoundedInduction, TLAPS

-----------------------------------------------------------------------------
(* The node list.                                                          *)

ListInv == ListTypeOK /\ Directory

LEMMA ListStart == ListInit => ListInv
  BY NodeListAssumption DEF ListInit, ListInv, ListTypeOK, Directory

\* A new id is not in use, so its slot overwrites none.
LEMMA ListAdds ==
    ASSUME ListInv, NEW p \in Places, AddNode(p)
    PROVE  ListInv'
<1> DEFINE n == [id |-> next_id, at |-> p, born |-> next_id]
<1>1. n \in Node /\ next_id \in Nat
  BY NodeListAssumption DEF AddNode, ListInv, ListTypeOK, Node
<1>2. /\ data' \in Seq(Node) /\ Len(data') = Len(data) + 1
      /\ data'[Len(data) + 1] = n
      /\ \A i \in 1..Len(data) : data'[i] = data[i]
  BY <1>1 DEF AddNode, ListInv, ListTypeOK
<1>3. /\ DOMAIN by_id \subseteq DOMAIN by_id' /\ DOMAIN by_id' \subseteq Nat
      /\ next_id \in DOMAIN by_id' /\ by_id'[next_id] = Len(data) + 1
      /\ \A k \in DOMAIN by_id' \ {next_id} :
             by_id'[k] = IF k \in DOMAIN by_id THEN by_id[k] ELSE 0
  BY <1>1 DEF AddNode, Grown, ListInv, ListTypeOK
<1>4. \A i \in 1..Len(data) : data[i].id # next_id
  BY DEF AddNode, Live, ListInv, Directory
<1>5. ListTypeOK'
  <2>1. next_id' \in 0..MaxIds
    BY NodeListAssumption DEF AddNode, ListInv, ListTypeOK
  <2>2. by_id' = [k \in DOMAIN by_id' |-> by_id'[k]]
    BY DEF AddNode, Grown
  <2>3. \A k \in DOMAIN by_id' : by_id'[k] \in 0..Len(data')
    BY <1>2, <1>3 DEF ListInv, ListTypeOK
  <2> QED BY <1>2, <1>3, <2>1, <2>2, <2>3 DEF ListTypeOK
<1>6. Directory'
  <2>1. ASSUME NEW i \in 1..Len(data')
        PROVE  data'[i].id \in DOMAIN by_id' /\ by_id'[data'[i].id] = i
    <3>1. CASE i \in 1..Len(data)
      BY <3>1, <1>2, <1>3, <1>4 DEF ListInv, Directory
    <3>2. CASE i = Len(data) + 1
      BY <3>2, <1>2, <1>3
    <3> QED BY <2>1, <3>1, <3>2, <1>2 DEF ListInv, ListTypeOK
  <2>2. ASSUME NEW k \in DOMAIN by_id', by_id'[k] # 0
        PROVE  by_id'[k] \in 1..Len(data') /\ data'[by_id'[k]].id = k
    <3>1. CASE k = next_id
      BY <3>1, <1>2, <1>3 DEF ListInv, ListTypeOK
    <3>2. CASE k # next_id
      BY <2>2, <3>2, <1>2, <1>3 DEF ListInv, Directory, ListTypeOK
    <3> QED BY <3>1, <3>2
  <2> QED BY <2>1, <2>2 DEF Directory
<1> QED BY <1>5, <1>6 DEF ListInv

\* The last node moves into the hole, and the directory follows it.
LEMMA ListRemoves ==
    ASSUME ListInv, NEW id \in DOMAIN by_id, RemoveNode(id)
    PROVE  ListInv'
<1> DEFINE i == by_id[id]
           top == Len(data)
           moved == [data EXCEPT ![i] = data[top]]
<1>1. i \in 1..top /\ data[i].id = id /\ top \in Nat
  BY DEF RemoveNode, Live, ListInv, Directory, ListTypeOK
<1>2. data[top] \in Node /\ top \in 1..top
  BY <1>1 DEF ListInv, ListTypeOK
<1>3. moved \in Seq(Node) /\ Len(moved) = top
      /\ \A k \in 1..top : moved[k] = IF k = i THEN data[top] ELSE data[k]
  BY <1>1, <1>2 DEF ListInv, ListTypeOK
<1>4. /\ data' \in Seq(Node) /\ Len(data') = top - 1
      /\ \A k \in 1..(top - 1) : data'[k] = IF k = i THEN data[top] ELSE data[k]
  BY <1>1, <1>3 DEF RemoveNode
<1>5. \A k \in 1..top : data[k].id \in DOMAIN by_id /\ by_id[data[k].id] = k
  BY DEF ListInv, Directory
<1>6. /\ DOMAIN by_id' = DOMAIN by_id
      /\ by_id'[id] = 0
      /\ i # top => by_id'[data[top].id] = i /\ data[top].id # id
      /\ \A k \in DOMAIN by_id \ {id, data[top].id} : by_id'[k] = by_id[k]
  BY <1>1, <1>2, <1>5 DEF RemoveNode
<1>7. Directory'
  <2>1. ASSUME NEW t \in 1..Len(data')
        PROVE  data'[t].id \in DOMAIN by_id' /\ by_id'[data'[t].id] = t
    <3>1. CASE t = i
      BY <3>1, <2>1, <1>1, <1>2, <1>4, <1>5, <1>6
    <3>2. CASE t # i
      <4>1. data'[t] = data[t] /\ t \in 1..top /\ t # top
        BY <3>2, <2>1, <1>1, <1>4
      <4>2. data[t].id # id /\ data[t].id # data[top].id
        BY <3>2, <4>1, <1>2, <1>5
      <4> QED BY <4>1, <4>2, <1>5, <1>6
    <3> QED BY <3>1, <3>2
  <2>2. ASSUME NEW k \in DOMAIN by_id', by_id'[k] # 0
        PROVE  by_id'[k] \in 1..Len(data') /\ data'[by_id'[k]].id = k
    <3>1. k # id
      BY <2>2, <1>6
    <3>2. CASE k = data[top].id
      <4>1. i # top
        BY <3>1, <3>2, <1>1
      <4> QED BY <3>2, <4>1, <1>1, <1>4, <1>6
    <3>3. CASE k # data[top].id
      <4>1. by_id'[k] = by_id[k]
        BY <3>1, <3>3, <1>6
      <4>2. by_id[k] \in 1..top /\ data[by_id[k]].id = k
        BY <2>2, <4>1, <1>6 DEF ListInv, Directory
      <4>3. by_id[k] # i /\ by_id[k] # top
        BY <3>1, <3>3, <4>2, <1>1
      <4> QED BY <4>1, <4>2, <4>3, <1>1, <1>4
    <3> QED BY <3>2, <3>3
  <2> QED BY <2>1, <2>2 DEF Directory
<1>8. ListTypeOK'
  <2>1. by_id' = [k \in DOMAIN by_id' |-> by_id'[k]]
    BY DEF RemoveNode, ListInv, ListTypeOK
  <2>2. \A k \in DOMAIN by_id' : by_id'[k] \in 0..Len(data')
    <3> SUFFICES ASSUME NEW k \in DOMAIN by_id' PROVE by_id'[k] \in 0..Len(data')
      OBVIOUS
    <3>1. CASE by_id'[k] = 0
      BY <3>1, <1>1, <1>4
    <3>2. CASE by_id'[k] # 0
      BY <3>2, <1>7, <1>1, <1>4 DEF Directory
    <3> QED BY <3>1, <3>2
  <2> QED BY <1>4, <1>6, <2>1, <2>2 DEF ListTypeOK, ListInv, RemoveNode
<1> QED BY <1>7, <1>8 DEF ListInv

-----------------------------------------------------------------------------
(* The heap.                                                               *)

\* In the code's order entries are compared as pairs: the order is total.
LEMMA Order ==
    ASSUME NEW a \in SimEvent, NEW b \in SimEvent, NEW c \in SimEvent
    PROVE  /\ event_before(a, b) => ~event_before(b, a)
           /\ event_before(a, b) /\ event_before(b, c) => event_before(a, c)
           /\ ~event_before(b, a) /\ ~event_before(c, b) => ~event_before(c, a)
           /\ ~event_before(b, a) /\ a.seq # b.seq => event_before(a, b)
  BY DEF SimEvent, event_before

\* Parents and children of an entry.
LEMMA Family ==
    /\ \A x \in Nat : x > 1 => x \div 2 \in Nat /\ x \div 2 >= 1 /\ x \div 2 < x
    /\ \A x, k \in Nat : x \div 2 = k <=> x = 2 * k \/ x = 2 * k + 1
  OBVIOUS

InOrder(h, x) == ~event_before(h[x], h[x \div 2])

\* The heap is in order.
Sorted(h) == \A x \in 2..Len(h) : InOrder(h, x)

\* Where it is not, when the entry at k is on its way: the children of k are
\* no better than the parent of k.
Around(h, k) ==
    \A x \in 2..Len(h) : x \div 2 = k /\ k > 1 => ~event_before(h[x], h[k \div 2])
UpAt(h, k)   == (\A x \in 2..Len(h) : x # k => InOrder(h, x)) /\ Around(h, k)
DownAt(h, k) == (\A x \in 2..Len(h) : x \div 2 # k => InOrder(h, x)) /\ Around(h, k)

LEMMA Swapped ==
    ASSUME NEW h \in Seq(SimEvent), NEW a \in 1..Len(h), NEW b \in 1..Len(h)
    PROVE  /\ Swap(h, a, b) \in Seq(SimEvent) /\ Len(Swap(h, a, b)) = Len(h)
           /\ Swap(h, a, b)[a] = h[b] /\ Swap(h, a, b)[b] = h[a]
           /\ \A x \in 1..Len(h) : x # a /\ x # b => Swap(h, a, b)[x] = h[x]
  BY DEF Swap

\* A turn of the loop of heap_push.
LEMMA UpTurn ==
    ASSUME NEW h \in Seq(SimEvent), NEW k \in 1..Len(h), UpAt(h, k)
    PROVE  IF k > 1 /\ event_before(h[k], h[k \div 2])
           THEN UpAt(Swap(h, k, k \div 2), k \div 2)
           ELSE Sorted(h)
<1>1. CASE ~(k > 1 /\ event_before(h[k], h[k \div 2]))
  BY <1>1 DEF UpAt, Sorted, InOrder
<1>2. CASE k > 1 /\ event_before(h[k], h[k \div 2])
  <2> DEFINE p == k \div 2
             g == Swap(h, k, p)
  <2>1. p \in Nat /\ p >= 1 /\ p < k /\ k \in Nat /\ p \in 1..Len(h) /\ Len(h) \in Nat
    BY <1>2, Family
  <2>2. /\ Len(g) = Len(h) /\ g[k] = h[p] /\ g[p] = h[k]
        /\ \A x \in 1..Len(h) : x # k /\ x # p => g[x] = h[x]
    BY <2>1, Swapped
  <2>3. \A x \in 1..Len(h) : h[x] \in SimEvent
    OBVIOUS
  <2>4. h[k] \in SimEvent /\ h[p] \in SimEvent
    BY <2>1, <2>3
  <2>5. \A x \in 2..Len(h) : x # k => ~event_before(h[x], h[x \div 2])
    BY DEF UpAt, InOrder
  <2>6. \A x \in 2..Len(h) : x \div 2 = k => ~event_before(h[x], h[p])
    BY <1>2 DEF UpAt, Around
  <2>7. event_before(h[k], h[p])
    BY <1>2
  <2>8. k \div 2 = p
    OBVIOUS
  <2> HIDE DEF p, g
  <2>9. ASSUME NEW x \in 2..Len(g), x # p PROVE ~event_before(g[x], g[x \div 2])
    <3>1. x \in 2..Len(h) /\ x \in 1..Len(h) /\ x \in Nat /\ x > 1 /\ x \div 2 \in 1..Len(h) /\ x \div 2 < x
      BY <2>1, <2>2, Family
    <3>2. CASE x = k
      BY <2>2, <2>4, <2>7, <2>8, <3>2, Order
    <3>3. CASE x # k /\ x \div 2 = p
      <4>1. g[x] = h[x] /\ g[x \div 2] = h[k] /\ h[x] \in SimEvent
        BY <2>2, <2>3, <2>9, <3>1, <3>3
      <4>2. ~event_before(h[x], h[p])
        BY <2>5, <3>1, <3>3
      <4> QED BY <2>4, <2>7, <4>1, <4>2, Order
    <3>4. CASE x # k /\ x \div 2 = k
      BY <2>2, <2>6, <2>9, <3>1, <3>4
    <3>5. CASE x # k /\ x \div 2 # p /\ x \div 2 # k
      BY <2>2, <2>5, <2>9, <3>1, <3>5
    <3> QED BY <3>2, <3>3, <3>4, <3>5
  <2>10. ASSUME NEW x \in 2..Len(g), x \div 2 = p, p > 1
         PROVE  ~event_before(g[x], g[p \div 2])
    <3>1. x \in 2..Len(h) /\ x \in 1..Len(h) /\ p \in 2..Len(h) /\ p # k /\ p \div 2 \in 1..Len(h)
          /\ p \div 2 # p /\ p \div 2 # k /\ x # p
      BY <2>1, <2>2, <2>10, Family
    <3>2. g[p \div 2] = h[p \div 2] /\ h[p \div 2] \in SimEvent
      BY <2>2, <2>3, <3>1
    <3>3. ~event_before(h[p], h[p \div 2])
      BY <2>5, <3>1
    <3>4. CASE x = k
      BY <2>2, <3>2, <3>3, <3>4
    <3>5. CASE x # k
      <4>1. g[x] = h[x] /\ ~event_before(h[x], h[p]) /\ h[x] \in SimEvent
        BY <2>2, <2>3, <2>5, <2>10, <3>1, <3>5
      <4> QED BY <2>4, <3>2, <3>3, <4>1, Order
    <3> QED BY <3>4, <3>5
  <2>11. UpAt(g, p)
    BY <2>9, <2>10 DEF UpAt, Around, InOrder
  <2> QED BY <1>2, <2>11 DEF g, p
<1> QED BY <1>1, <1>2

\* What the comparisons of a turn of heap_pop find.
LEMMA SmallestIs ==
    ASSUME NEW h \in Seq(SimEvent), NEW k \in 1..Len(h)
    PROVE  LET m == Smallest(h, k)
           IN  /\ m # k => /\ m \in 1..Len(h) /\ m > k /\ m \div 2 = k
                           /\ event_before(h[m], h[k])
               /\ \A x \in 2..Len(h) : x \div 2 = k => ~event_before(h[x], h[m])
<1> DEFINE l == IF 2 * k <= Len(h) /\ event_before(h[2 * k], h[k]) THEN 2 * k ELSE k
           m == Smallest(h, k)
<1>0. k \in Nat /\ k >= 1 /\ Len(h) \in Nat /\ h[k] \in SimEvent
  OBVIOUS
<1>1. \A x \in 1..Len(h) : h[x] \in SimEvent
  OBVIOUS
<1>2. l \in 1..Len(h) /\ (l = k \/ (l = 2 * k /\ event_before(h[l], h[k])))
  BY <1>0
<1>3. 2 * k <= Len(h) => ~event_before(h[2 * k], h[l])
  <2>1. CASE 2 * k <= Len(h) /\ event_before(h[2 * k], h[k])
    <3>1. l = 2 * k /\ 2 * k \in 1..Len(h)
      BY <1>0, <2>1
    <3> QED BY <1>1, <3>1, Order
  <2>2. CASE 2 * k <= Len(h) /\ ~event_before(h[2 * k], h[k])
    BY <2>2
  <2> QED BY <2>1, <2>2
<1>4. m = IF 2 * k + 1 <= Len(h) /\ event_before(h[2 * k + 1], h[l]) THEN 2 * k + 1 ELSE l
  BY DEF Smallest
<1> HIDE DEF l, m
<1>5. CASE 2 * k + 1 <= Len(h) /\ event_before(h[2 * k + 1], h[l])
  <2>1. /\ m = 2 * k + 1 /\ m \in 1..Len(h) /\ 2 * k \in 1..Len(h) /\ m > k /\ m \div 2 = k
        /\ m # k /\ m \in Nat
    BY <1>0, <1>4, <1>5, Family
  <2>2. h[m] \in SimEvent /\ h[l] \in SimEvent /\ h[2 * k] \in SimEvent
    BY <1>1, <1>2, <2>1
  <2>3. event_before(h[m], h[l]) /\ ~event_before(h[2 * k], h[l])
    BY <1>3, <1>5, <2>1
  <2>4. event_before(h[m], h[k])
    BY <1>0, <1>2, <2>2, <2>3, Order
  <2>5. ~event_before(h[2 * k], h[m])
    BY <2>2, <2>3, Order
  <2>6. ~event_before(h[m], h[m])
    BY <2>2, Order
  <2>7. ASSUME NEW x \in 2..Len(h), x \div 2 = k PROVE ~event_before(h[x], h[m])
    <3>1. x = 2 * k \/ x = m
      BY <1>0, <2>1, <2>7, Family
    <3> QED BY <2>5, <2>6, <3>1
  <2> QED BY <2>1, <2>4, <2>7 DEF m
<1>6. CASE ~(2 * k + 1 <= Len(h) /\ event_before(h[2 * k + 1], h[l]))
  <2>1. m = l
    BY <1>4, <1>6
  <2>2. m # k => m \in 1..Len(h) /\ m > k /\ m \div 2 = k /\ event_before(h[m], h[k])
    <3>1. SUFFICES ASSUME m # k
                   PROVE m \in 1..Len(h) /\ m > k /\ m \div 2 = k /\ event_before(h[m], h[k])
      OBVIOUS
    <3>2. m = 2 * k /\ event_before(h[m], h[k])
      BY <1>2, <2>1, <3>1
    <3> QED BY <1>0, <1>2, <2>1, <3>2, Family
  <2>3. ASSUME NEW x \in 2..Len(h), x \div 2 = k PROVE ~event_before(h[x], h[m])
    <3>1. x = 2 * k \/ x = 2 * k + 1
      BY <1>0, <2>3, Family
    <3> QED BY <1>3, <1>6, <2>1, <3>1
  <2> QED BY <2>2, <2>3 DEF m
<1> QED BY <1>5, <1>6

\* A turn of the loop of heap_pop.
LEMMA DownTurn ==
    ASSUME NEW h \in Seq(SimEvent), NEW k \in 1..Len(h), DownAt(h, k)
    PROVE  IF Smallest(h, k) # k
           THEN DownAt(Swap(h, k, Smallest(h, k)), Smallest(h, k))
           ELSE Sorted(h)
<1> DEFINE m == Smallest(h, k)
<1>1. /\ m # k => m \in 1..Len(h) /\ m > k /\ m \div 2 = k /\ event_before(h[m], h[k])
      /\ \A x \in 2..Len(h) : x \div 2 = k => ~event_before(h[x], h[m])
  BY SmallestIs
<1> HIDE DEF m
<1>2. CASE m = k
  <2>1. Sorted(h)
    BY <1>1, <1>2 DEF DownAt, Sorted, InOrder
  <2> QED BY <1>2, <2>1 DEF m
<1>3. CASE m # k
  <2> DEFINE g == Swap(h, k, m)
  <2>1. m \in Nat /\ k \in Nat /\ m > k /\ k >= 1 /\ m \in 1..Len(h) /\ m \div 2 = k /\ Len(h) \in Nat
    BY <1>1, <1>3
  <2>2. /\ Len(g) = Len(h) /\ g[k] = h[m] /\ g[m] = h[k]
        /\ \A x \in 1..Len(h) : x # k /\ x # m => g[x] = h[x]
    BY <2>1, Swapped
  <2>3. \A x \in 1..Len(h) : h[x] \in SimEvent
    OBVIOUS
  <2>4. h[k] \in SimEvent /\ h[m] \in SimEvent /\ event_before(h[m], h[k])
    BY <1>1, <1>3, <2>1, <2>3
  <2>5. \A x \in 2..Len(h) : x \div 2 # k => ~event_before(h[x], h[x \div 2])
    BY DEF DownAt, InOrder
  <2>6. \A x \in 2..Len(h) : x \div 2 = k /\ k > 1 => ~event_before(h[x], h[k \div 2])
    BY DEF DownAt, Around
  <2> HIDE DEF g
  <2>7. ASSUME NEW x \in 2..Len(g), x \div 2 # m PROVE ~event_before(g[x], g[x \div 2])
    <3>1. x \in 2..Len(h) /\ x \in 1..Len(h) /\ x > 1 /\ x \div 2 \in 1..Len(h) /\ x \div 2 < x
      BY <2>1, <2>2, Family
    <3>2. CASE x = m
      BY <2>1, <2>2, <2>4, <3>2, Order
    <3>3. CASE x # m /\ x \div 2 = k
      <4>1. x # k
        BY <3>1, <3>3
      <4> QED BY <1>1, <2>2, <3>1, <3>3, <4>1
    <3>4. CASE x = k
      <4>1. k > 1 /\ x \div 2 # k /\ x \div 2 # m /\ m \in 2..Len(h)
        BY <2>1, <2>7, <3>1, <3>4
      <4>2. ~event_before(h[m], h[k \div 2])
        BY <2>1, <2>6, <4>1
      <4> QED BY <2>2, <3>1, <3>4, <4>1, <4>2
    <3>5. CASE x # m /\ x # k /\ x \div 2 # k
      BY <2>2, <2>5, <2>7, <3>1, <3>5
    <3> QED BY <3>2, <3>3, <3>4, <3>5
  <2>8. ASSUME NEW x \in 2..Len(g), x \div 2 = m PROVE ~event_before(g[x], g[m \div 2])
    <3>1. x \in 2..Len(h) /\ x \in 1..Len(h) /\ x # m /\ x # k /\ x \div 2 # k
      BY <2>1, <2>2, <2>8, Family
    <3>2. g[x] = h[x] /\ g[m \div 2] = h[m]
      BY <2>1, <2>2, <3>1
    <3> QED BY <2>5, <2>8, <3>1, <3>2
  <2>9. DownAt(g, m)
    BY <2>7, <2>8 DEF DownAt, Around, InOrder
  <2> QED BY <1>3, <2>9 DEF g, m
<1> QED BY <1>2, <1>3

\* A set of numbers that is not empty has a least one.
LEMMA LeastNumber ==
    ASSUME NEW T, T \subseteq Nat, T # {}
    PROVE  \E x \in T : \A y \in T : x <= y
<1> DEFINE R == OpToRel(<, Nat)
<1>1. \E x \in T : \A y \in T : ~(<<y, x>> \in R)
  <2>1. IsWellFoundedOn(R, Nat)
    BY NatLessThanWellFounded, Zenon
  <2> HIDE DEF R
  <2> QED BY <2>1, WFMin
<1>2. \A x, y \in Nat : y < x => <<y, x>> \in R
  BY Zenon DEF OpToRel
<1> HIDE DEF R
<1>3. PICK x \in T : \A y \in T : ~(<<y, x>> \in R)
  BY <1>1
<1>4. ASSUME NEW y \in T PROVE x <= y
  <2>1. x \in Nat /\ y \in Nat
    OBVIOUS
  <2>2. ~(y < x)
    BY <1>2, <1>3, <2>1, Zenon
  <2> QED BY <2>1, <2>2
<1> QED BY <1>4

\* The first entry of a heap in order is its least.
LEMMA RootLeast ==
    ASSUME NEW h \in Seq(SimEvent), Sorted(h), NEW x \in 1..Len(h)
    PROVE  ~event_before(h[x], h[1])
<1> DEFINE T == {y \in 1..Len(h) : event_before(h[y], h[1])}
<1>0. Len(h) \in Nat /\ \A y \in 1..Len(h) : h[y] \in SimEvent
  OBVIOUS
<1>1. SUFFICES ASSUME T # {} PROVE FALSE
  OBVIOUS
<1>2. PICK y \in T : \A z \in T : y <= z
  <2>1. T \subseteq Nat
    BY <1>0
  <2> HIDE DEF T
  <2> QED BY <1>1, <2>1, LeastNumber
<1>3. y \in 1..Len(h) /\ event_before(h[y], h[1]) /\ 1 \in 1..Len(h)
  BY <1>0, <1>2
<1>4. y # 1
  BY <1>0, <1>3, Order
<1>5. y \in 2..Len(h) /\ y \div 2 \in 1..Len(h) /\ y \div 2 < y
  BY <1>0, <1>3, <1>4, Family
<1>6. ~event_before(h[y \div 2], h[1])
  BY <1>2, <1>5
<1>7. ~event_before(h[y], h[y \div 2])
  BY <1>5 DEF Sorted, InOrder
<1> QED BY <1>0, <1>3, <1>5, <1>6, <1>7, Order

-----------------------------------------------------------------------------
(* The queue.                                                              *)

\* Numbers are given once; what is pending comes after what has fired.
Numbered ==
    /\ \A x \in 1..Len(heap) : heap[x].seq < next_seq /\ event_before(ev, heap[x])
    /\ \A x, y \in 1..Len(heap) : heap[x].seq = heap[y].seq => x = y
    /\ clock = ev.at /\ ev.seq < next_seq

\* The heap is in order but for the entry that a loop is moving.
Ordered ==
    /\ sift = NoSift     => Sorted(heap)
    /\ sift.dir = "up"   => UpAt(heap, sift.k)
    /\ sift.dir = "down" => DownAt(heap, sift.k)

\* Ids are never used twice, so that what was sent or bound with an id is of
\* the node that was born with it.
Born ==
    /\ \A x \in 1..Len(data) : data[x].born = data[x].id
    /\ \A b \in binds : b.born = b.node
    /\ \A x \in 1..Len(heap) : heap[x].port # 0 => heap[x].born = heap[x].to
    /\ where = "call" /\ heard # NoBind => heard.born = ev.born

\* The loops have ended when context_run looks for the next event, and the
\* sender of a multicast lives as long as it takes.
Placed ==
    /\ where = "loop" => sift = NoSift /\ cast = NoCast
    /\ cast # NoCast => Live(cast.from)

CoreInv == CoreTypeOK /\ Directory /\ Numbered /\ Ordered /\ Born /\ Placed

-----------------------------------------------------------------------------
(* Steps of the core.                                                      *)

\* An event goes to the end of the array.
Pushes(e) ==
    /\ sift = NoSift /\ next_seq <= budget.events
    /\ e.seq = next_seq /\ e.at >= clock
    /\ e.port # 0 => e.born = e.to
    /\ heap' = Append(heap, e) /\ next_seq' = next_seq + 1
    /\ sift' = [dir |-> "up", k |-> Len(heap) + 1]

\* What a call to enqueue does.
LEMMA Enqueues ==
    ASSUME CoreInv, sift = NoSift, NEW t \in Nat, NEW to \in Nat,
           NEW port \in Ports \union {0}, NEW born \in Nat,
           port # 0 => born = to, enqueue(t, to, port, born)
    PROVE  UNCHANGED queue \/ \E e \in SimEvent : Pushes(e)
<1> DEFINE e == [at |-> t, seq |-> next_seq, to |-> to, port |-> port, born |-> born]
<1>0. next_seq \in Nat \ {0} /\ budget.events \in Nat /\ clock \in Nat
  BY SimCoreAssumption DEF CoreInv, CoreTypeOK
<1>1. CASE t < clock \/ next_seq > budget.events
  BY <1>1 DEF enqueue
<1>2. CASE ~(t < clock \/ next_seq > budget.events)
  <2>1. e \in SimEvent
    BY <1>0 DEF SimEvent
  <2>2. /\ e.seq = next_seq /\ e.at = t /\ e.port = port /\ e.born = born /\ e.to = to
    OBVIOUS
  <2>3. heap_push(e) /\ next_seq' = next_seq + 1
    BY <1>2 DEF enqueue
  <2>4. t >= clock /\ next_seq <= budget.events
    BY <1>0, <1>2
  <2> HIDE DEF e
  <2> QED BY <2>1, <2>2, <2>3, <2>4 DEF Pushes, heap_push, Sifting
<1> QED BY <1>1, <1>2

\* What a live id is found to be.
LEMMA Found ==
    ASSUME CoreInv, NEW id, Live(id)
    PROVE  /\ NodeOf(id) \in Node /\ NodeOf(id).id = id /\ NodeOf(id).born = id
           /\ id \in Nat /\ NodeOf(id).at \in Int
<1>1. by_id[id] \in 1..Len(data) /\ data[by_id[id]].id = id /\ data \in Seq(Node)
  BY DEF CoreInv, Directory, Live, CoreTypeOK, ListTypeOK
<1>2. NodeOf(id) \in Node /\ NodeOf(id).id = id
  BY <1>1 DEF NodeOf
<1>3. NodeOf(id).born = id
  BY <1>1 DEF NodeOf, CoreInv, Born
<1> QED BY <1>2, <1>3, SimCoreAssumption DEF Node

LEMMA SendsPut ==
    ASSUME CoreInv, sift = NoSift, NEW from, Live(from), NEW to, Live(to),
           NEW port \in Ports \union {0}, SendTo(from, to, port)
    PROVE  UNCHANGED queue \/ \E e \in SimEvent : Pushes(e)
<1> DEFINE a == NodeOf(from)
           b == NodeOf(to)
<1>1. a.at \in Int /\ b.at \in Int /\ to \in Nat /\ b.born = to /\ clock \in Nat
  BY Found DEF CoreInv, CoreTypeOK
<1>2. CASE ~Reaches(a.at, b.at)
  BY <1>2 DEF SendTo
<1>3. CASE Reaches(a.at, b.at)
  <2>1. enqueue(clock + Delay(a.at, b.at), to, port, b.born)
    BY <1>3 DEF SendTo
  <2>2. clock + Delay(a.at, b.at) \in Nat
    BY <1>1 DEF Delay
  <2> HIDE DEF a, b
  <2> QED BY <1>1, <2>1, <2>2, Enqueues
<1> QED BY <1>2, <1>3

\* A step leaves the queue alone, schedules, sifts, or fires.
Still  == UNCHANGED <<queue, clock, ev>>
Puts   == (\E e \in SimEvent : Pushes(e)) /\ UNCHANGED <<clock, ev>>
Others == <<listVars, clock, binds, where, ev, heard, budget>>

LEMMA CallsPut ==
    ASSUME CoreInv,
           \/ \E t \in 0..MaxTime : Schedule(t)
           \/ \E from, to \in DOMAIN by_id :
                  ContextSend(from, to) \/ \E port \in Ports : UdpSend(from, to, port)
           \/ McastHop
    PROVE  /\ UNCHANGED queue \/ \E e \in SimEvent : Pushes(e)
           /\ UNCHANGED Others
<1>1. ASSUME NEW t \in 0..MaxTime, Schedule(t)
      PROVE  (UNCHANGED queue \/ \E e \in SimEvent : Pushes(e)) /\ UNCHANGED Others
  <2>1. sift = NoSift /\ enqueue(t, 0, 0, 0) /\ UNCHANGED Others
    BY <1>1 DEF Schedule, Calling, Others, listVars
  <2>2. t \in Nat
    BY SimCoreAssumption
  <2> QED BY <2>1, <2>2, Enqueues
<1>2. ASSUME NEW from \in DOMAIN by_id, NEW to \in DOMAIN by_id, NEW port \in Ports \union {0},
             (ContextSend(from, to) /\ port = 0) \/ UdpSend(from, to, port)
      PROVE  (UNCHANGED queue \/ \E e \in SimEvent : Pushes(e)) /\ UNCHANGED Others
  <2>1. sift = NoSift /\ Live(from) /\ Live(to) /\ SendTo(from, to, port) /\ UNCHANGED Others
    BY <1>2 DEF ContextSend, UdpSend, Calling, Others, listVars
  <2> QED BY <2>1, SendsPut
<1>3. ASSUME McastHop
      PROVE  (UNCHANGED queue \/ \E e \in SimEvent : Pushes(e)) /\ UNCHANGED Others
  <2>1. sift = NoSift /\ cast # NoCast /\ UNCHANGED Others
    BY <1>3 DEF McastHop, Others, listVars
  <2>2. /\ Live(cast.from) /\ cast.port \in Ports /\ cast.i \in 1..(Len(data) + 1)
        /\ Len(data) \in Nat
    BY <2>1 DEF CoreInv, Placed, CoreTypeOK, ListTypeOK
  <2>3. CASE UNCHANGED queue
    BY <2>1, <2>3
  <2>4. CASE cast.i <= Len(data) /\ SendTo(cast.from, data[cast.i].id, cast.port)
    <3>1. Live(data[cast.i].id)
      BY <2>2, <2>4 DEF CoreInv, Directory, Live
    <3> QED BY <2>1, <2>2, <2>4, <3>1, SendsPut
  <2> QED BY <1>3, <2>2, <2>3, <2>4 DEF McastHop
<1> QED BY <1>1, <1>2, <1>3

\* The part of the invariant that is about the heap.
HeapOK ==
    /\ heap \in Seq(SimEvent) /\ Len(heap) < next_seq
    /\ next_seq \in 1..(budget.events + 1) /\ clock \in Nat
    /\ ev \in SimEvent \union {NoEvent}
    /\ sift \in [dir : {"up", "down"}, k : 1..Len(heap)] \union {NoSift}
    /\ Numbered /\ Ordered
    /\ \A x \in 1..Len(heap) : heap[x].port # 0 => heap[x].born = heap[x].to

LEMMA HeapIs ==
    ASSUME CoreInv
    PROVE  HeapOK /\ budget.events \in Nat
  BY SimCoreAssumption DEF CoreInv, CoreTypeOK, HeapOK, Born

LEMMA EventIs ==
    ASSUME NEW e \in SimEvent \union {NoEvent}
    PROVE  e.at \in Nat /\ e.seq \in Nat
  BY DEF SimEvent, NoEvent

\* heap_push: the new entry comes after all that have fired, and only it can
\* be out of order.
LEMMA HeapPut ==
    ASSUME HeapOK, budget.events \in Nat, NEW e \in SimEvent, Pushes(e),
           UNCHANGED <<clock, ev, budget>>
    PROVE  HeapOK'
<1> DEFINE n == Len(heap)
<1>1. /\ n \in Nat /\ next_seq \in Nat /\ \A x \in 1..n : heap[x] \in SimEvent
  BY DEF HeapOK
<1>2. /\ heap' \in Seq(SimEvent) /\ Len(heap') = n + 1 /\ heap'[n + 1] = e
      /\ \A x \in 1..n : heap'[x] = heap[x]
  BY DEF HeapOK, Pushes
<1>3. e.seq = next_seq /\ e.at >= clock /\ next_seq' = next_seq + 1 /\ e.at \in Nat
  BY DEF Pushes, SimEvent
<1>4. ev.at \in Nat /\ ev.seq \in Nat /\ clock = ev.at /\ ev.seq < next_seq
  BY EventIs DEF HeapOK, Numbered
<1>5. event_before(ev, e)
  BY <1>1, <1>3, <1>4 DEF event_before
<1> HIDE DEF n
<1>6. Numbered'
  <2>1. ASSUME NEW x \in 1..Len(heap')
        PROVE  heap'[x].seq < next_seq' /\ event_before(ev, heap'[x])
    <3>1. CASE x = n + 1
      BY <1>1, <1>2, <1>3, <1>5, <3>1
    <3>2. CASE x # n + 1
      <4>1. x \in 1..n
        BY <1>1, <1>2, <3>2
      <4>2. heap[x].seq < next_seq /\ event_before(ev, heap[x]) /\ heap[x].seq \in Nat
        BY <1>1, <4>1 DEF HeapOK, Numbered, SimEvent, n
      <4> QED BY <1>1, <1>2, <1>3, <4>1, <4>2
    <3> QED BY <3>1, <3>2
  <2>2. ASSUME NEW x \in 1..Len(heap'), NEW y \in 1..Len(heap'), heap'[x].seq = heap'[y].seq
        PROVE  x = y
    <3>0. \A z \in 1..n : heap[z].seq < next_seq /\ heap[z].seq \in Nat
      BY <1>1 DEF HeapOK, Numbered, SimEvent, n
    <3>1. CASE x \in 1..n /\ y \in 1..n
      BY <1>2, <2>2, <3>1 DEF HeapOK, Numbered, n
    <3>2. CASE x = n + 1 /\ y = n + 1
      BY <3>2
    <3>3. CASE x = n + 1 /\ y \in 1..n
      BY <1>1, <1>2, <1>3, <2>2, <3>0, <3>3
    <3>4. CASE y = n + 1 /\ x \in 1..n
      BY <1>1, <1>2, <1>3, <2>2, <3>0, <3>4
    <3> QED BY <1>1, <1>2, <3>1, <3>2, <3>3, <3>4
  <2>3. clock' = ev'.at /\ ev'.seq < next_seq'
    BY <1>1, <1>3, <1>4
  <2> QED BY <2>1, <2>2, <2>3 DEF Numbered
<1>7. Ordered'
  <2>1. UpAt(heap', n + 1)
    <3>0. Sorted(heap)
      BY DEF HeapOK, Ordered, Pushes
    <3>1. ASSUME NEW x \in 2..Len(heap'), x # n + 1 PROVE InOrder(heap', x)
      <4>1. x \in 2..n /\ x \in 1..n /\ x \div 2 \in 1..n
        BY <1>1, <1>2, <3>1, Family
      <4>2. heap'[x] = heap[x] /\ heap'[x \div 2] = heap[x \div 2]
        BY <1>2, <4>1
      <4> QED BY <3>0, <4>1, <4>2 DEF Sorted, InOrder, n
    <3>2. Around(heap', n + 1)
      <4>1. \A x \in 2..Len(heap') : x \div 2 # n + 1
        BY <1>1, <1>2, Family
      <4> QED BY <4>1 DEF Around
    <3> QED BY <3>1, <3>2 DEF UpAt
  <2>2. sift' = [dir |-> "up", k |-> n + 1]
    BY DEF Pushes, n
  <2>3. sift'.dir = "up" /\ sift'.k = n + 1 /\ sift' # NoSift
    BY <2>2 DEF NoSift
  <2> QED BY <2>1, <2>3 DEF Ordered
<1>8. sift' \in [dir : {"up", "down"}, k : 1..Len(heap')]
  <2>1. sift' = [dir |-> "up", k |-> n + 1]
    BY DEF Pushes, n
  <2> QED BY <1>1, <1>2, <2>1
<1>9. \A x \in 1..Len(heap') : heap'[x].port # 0 => heap'[x].born = heap'[x].to
  <2>1. ASSUME NEW x \in 1..Len(heap') PROVE heap'[x].port # 0 => heap'[x].born = heap'[x].to
    <3>1. CASE x = n + 1
      BY <1>2, <3>1 DEF Pushes
    <3>2. CASE x \in 1..n
      BY <1>2, <3>2 DEF HeapOK, n
    <3> QED BY <1>1, <1>2, <3>1, <3>2
  <2> QED BY <2>1
<1>10. Len(heap') < next_seq' /\ next_seq' \in 1..(budget'.events + 1)
  <2>1. n < next_seq /\ next_seq <= budget.events /\ next_seq' = next_seq + 1
    BY DEF HeapOK, Pushes, n
  <2> QED BY <1>1, <1>2, <2>1
<1>11. clock' \in Nat /\ ev' \in SimEvent \union {NoEvent}
  BY DEF HeapOK
<1> QED BY <1>2, <1>6, <1>7, <1>8, <1>9, <1>10, <1>11 DEF HeapOK

\* What a swap leaves as it was.
LEMMA SwapKeeps ==
    ASSUME HeapOK, NEW a \in 1..Len(heap), NEW b \in 1..Len(heap), a # b,
           heap' = Swap(heap, a, b), UNCHANGED <<next_seq, clock, ev>>
    PROVE  /\ heap' \in Seq(SimEvent) /\ Len(heap') = Len(heap) /\ Numbered'
           /\ \A x \in 1..Len(heap') : heap'[x].port # 0 => heap'[x].born = heap'[x].to
           /\ {Stamp(heap'[x]) : x \in 1..Len(heap')} = {Stamp(heap[x]) : x \in 1..Len(heap)}
<1> DEFINE n == Len(heap)
           was(x) == IF x = a THEN b ELSE IF x = b THEN a ELSE x
<1>1. /\ heap' \in Seq(SimEvent) /\ Len(heap') = n /\ heap'[a] = heap[b] /\ heap'[b] = heap[a]
      /\ \A x \in 1..n : x # a /\ x # b => heap'[x] = heap[x]
  BY Swapped DEF HeapOK
<1>2. \A x \in 1..n : was(x) \in 1..n /\ heap'[x] = heap[was(x)] /\ heap'[was(x)] = heap[x]
  BY <1>1
<1>3. \A x, y \in 1..n : was(x) = was(y) => x = y
  OBVIOUS
<1> HIDE DEF was, n
<1>4. Numbered'
  <2>1. ASSUME NEW x \in 1..n
        PROVE  heap'[x].seq < next_seq /\ event_before(ev, heap'[x])
    BY <1>2 DEF HeapOK, Numbered, n
  <2>2. ASSUME NEW x \in 1..n, NEW y \in 1..n, heap'[x].seq = heap'[y].seq PROVE x = y
    <3>1. /\ was(x) \in 1..n /\ was(y) \in 1..n
          /\ heap[was(x)].seq = heap[was(y)].seq
      BY <1>2, <2>2
    <3>2. was(x) = was(y)
      BY <3>1 DEF HeapOK, Numbered, n
    <3> QED BY <1>3, <3>2
  <2>3. clock = ev.at /\ ev.seq < next_seq
    BY DEF HeapOK, Numbered
  <2> QED BY <1>1, <2>1, <2>2, <2>3 DEF Numbered
<1>5. \A x \in 1..n : heap'[x].port # 0 => heap'[x].born = heap'[x].to
  <2>1. ASSUME NEW x \in 1..n PROVE heap'[x].port # 0 => heap'[x].born = heap'[x].to
    <3>1. was(x) \in 1..n /\ heap'[x] = heap[was(x)]
      BY <1>2
    <3>2. heap[was(x)].port # 0 => heap[was(x)].born = heap[was(x)].to
      BY <3>1 DEF HeapOK, n
    <3> QED BY <3>1, <3>2
  <2> QED BY <2>1
<1>6. {Stamp(heap'[x]) : x \in 1..n} = {Stamp(heap[x]) : x \in 1..n}
  BY <1>2
<1> QED BY <1>1, <1>4, <1>5, <1>6 DEF n

\* A turn of a loop of the heap.
LEMMA HeapTurn ==
    ASSUME HeapOK, budget.events \in Nat, SiftUp \/ SiftDown
    PROVE  /\ HeapOK'
           /\ {Stamp(heap'[x]) : x \in 1..Len(heap')} = {Stamp(heap[x]) : x \in 1..Len(heap)}
<1> DEFINE n == Len(heap)
           k == sift.k
           m == Smallest(heap, k)
           p == k \div 2
<1>0. n \in Nat /\ heap \in Seq(SimEvent) /\ UNCHANGED <<next_seq, clock, ev, budget>>
  BY DEF HeapOK, SiftUp, SiftDown
<1>1. k \in 1..n /\ k \in Nat /\ k >= 1
  <2>1. sift.dir # "none"
    BY DEF SiftUp, SiftDown
  <2>2. sift # NoSift
    BY <2>1 DEF NoSift
  <2> QED BY <1>0, <2>2 DEF HeapOK
<1>2. CASE UNCHANGED heap /\ sift' = NoSift /\ Sorted(heap)
  <2>1. Ordered'
    <3>1. sift'.dir = "none"
      BY <1>2 DEF NoSift
    <3> QED BY <1>2, <3>1 DEF Ordered
  <2>2. Numbered'
    BY <1>0, <1>2 DEF HeapOK, Numbered
  <2> QED BY <1>0, <1>2, <2>1, <2>2 DEF HeapOK
<1>3. ASSUME NEW q \in 1..n, q # k, NEW d \in {"up", "down"}, heap' = Swap(heap, k, q), sift' = [dir |-> d, k |-> q],
             d = "up" => UpAt(heap', q), d = "down" => DownAt(heap', q)
      PROVE  /\ HeapOK'
             /\ {Stamp(heap'[x]) : x \in 1..Len(heap')} = {Stamp(heap[x]) : x \in 1..Len(heap)}
  <2>1. /\ heap' \in Seq(SimEvent) /\ Len(heap') = n /\ Numbered'
        /\ \A x \in 1..Len(heap') : heap'[x].port # 0 => heap'[x].born = heap'[x].to
        /\ {Stamp(heap'[x]) : x \in 1..Len(heap')} = {Stamp(heap[x]) : x \in 1..Len(heap)}
    BY <1>0, <1>1, <1>3, SwapKeeps
  <2>2. Ordered'
    <3>1. sift'.dir = d /\ sift'.k = q /\ sift' # NoSift
      BY <1>3 DEF NoSift
    <3> QED BY <1>3, <3>1 DEF Ordered
  <2>3. sift' \in [dir : {"up", "down"}, k : 1..Len(heap')]
    BY <1>3, <2>1
  <2> QED BY <1>0, <2>1, <2>2, <2>3 DEF HeapOK
<1>4. CASE SiftUp
  <2>1. UpAt(heap, k)
    BY <1>4 DEF HeapOK, Ordered, SiftUp
  <2>2. IF k > 1 /\ event_before(heap[k], heap[p]) THEN UpAt(Swap(heap, k, p), p) ELSE Sorted(heap)
    BY <1>0, <1>1, <2>1, UpTurn
  <2>3. IF k > 1 /\ event_before(heap[k], heap[p])
        THEN heap' = Swap(heap, k, p) /\ sift' = [dir |-> "up", k |-> p]
        ELSE sift' = NoSift /\ UNCHANGED heap
    BY <1>4 DEF SiftUp, Sifting
  <2>4. k > 1 => p \in 1..n /\ p # k
    BY <1>0, <1>1, Family
  <2> HIDE DEF k, p, m, n
  <2> QED BY <1>2, <1>3, <2>2, <2>3, <2>4
<1>5. CASE SiftDown
  <2>1. DownAt(heap, k)
    BY <1>5 DEF HeapOK, Ordered, SiftDown
  <2>2. IF m # k THEN DownAt(Swap(heap, k, m), m) ELSE Sorted(heap)
    BY <1>0, <1>1, <2>1, DownTurn
  <2>3. IF m # k THEN heap' = Swap(heap, k, m) /\ sift' = [dir |-> "down", k |-> m]
        ELSE sift' = NoSift /\ UNCHANGED heap
    BY <1>5 DEF SiftDown, Sifting
  <2>4. m # k => m \in 1..n
    BY <1>0, <1>1, SmallestIs
  <2> HIDE DEF k, p, m, n
  <2> QED BY <1>2, <1>3, <2>2, <2>3, <2>4
<1> QED BY <1>4, <1>5

\* heap_pop: the first event fires.  It comes before all that are left, and
\* only the children of the root can be out of order.
LEMMA HeapFires ==
    ASSUME HeapOK, sift = NoSift, Pop
    PROVE  /\ HeapOK'
           /\ ev' = heap[1] /\ 1 \in 1..Len(heap) /\ clock' = ev'.at /\ event_before(ev, ev')
           /\ LET all == {Stamp(heap[x]) : x \in 1..Len(heap)}
              IN  /\ {Stamp(heap'[x]) : x \in 1..Len(heap')} = all \ {Stamp(ev')}
                  /\ \A f \in all \ {Stamp(ev')} : event_before(Stamp(ev'), f)
<1> DEFINE n == Len(heap)
           top == [heap EXCEPT ![1] = Last(heap)]
<1>0. n \in Nat /\ heap \in Seq(SimEvent) /\ UNCHANGED <<next_seq, budget>> /\ heap # <<>>
  BY DEF HeapOK, Pop
<1>1. n >= 1 /\ 1 \in 1..n /\ n \in 1..n /\ Head(heap) = heap[1] /\ Last(heap) = heap[n]
  BY <1>0 DEF Last
<1>2. \A x \in 1..n : heap[x] \in SimEvent
  BY <1>0
<1>3. ev' = heap[1] /\ ev' \in SimEvent
  BY <1>1, <1>2 DEF Pop
<1>4. event_before(ev, ev')
  BY <1>1, <1>3 DEF HeapOK, Numbered
<1>5. clock' = ev'.at
  <2>1. ev.at \in Nat /\ ev.seq \in Nat /\ clock = ev.at /\ heap[1].at \in Nat
    BY <1>1, <1>2, EventIs DEF HeapOK, Numbered
  <2>2. heap[1].at >= clock
    BY <1>3, <1>4, <2>1 DEF event_before
  <2>3. clock' = IF heap[1].at > clock THEN heap[1].at ELSE clock
    BY <1>1 DEF Pop
  <2> QED BY <1>3, <2>1, <2>2, <2>3
<1>6. \A x \in 2..n : event_before(ev', heap[x])
  <2>1. ASSUME NEW x \in 2..n PROVE event_before(ev', heap[x])
    <3>1. x \in 1..n /\ x # 1
      BY <1>0
    <3>2. Sorted(heap)
      BY DEF HeapOK, Ordered
    <3>3. ~event_before(heap[x], heap[1])
      BY <1>0, <3>1, <3>2, RootLeast
    <3>4. heap[x].seq # heap[1].seq
      BY <1>1, <3>1 DEF HeapOK, Numbered
    <3> QED BY <1>1, <1>2, <1>3, <3>1, <3>3, <3>4, Order
  <2> QED BY <2>1
<1>7. /\ heap' \in Seq(SimEvent) /\ Len(heap') = n - 1
      /\ n > 1 => heap'[1] = heap[n]
      /\ \A x \in 2..(n - 1) : heap'[x] = heap[x]
  <2>1. CASE n = 1
    <3>1. heap' = <<>>
      BY <2>1 DEF Pop, heap_pop
    <3> QED BY <2>1, <3>1
  <2>2. CASE n > 1
    <3>1. /\ top \in Seq(SimEvent) /\ Len(top) = n /\ top[1] = heap[n]
          /\ \A x \in 2..n : top[x] = heap[x]
      BY <1>0, <1>1, <1>2
    <3> HIDE DEF top
    <3>2. heap' = SubSeq(top, 1, n - 1)
      BY <2>2, <3>1 DEF Pop, heap_pop, Front, top
    <3>3. n - 1 \in Nat /\ n - 1 <= n
      BY <1>0, <2>2
    <3> HIDE DEF n
    <3>4. /\ heap' \in Seq(SimEvent) /\ Len(heap') = n - 1
          /\ \A x \in 1..(n - 1) : heap'[x] = top[x]
      BY <3>1, <3>2, <3>3, <1>0
    <3>5. 1 \in 1..(n - 1) /\ \A x \in 2..(n - 1) : x \in 1..(n - 1) /\ x \in 2..n
      BY <1>0, <2>2
    <3> QED BY <3>1, <3>4, <3>5
  <2>3. n = 1 \/ n > 1
    <3>1. n \in Nat /\ n >= 1
      BY <1>0, <1>1
    <3> HIDE DEF n
    <3> QED BY <3>1
  <2> QED BY <2>1, <2>2, <2>3, Zenon
<1>8. n > 1 => sift' = [dir |-> "down", k |-> 1]
  BY <1>0 DEF Pop, heap_pop, Sifting
<1>9. n = 1 => sift' = NoSift
  BY DEF Pop, heap_pop
<1> DEFINE was(x) == IF x = 1 THEN n ELSE x
<1>10. \A x \in 1..(n - 1) : was(x) \in 2..n /\ heap'[x] = heap[was(x)]
  BY <1>0, <1>1, <1>7
<1>11. \A x \in 2..n : \E y \in 1..(n - 1) : was(y) = x
  <2>1. ASSUME NEW x \in 2..n PROVE \E y \in 1..(n - 1) : was(y) = x
    <3>1. CASE x = n
      <4>1. 1 \in 1..(n - 1) /\ was(1) = x
        BY <1>0, <3>1
      <4> QED BY <4>1
    <3>2. CASE x # n
      <4>1. x \in 1..(n - 1) /\ was(x) = x
        BY <1>0, <3>2
      <4> QED BY <4>1
    <3> QED BY <3>1, <3>2
  <2> QED BY <2>1
<1>12. \A x, y \in 1..(n - 1) : was(x) = was(y) => x = y
  BY <1>0
<1> HIDE DEF was, n, top
<1>13. Numbered'
  <2>1. ASSUME NEW x \in 1..(n - 1)
        PROVE  heap'[x].seq < next_seq /\ event_before(ev', heap'[x])
    <3>1. was(x) \in 2..n /\ was(x) \in 1..n /\ heap'[x] = heap[was(x)]
      BY <1>0, <1>10
    <3>2. heap[was(x)].seq < next_seq
      BY <3>1 DEF HeapOK, Numbered, n
    <3> QED BY <1>6, <3>1, <3>2
  <2>2. ASSUME NEW x \in 1..(n - 1), NEW y \in 1..(n - 1), heap'[x].seq = heap'[y].seq PROVE x = y
    <3>1. /\ was(x) \in 1..n /\ was(y) \in 1..n
          /\ heap[was(x)].seq = heap[was(y)].seq
      BY <1>0, <1>10, <2>2
    <3>2. was(x) = was(y)
      BY <3>1 DEF HeapOK, Numbered, n
    <3> QED BY <1>12, <3>2
  <2>3. ev'.seq < next_seq
    BY <1>1, <1>3 DEF HeapOK, Numbered, n
  <2> QED BY <1>0, <1>5, <1>7, <2>1, <2>2, <2>3 DEF Numbered
<1>14. Ordered'
  <2>1. CASE n = 1
    <3>1. Sorted(heap')
      BY <1>7, <2>1 DEF Sorted
    <3>2. sift'.dir = "none"
      BY <1>9, <2>1 DEF NoSift
    <3> QED BY <3>1, <3>2 DEF Ordered
  <2>2. CASE n > 1
    <3>1. sift'.dir = "down" /\ sift'.k = 1 /\ sift' # NoSift
      BY <1>8, <2>2 DEF NoSift
    <3>2. ASSUME NEW x \in 2..Len(heap'), x \div 2 # 1 PROVE InOrder(heap', x)
      <4>1. x \in 2..n /\ x \in 2..(n - 1) /\ x \div 2 \in 2..(n - 1)
        BY <1>0, <1>7, <3>2, Family
      <4>2. heap'[x] = heap[x] /\ heap'[x \div 2] = heap[x \div 2]
        BY <1>7, <4>1
      <4>3. InOrder(heap, x)
        BY <4>1 DEF HeapOK, Ordered, Sorted, n
      <4> QED BY <4>2, <4>3 DEF InOrder
    <3>3. Around(heap', 1)
      BY DEF Around
    <3> QED BY <3>1, <3>2, <3>3 DEF Ordered, DownAt
  <2> QED BY <1>0, <1>1, <2>1, <2>2
<1>15. \A x \in 1..(n - 1) : heap'[x].port # 0 => heap'[x].born = heap'[x].to
  <2>1. ASSUME NEW x \in 1..(n - 1) PROVE heap'[x].port # 0 => heap'[x].born = heap'[x].to
    <3>1. was(x) \in 1..n /\ heap'[x] = heap[was(x)]
      BY <1>0, <1>10
    <3>2. heap[was(x)].port # 0 => heap[was(x)].born = heap[was(x)].to
      BY <3>1 DEF HeapOK, n
    <3> QED BY <3>1, <3>2
  <2> QED BY <2>1
<1>16. HeapOK'
  <2>1. sift' \in [dir : {"up", "down"}, k : 1..Len(heap')] \union {NoSift}
    BY <1>0, <1>1, <1>7, <1>8, <1>9
  <2>2. Len(heap') < next_seq' /\ next_seq' \in 1..(budget'.events + 1)
    BY <1>0, <1>7 DEF HeapOK, n
  <2>3. clock' \in Nat
    BY <1>3, <1>5 DEF SimEvent
  <2> QED BY <1>3, <1>7, <1>13, <1>14, <1>15, <2>1, <2>2, <2>3 DEF HeapOK
<1>17. \A e \in SimEvent : Stamp(e).at = e.at /\ Stamp(e).seq = e.seq
  BY DEF Stamp
<1>18. \A x \in 2..n : event_before(Stamp(ev'), Stamp(heap[x])) /\ Stamp(heap[x]) # Stamp(ev')
  <2>1. ASSUME NEW x \in 2..n
        PROVE event_before(Stamp(ev'), Stamp(heap[x])) /\ Stamp(heap[x]) # Stamp(ev')
    <3>1. event_before(ev', heap[x]) /\ heap[x] \in SimEvent
      BY <1>0, <1>2, <1>6
    <3>2. event_before(Stamp(ev'), Stamp(heap[x]))
      BY <1>3, <1>17, <3>1 DEF event_before
    <3>3. ev'.at \in Nat /\ ev'.seq \in Nat
      BY <1>3 DEF SimEvent
    <3>4. ~event_before(Stamp(ev'), Stamp(ev'))
      BY <1>3, <1>17, <3>3 DEF event_before
    <3> QED BY <3>2, <3>4
  <2> QED BY <2>1
<1> DEFINE all == {Stamp(heap[x]) : x \in 1..n}
           rest == {Stamp(heap[x]) : x \in 2..n}
<1>19. all \ {Stamp(ev')} = rest
  <2>1. \A x \in 1..n : x = 1 \/ x \in 2..n
    BY <1>0
  <2>2. \A x \in 2..n : x \in 1..n
    BY <1>0
  <2> QED BY <1>3, <1>18, <2>1, <2>2
<1>20. {Stamp(heap'[x]) : x \in 1..Len(heap')} = rest
  <2>1. {Stamp(heap'[x]) : x \in 1..(n - 1)} = rest
    BY <1>10, <1>11
  <2> QED BY <1>7, <2>1
<1>21. \A f \in rest : event_before(Stamp(ev'), f)
  BY <1>18
<1> QED BY <1>1, <1>3, <1>4, <1>5, <1>16, <1>19, <1>20, <1>21 DEF n

\* The part of the invariant that is about the nodes, the listeners and where
\* the program is.
RestOK ==
    /\ ListTypeOK /\ Directory /\ budget \in Budgets
    /\ binds \subseteq [node : Nat, port : Ports, born : Nat]
    /\ IsFiniteSet(binds) /\ Cardinality(binds) <= BindMax
    /\ \A b, d \in binds : b.node = d.node /\ b.port = d.port => b = d
    /\ heard \in binds \union {NoBind}
    /\ where \in {"out", "loop", "call"}
    /\ cast \in [from : Nat, port : Ports, i : 1..(Len(data) + 1)] \union {NoCast}
    /\ \A x \in 1..Len(data) : data[x].born = data[x].id
    /\ \A b \in binds : b.born = b.node
    /\ OwnDatagrams /\ Placed

LEMMA CoreParts == CoreInv <=> HeapOK /\ RestOK
  BY DEF CoreInv, CoreTypeOK, HeapOK, RestOK, Born, OwnDatagrams

LEMMA CoreJoins ==
    ASSUME HeapOK', RestOK'
    PROVE  CoreInv'
  BY DEF CoreInv, CoreTypeOK, HeapOK, RestOK, Born, OwnDatagrams

\* context_add_node and context_remove_node, which nothing under way can see.
LEMMA ListCalls ==
    ASSUME CoreInv, (\E p \in Places : AddCall(p)) \/ (\E id \in DOMAIN by_id : RemoveCall(id))
    PROVE  CoreInv' /\ UNCHANGED coreVars
<1>0. HeapOK /\ RestOK /\ ListInv /\ data \in Seq(Node) /\ Len(data) \in Nat
  BY CoreParts DEF RestOK, ListInv, ListTypeOK
<1>1. UNCHANGED coreVars /\ cast = NoCast
  BY DEF AddCall, RemoveCall, Calling
<1>2. HeapOK'
  <2>1. UNCHANGED <<heap, next_seq, clock, ev, sift, budget>>
    BY <1>1 DEF coreVars, queue
  <2> QED BY <1>0, <2>1 DEF HeapOK, Numbered, Ordered
<1>3. ASSUME ListInv', \A x \in 1..Len(data') : data'[x].born = data'[x].id
      PROVE  RestOK'
  <2>1. UNCHANGED <<sift, cast, binds, where, ev, heard, budget>> /\ cast' = NoCast
    BY <1>1 DEF coreVars, queue
  <2>2. Placed' /\ OwnDatagrams'
    BY <1>0, <2>1 DEF RestOK, Placed, OwnDatagrams
  <2> QED BY <1>0, <1>3, <2>1, <2>2 DEF RestOK, ListInv
<1>4. ASSUME NEW p \in Places, AddCall(p) PROVE RestOK'
  <2> DEFINE new == [id |-> next_id, at |-> p, born |-> next_id]
  <2>1. ListInv' /\ data' = Append(data, new)
    BY <1>0, <1>4, ListAdds DEF AddCall, AddNode
  <2>2. new \in Node /\ new.born = new.id
    BY <1>0, NodeListAssumption DEF ListInv, ListTypeOK, Node
  <2> HIDE DEF new
  <2>3. ASSUME NEW x \in 1..Len(data') PROVE data'[x].born = data'[x].id
    <3>1. data'[x] = IF x <= Len(data) THEN data[x] ELSE new
      BY <1>0, <2>1, <2>2
    <3>2. x \in Nat /\ x >= 1
      OBVIOUS
    <3> QED BY <1>0, <2>2, <3>1, <3>2 DEF RestOK
  <2> QED BY <1>3, <2>1, <2>3
<1>5. ASSUME NEW id \in DOMAIN by_id, RemoveCall(id) PROVE RestOK'
  <2> DEFINE i == by_id[id]
             top == Len(data)
             moved == [data EXCEPT ![i] = data[top]]
  <2>1. ListInv' /\ data' = SubSeq(moved, 1, top - 1) /\ Live(id)
    BY <1>0, <1>5, ListRemoves DEF RemoveCall, RemoveNode
  <2>2. i \in 1..top /\ top \in Nat /\ top \in 1..top
    BY <1>0, <2>1 DEF ListInv, Directory, Live
  <2>3. moved \in Seq(Node) /\ Len(moved) = top
        /\ \A k \in 1..top : moved[k] = IF k = i THEN data[top] ELSE data[k]
    BY <1>0, <2>2
  <2>4. /\ Len(data') = top - 1
        /\ \A k \in 1..(top - 1) : data'[k] = IF k = i THEN data[top] ELSE data[k]
    BY <2>1, <2>2, <2>3
  <2> HIDE DEF i, top, moved
  <2>5. \A k \in 1..top : data[k].born = data[k].id
    BY <1>0 DEF RestOK, top
  <2>6. ASSUME NEW x \in 1..Len(data') PROVE data'[x].born = data'[x].id
    <3>1. x \in 1..(top - 1) /\ x \in 1..top
      BY <2>2, <2>4
    <3> QED BY <2>2, <2>4, <2>5, <3>1
  <2> QED BY <1>3, <2>1, <2>6
<1> QED BY <1>1, <1>2, <1>4, <1>5, CoreJoins

\* Calls that may schedule events, and the turns of udp_mcast.
LEMMA PutCalls ==
    ASSUME CoreInv,
           \/ \E t \in 0..MaxTime : Schedule(t)
           \/ \E from, to \in DOMAIN by_id :
                  ContextSend(from, to) \/ \E port \in Ports : UdpSend(from, to, port)
           \/ McastHop
    PROVE  CoreInv'
<1>0. HeapOK /\ RestOK /\ budget.events \in Nat
  BY CoreParts, HeapIs
<1>1. (UNCHANGED queue \/ \E e \in SimEvent : Pushes(e)) /\ UNCHANGED Others
  BY CallsPut
<1>2. HeapOK'
  <2>1. UNCHANGED <<clock, ev, budget>>
    BY <1>1 DEF Others
  <2>2. CASE UNCHANGED queue
    <3>1. UNCHANGED <<heap, next_seq, sift>>
      BY <2>2 DEF queue
    <3> QED BY <1>0, <2>1, <3>1 DEF HeapOK, Numbered, Ordered
  <2> QED BY <1>0, <1>1, <2>1, <2>2, HeapPut
<1>3. UNCHANGED <<data, by_id, next_id, binds, where, ev, heard, budget>>
  BY <1>1 DEF Others, listVars
<1>4. where # "loop" /\ Len(data) \in Nat
  BY <1>0 DEF RestOK, Placed, ListTypeOK, Schedule, ContextSend, UdpSend, McastHop, Calling
<1>5. /\ cast' \in [from : Nat, port : Ports, i : 1..(Len(data) + 1)] \union {NoCast}
      /\ cast' # NoCast => Live(cast'.from)
  <2>1. CASE UNCHANGED cast
    BY <1>0, <2>1 DEF RestOK, Placed
  <2>2. CASE McastHop
    <3>1. /\ cast \in [from : Nat, port : Ports, i : 1..(Len(data) + 1)] /\ Live(cast.from)
          /\ cast' = NoCast \/ (cast.i <= Len(data) /\ cast' = [cast EXCEPT !.i = @ + 1])
      BY <1>0, <1>4, <2>2 DEF RestOK, Placed, McastHop
    <3> QED BY <1>4, <3>1
  <2> QED BY <2>1, <2>2 DEF Schedule, ContextSend, UdpSend
<1>6. RestOK'
  <2>1. Placed'
    BY <1>3, <1>4, <1>5 DEF Placed, Live
  <2>2. OwnDatagrams'
    BY <1>0, <1>3 DEF RestOK, OwnDatagrams
  <2>3. ListTypeOK' /\ Directory'
    BY <1>0, <1>3 DEF RestOK, ListTypeOK, Directory
  <2> QED BY <1>0, <1>3, <1>5, <2>1, <2>2, <2>3 DEF RestOK
<1> QED BY <1>2, <1>6, CoreJoins

\* The turns of the heap's loops.
LEMMA TurnSteps ==
    ASSUME CoreInv, SiftUp \/ SiftDown
    PROVE  CoreInv'
<1>0. HeapOK /\ RestOK /\ budget.events \in Nat
  BY CoreParts, HeapIs
<1>1. HeapOK'
  BY <1>0, HeapTurn
<1>2. UNCHANGED <<data, by_id, next_id, cast, binds, where, ev, heard, budget>>
  BY DEF SiftUp, SiftDown, listVars
<1>3. where # "loop"
  <2>1. sift.dir # "none"
    BY DEF SiftUp, SiftDown
  <2> QED BY <1>0, <2>1 DEF RestOK, Placed, NoSift
<1>4. RestOK'
  <2>1. Placed'
    BY <1>0, <1>2, <1>3 DEF RestOK, Placed, Live
  <2>2. OwnDatagrams'
    BY <1>0, <1>2 DEF RestOK, OwnDatagrams
  <2>3. ListTypeOK' /\ Directory'
    BY <1>0, <1>2 DEF RestOK, ListTypeOK, Directory
  <2> QED BY <1>0, <1>2, <2>1, <2>2, <2>3 DEF RestOK
<1> QED BY <1>1, <1>4, CoreJoins

\* Calls that leave the events as they are.
LEMMA QuietCalls ==
    ASSUME CoreInv,
           \/ \E from \in DOMAIN by_id, port \in Ports : Mcast(from, port)
           \/ \E id \in DOMAIN by_id, port \in Ports : Bind(id, port)
           \/ Run \/ Return \/ Drained
    PROVE  CoreInv' /\ Still
<1>0. HeapOK /\ RestOK /\ ListTypeOK /\ Len(data) \in Nat
  BY CoreParts DEF RestOK, ListTypeOK
<1>1. UNCHANGED <<data, by_id, next_id, heap, next_seq, sift, clock, ev, budget>> /\ Still
  BY DEF Mcast, Bind, Run, Return, Drained, listVars, queue, Still
<1>2. HeapOK'
  BY <1>0, <1>1 DEF HeapOK, Numbered, Ordered
<1>3. ListTypeOK' /\ Directory'
  BY <1>0, <1>1 DEF RestOK, ListTypeOK, Directory
<1>4. CASE Run \/ Return \/ Drained
  <2>1. /\ UNCHANGED <<cast, binds>> /\ where' \in {"loop", "out"}
        /\ heard' \in {heard, NoBind}
        /\ where' = "loop" => sift = NoSift /\ cast = NoCast
    BY <1>4 DEF Run, Return, Drained, Calling
  <2>2. Placed'
    BY <1>0, <1>1, <2>1 DEF RestOK, Placed, Live
  <2>3. OwnDatagrams'
    BY <2>1 DEF OwnDatagrams
  <2>4. RestOK'
    BY <1>0, <1>1, <1>3, <2>1, <2>2, <2>3 DEF RestOK
  <2> QED BY <1>1, <1>2, <2>4, CoreJoins
<1>5. ASSUME NEW from \in DOMAIN by_id, NEW port \in Ports, Mcast(from, port)
      PROVE  CoreInv' /\ Still
  <2>1. /\ UNCHANGED <<binds, where, heard>> /\ Live(from) /\ where # "loop"
        /\ cast' = [from |-> from, port |-> port, i |-> 1]
    BY <1>5 DEF Mcast, Calling
  <2>2. cast' \in [from : Nat, port : Ports, i : 1..(Len(data) + 1)] /\ cast'.from = from
    BY <1>0, <2>1 DEF ListTypeOK
  <2>3. Placed'
    BY <1>1, <2>1, <2>2 DEF Placed, Live
  <2>4. OwnDatagrams'
    BY <1>0, <1>1, <2>1 DEF RestOK, OwnDatagrams
  <2>5. RestOK'
    BY <1>0, <1>1, <1>3, <2>1, <2>2, <2>3, <2>4 DEF RestOK
  <2> QED BY <1>1, <1>2, <2>5, CoreJoins
<1>6. ASSUME NEW id \in DOMAIN by_id, NEW port \in Ports, Bind(id, port)
      PROVE  CoreInv' /\ Still
  <2> DEFINE b == [node |-> id, port |-> port, born |-> NodeOf(id).born]
  <2>1. /\ UNCHANGED <<cast, where, heard>> /\ Live(id)
        /\ \A d \in binds : ~(d.node = id /\ d.port = port)
        /\ Cardinality(binds) < BindMax
        /\ binds' = binds \union {b}
    BY <1>6 DEF Bind
  <2>2. /\ b \in [node : Nat, port : Ports, born : Nat]
        /\ b.born = b.node /\ b.node = id /\ b.port = port
    BY <2>1, Found
  <2> HIDE DEF b
  <2>3. IsFiniteSet(binds') /\ Cardinality(binds') <= BindMax
    <3>1. /\ IsFiniteSet(binds') /\ Cardinality(binds) \in Nat
          /\ Cardinality(binds') = IF b \in binds THEN Cardinality(binds) ELSE Cardinality(binds) + 1
      BY <1>0, <2>1, FS_AddElement, FS_CardinalityType DEF RestOK
    <3> QED BY <2>1, <3>1, SimCoreAssumption
  <2>4. \A c, d \in binds' : c.node = d.node /\ c.port = d.port => c = d
    BY <1>0, <2>1, <2>2 DEF RestOK
  <2>5. Placed'
    BY <1>0, <1>1, <2>1 DEF RestOK, Placed, Live
  <2>6. OwnDatagrams'
    BY <1>0, <1>1, <2>1 DEF RestOK, OwnDatagrams
  <2>7. /\ binds' \subseteq [node : Nat, port : Ports, born : Nat]
        /\ heard' \in binds' \union {NoBind}
        /\ \A c \in binds' : c.born = c.node
    BY <1>0, <2>1, <2>2 DEF RestOK
  <2>8. RestOK'
    BY <1>0, <1>1, <1>3, <2>1, <2>3, <2>4, <2>5, <2>6, <2>7 DEF RestOK
  <2> QED BY <1>1, <1>2, <2>8, CoreJoins
<1> QED BY <1>4, <1>5, <1>6

\* An event fires, and its datagram goes to the listener of its node.
LEMMA Fires ==
    ASSUME CoreInv, Pop
    PROVE  CoreInv'
<1>0. HeapOK /\ RestOK /\ sift = NoSift /\ cast = NoCast
  BY CoreParts DEF CoreInv, Placed, Pop
<1>1. HeapOK' /\ ev' = heap[1] /\ 1 \in 1..Len(heap)
  BY <1>0, HeapFires
<1>2. /\ UNCHANGED <<data, by_id, next_id, cast, binds, budget>> /\ where' = "call"
  BY DEF Pop, listVars
<1>3. heard' # NoBind => heard' \in binds /\ heard'.node = ev'.to /\ heard'.port = ev'.port
  BY DEF Pop
<1>4. OwnDatagrams'
  <2>1. SUFFICES ASSUME heard' # NoBind PROVE heard'.born = ev'.born
    BY DEF OwnDatagrams
  <2>2. heard' \in binds /\ heard'.node = ev'.to /\ heard'.port = ev'.port
    BY <1>3, <2>1
  <2>3. heard'.port \in Ports /\ heard'.born = heard'.node
    BY <1>0, <2>2 DEF RestOK
  <2>4. ev'.port # 0
    BY <2>2, <2>3, SimCoreAssumption
  <2>5. ev'.born = ev'.to
    BY <1>0, <1>1, <2>4 DEF HeapOK
  <2> QED BY <2>2, <2>3, <2>5
<1>5. RestOK'
  <2>1. Placed'
    BY <1>0, <1>2 DEF Placed
  <2>2. ListTypeOK' /\ Directory'
    BY <1>0, <1>2 DEF RestOK, ListTypeOK, Directory
  <2>3. heard' \in binds' \union {NoBind}
    BY <1>2, <1>3
  <2> QED BY <1>0, <1>2, <1>4, <2>1, <2>2, <2>3 DEF RestOK
<1> QED BY <1>1, <1>5, CoreJoins

LEMMA CoreStart == CoreInit => CoreInv
<1>1. SUFFICES ASSUME CoreInit PROVE CoreInv
  OBVIOUS
<1>2. budget \in Budgets /\ budget.events \in Nat
  BY <1>1, SimCoreAssumption DEF CoreInit
<1>3. HeapOK
  <2>1. Numbered
    BY <1>1 DEF CoreInit, Numbered, NoEvent
  <2>2. Ordered
    BY <1>1 DEF CoreInit, Ordered, NoSift, Sorted
  <2> QED BY <1>1, <1>2, <2>1, <2>2 DEF CoreInit, HeapOK
<1>4. RestOK
  <2>1. ListTypeOK /\ Directory /\ data = <<>>
    BY <1>1, ListStart DEF CoreInit, ListInv, ListInit
  <2>2. IsFiniteSet({}) /\ Cardinality({}) = 0
    BY FS_EmptySet
  <2>3. Placed /\ OwnDatagrams
    BY <1>1 DEF CoreInit, Placed, OwnDatagrams
  <2> QED BY <1>1, <1>2, <2>1, <2>2, <2>3, SimCoreAssumption DEF CoreInit, RestOK
<1> QED BY <1>3, <1>4, CoreParts

LEMMA CoreKeeps ==
    ASSUME CoreInv, [CoreNext]_simVars
    PROVE  CoreInv'
<1>1. CASE UNCHANGED simVars
  <2>1. /\ UNCHANGED <<data, by_id, next_id, heap, next_seq, sift, clock, cast, binds>>
        /\ UNCHANGED <<where, ev, heard, budget>>
    BY <1>1 DEF simVars, listVars, coreVars, queue
  <2>2. HeapOK'
    BY <2>1, CoreParts DEF HeapOK, Numbered, Ordered
  <2>3. Directory' /\ ListTypeOK' /\ Placed' /\ OwnDatagrams'
    BY <2>1, CoreParts DEF RestOK, ListTypeOK, Directory, Placed, OwnDatagrams, Live
  <2>4. RestOK'
    BY <2>1, <2>3, CoreParts DEF RestOK
  <2> QED BY <2>2, <2>4, CoreJoins
<1>2. CASE CoreNext
  BY <1>2, ListCalls, PutCalls, TurnSteps, QuietCalls, Fires DEF CoreNext
<1> QED BY <1>1, <1>2

\* The state of the simulation core is of its types in all behaviours
\* (Context, MinHeap, udp_binds): no more listeners than UDP_BIND_MAX, one for
\* a node and a port, and no index of a loop beyond its array.
THEOREM CoreTypes == CoreSpec => []CoreTypeOK
<1>1. CoreInv => CoreTypeOK
  BY DEF CoreInv
<1> QED BY <1>1, CoreStart, CoreKeeps, PTL DEF CoreSpec

\* The directory and the array of nodes agree in the running core, whatever
\* handlers add and remove (context_add_node, context_remove_node).
THEOREM DirectoryAgrees == CoreSpec => []Directory
<1>1. CoreInv => Directory
  BY DEF CoreInv
<1> QED BY <1>1, CoreStart, CoreKeeps, PTL DEF CoreSpec

\* A datagram is heard by a listener of the node it was sent to, or by none
\* (udp_deliver): binds outlive their node, but no later node has its id.
THEOREM DatagramsAreOwn == CoreSpec => []OwnDatagrams
<1>1. CoreInv => OwnDatagrams
  BY DEF CoreInv, Born, OwnDatagrams
<1> QED BY <1>1, CoreStart, CoreKeeps, PTL DEF CoreSpec

\* What a step of the core is to the queue of events.
LEMMA QueueStep ==
    ASSUME CoreInv, [CoreNext]_simVars
    PROVE  [Events!QueueNext]_Events!queueVars
<1> DEFINE P == {Stamp(heap[k]) : k \in 1..Len(heap)}
<1>0. HeapOK /\ budget.events \in Nat /\ Len(heap) \in Nat /\ next_seq \in Nat
  BY HeapIs DEF HeapOK
<1>1. CASE UNCHANGED <<heap, next_seq, clock, ev>>
  BY <1>1 DEF Events!queueVars
<1>2. ASSUME SiftUp \/ SiftDown PROVE [Events!QueueNext]_Events!queueVars
  <2>1. P' = P
    BY <1>0, <1>2, HeapTurn
  <2>2. UNCHANGED <<next_seq, clock, ev>>
    BY <1>2 DEF SiftUp, SiftDown
  <2> QED BY <2>1, <2>2 DEF Events!queueVars
<1>3. ASSUME NEW e \in SimEvent, Pushes(e), UNCHANGED <<clock, ev>>
      PROVE  Events!QueueNext
  <2> DEFINE n == Len(heap)
  <2>1. /\ n \in Nat /\ Len(heap') = n + 1 /\ heap'[n + 1] = e
        /\ \A x \in 1..n : heap'[x] = heap[x]
    BY <1>0, <1>3 DEF HeapOK, Pushes
  <2> HIDE DEF n
  <2>2. P' = P \union {Stamp(e)}
    <3>1. P' = {Stamp(heap'[k]) : k \in 1..(n + 1)} /\ P = {Stamp(heap[k]) : k \in 1..n}
      BY <2>1 DEF n
    <3>2. \A k \in 1..(n + 1) : k \in 1..n \/ k = n + 1
      BY <2>1
    <3>3. \A k \in 1..n : k \in 1..(n + 1)
      BY <2>1
    <3>4. n + 1 \in 1..(n + 1)
      BY <2>1
    <3> HIDE DEF P
    <3> QED BY <2>1, <3>1, <3>2, <3>3, <3>4
  <2>3. P \subseteq Events!Event /\ Stamp(e) \in Events!Event
    <3>1. \A d \in SimEvent : Stamp(d) \in Events!Event
      BY DEF SimEvent, Stamp, Events!Event
    <3>2. \A k \in 1..Len(heap) : heap[k] \in SimEvent
      BY <1>0 DEF HeapOK
    <3> QED BY <3>1, <3>2
  <2>4. /\ Stamp(e).at >= clock /\ Stamp(e).seq = next_seq
        /\ next_seq' = next_seq + 1 /\ next_seq < next_seq'
    BY <1>0, <1>3 DEF Pushes, Stamp
  <2>5. Stamp(ev)' = Stamp(ev)
    BY <1>3
  <2> HIDE DEF P
  <2>6. \A f \in P' \ P : f = Stamp(e)
    BY <2>2
  <2>7. P \subseteq P' /\ P' \subseteq Events!Event
    BY <2>2, <2>3
  <2>8. next_seq' \in Nat /\ next_seq <= next_seq'
    BY <1>0, <2>4
  <2>9. \A f \in P' \ P : f.at >= clock /\ next_seq <= f.seq /\ f.seq < next_seq'
    BY <1>0, <2>4, <2>6
  <2>10. Events!Put
    BY <1>3, <2>5, <2>7, <2>8, <2>9 DEF Events!Put, P
  <2> QED BY <2>10 DEF Events!QueueNext
<1>4. ASSUME Pop PROVE Events!QueueNext
  <2> DEFINE e == Stamp(ev')
  <2>1. sift = NoSift
    BY <1>4 DEF CoreInv, Placed, Pop
  <2>2. /\ ev' = heap[1] /\ 1 \in 1..Len(heap) /\ clock' = ev'.at
        /\ P' = P \ {e}
        /\ \A f \in P \ {e} : event_before(e, f)
    BY <1>0, <1>4, <2>1, HeapFires
  <2>3. e \in P /\ clock' = e.at /\ UNCHANGED next_seq
    BY <1>4, <2>2 DEF Stamp, Pop
  <2>4. \A f \in P \ {e} : Events!Before(e, f)
    BY <2>2 DEF event_before, Events!Before
  <2> HIDE DEF P
  <2>5. Events!Fire
    BY <2>2, <2>3, <2>4 DEF Events!Fire, P
  <2> QED BY <2>5 DEF Events!QueueNext
<1>5. CASE UNCHANGED simVars
  <2>1. UNCHANGED <<heap, next_seq, clock, ev>>
    BY <1>5 DEF simVars, coreVars, queue
  <2> QED BY <1>1, <2>1
<1>6. CASE CoreNext
  <2>1. CASE (\E p \in Places : AddCall(p)) \/ (\E id \in DOMAIN by_id : RemoveCall(id))
    <3>1. UNCHANGED <<heap, next_seq, clock, ev>>
      BY <2>1, ListCalls DEF coreVars, queue
    <3> QED BY <1>1, <3>1
  <2>2. CASE \/ \E t \in 0..MaxTime : Schedule(t)
             \/ \E from, to \in DOMAIN by_id :
                    ContextSend(from, to) \/ \E port \in Ports : UdpSend(from, to, port)
             \/ McastHop
    <3>1. (UNCHANGED queue \/ \E e \in SimEvent : Pushes(e)) /\ UNCHANGED <<clock, ev>>
      BY <2>2, CallsPut DEF Others
    <3>2. CASE UNCHANGED queue
      <4>1. UNCHANGED <<heap, next_seq, clock, ev>>
        BY <3>1, <3>2 DEF queue
      <4> QED BY <1>1, <4>1
    <3> QED BY <1>3, <3>1, <3>2
  <2>3. CASE \/ \E from \in DOMAIN by_id, port \in Ports : Mcast(from, port)
             \/ \E id \in DOMAIN by_id, port \in Ports : Bind(id, port)
             \/ Run \/ Return \/ Drained
    <3>1. UNCHANGED <<heap, next_seq, clock, ev>>
      BY <2>3, QuietCalls DEF Still, queue
    <3> QED BY <1>1, <3>1
  <2> QED BY <1>2, <1>4, <1>6, <2>1, <2>2, <2>3 DEF CoreNext
<1> QED BY <1>5, <1>6

\* The array with its loops (heap.c) is the queue of events: what context_run
\* pops is the least of all that is pending, and nothing is lost or doubled.
THEOREM ImplementsQueue == CoreSpec => QueueSpec
<1>1. CoreInit => Events!QueueInit
  <2>1. ASSUME CoreInit PROVE Events!QueueInit
    <3>1. heap = <<>> /\ clock = 0 /\ next_seq = 1 /\ ev = NoEvent
      BY <2>1 DEF CoreInit
    <3>2. {Stamp(heap[k]) : k \in 1..Len(heap)} = {}
      BY <3>1
    <3>3. Stamp(ev) = [at |-> 0, seq |-> 0]
      BY <3>1 DEF Stamp, NoEvent
    <3> QED BY <3>1, <3>2, <3>3 DEF Events!QueueInit
  <2> QED BY <2>1
<1> QED BY <1>1, CoreStart, CoreKeeps, QueueStep, PTL DEF CoreSpec, QueueSpec, Events!QueueSpec

\* Time does not go back, and events fire in the order of time and number,
\* those that handlers have scheduled in between included (context_run).
THEOREM OrderOfEvents == CoreSpec => Events!FiresInOrder
<1>1. ASSUME CoreInv, [CoreNext]_simVars
      PROVE  [/\ clock <= clock'
              /\ Stamp(ev)' # Stamp(ev) => Events!Before(Stamp(ev), Stamp(ev)')]_Events!queueVars
  <2>0. HeapOK /\ clock \in Nat
    BY <1>1, HeapIs DEF HeapOK
  <2>1. CASE UNCHANGED <<clock, ev>>
    BY <2>0, <2>1
  <2>2. CASE Pop
    <3>1. sift = NoSift
      BY <1>1, <2>2 DEF CoreInv, Placed, Pop
    <3>2. clock' = ev'.at /\ event_before(ev, ev') /\ ev' = heap[1] /\ 1 \in 1..Len(heap)
      BY <2>0, <2>2, <3>1, HeapFires
    <3>3. Events!Before(Stamp(ev), Stamp(ev)')
      BY <3>2 DEF event_before, Stamp, Events!Before
    <3>4. ev.at \in Nat /\ ev'.at \in Nat /\ clock = ev.at
      BY <2>0, <3>2, EventIs DEF HeapOK, Numbered
    <3>5. clock <= clock'
      BY <3>2, <3>4 DEF event_before
    <3> QED BY <3>3, <3>5
  <2>3. UNCHANGED <<clock, ev>> \/ Pop
    <3>1. UNCHANGED simVars => UNCHANGED <<clock, ev>>
      BY DEF simVars, coreVars
    <3>2. CoreNext => UNCHANGED <<clock, ev>> \/ Pop
      BY DEF CoreNext, AddCall, RemoveCall, Schedule, ContextSend, UdpSend, Mcast, Bind,
             SiftUp, SiftDown, McastHop, Run, Return, Drained, coreVars
    <3> QED BY <1>1, <3>1, <3>2
  <2> QED BY <2>1, <2>2, <2>3
<1> QED BY <1>1, CoreStart, CoreKeeps, PTL DEF CoreSpec, Events!FiresInOrder

-----------------------------------------------------------------------------
(* The benchmark step.                                                     *)

\* A step past the lint is the one that the linted mapping stands for.
Known ==
    /\ pc \in {"lint", "begin", "climb", "issue", "scan", "over"}
    /\ verdict # "none" <=> pc = "over"
    /\ Linted => val_bench(case.doc, F) /\ s = ExStep(case.doc, F)

\* The rate of a ladder's i-th step, and the stop that a report meets, of the
\* ramp block r.
RateOf(r, i) == Min({r.start_rate + (i - 1) * r.step_rate, r.max_rate})
StopOf(r, m) ==
    IF Has(r, "loss_pct") /\ LossPct(m) > r.loss_pct THEN "loss"
    ELSE IF Has(r, "p99_ms") /\ m.p99 > r.p99_ms THEN "p99"
    ELSE "none"

\* A sequence of anything.
IsSeq(q) == q \in Seq({q[i] : i \in DOMAIN q})

Shapes == IsSeq(stats) /\ IsSeq(pub) /\ step \in Nat /\ tab \in Nat

Running == pc \in {"climb", "issue", "scan"}

\* Where a ladder stands: how many steps it has measured.
Climbing ==
    /\ pc \in {"lint", "begin"} => step = 0 /\ stats = <<>> /\ tab = 0 /\ ceiling = 0
    /\ Running /\ s.ramp =>
           /\ pc = "climb" => step < s.r.max_steps /\ Len(stats) = step
           /\ pc # "climb" => step \in 1..s.r.max_steps /\ Len(stats) = step - 1

\* Each report of a ladder has its rate; all but the last have met their stops
\* and stayed below the highest rate.
Passed ==
    Linted /\ s.ramp =>
        /\ \A i \in 1..Len(stats) : stats[i].rate = RateOf(s.r, i)
        /\ \A i \in 1..Len(stats) : i < Len(stats) \/ Running =>
               stats[i].rate < s.r.max_rate /\ StopOf(s.r, stats[i]) = "none"

\* The ceiling is that of the last report that has met its stops.
Peaked ==
    Linted /\ s.ramp =>
        \/ stats = <<>> /\ ceiling = 0
        \/ /\ Len(stats) > 0 /\ StopOf(s.r, stats[Len(stats)]) = "none"
           /\ ceiling = stats[Len(stats)].rate
        \/ /\ Len(stats) > 0 /\ StopOf(s.r, stats[Len(stats)]) # "none"
           /\ ceiling = IF Len(stats) = 1 THEN 0 ELSE stats[Len(stats) - 1].rate
           /\ pc = "over" /\ reason \in {"loss", "p99"}

\* The highest quota of a step, and what the table holds at most of the quotas
\* of the steps begun.
Quota(r) == r.max_rate * r.step_duration_s
Quotas ==
    Running /\ s.ramp /\ Submits =>
        /\ pc = "climb" => tab <= step * Quota(s.r)
        /\ pc # "climb" => /\ tab <= (step - 1) * Quota(s.r) + Len(pub)
                           /\ Len(pub) <= Quota(s.r)

\* What BackstopsIdle says of the verdict.
Idle == Linted /\ Paired => verdict \in {"none", "ok", "sut"}

-----------------------------------------------------------------------------
(* What the lint promises of a step.                                       *)

\* The numbers of a ramp block that passes the lint.
LEMMA LintedRamp ==
    ASSUME NEW d, NEW f, val_bench(d, f), ExStep(d, f).ramp
    PROVE  LET e == ExStep(d, f)
           IN  /\ RampNumbers(e.r)
               /\ CanSubmit(e.from) =>
                      e.r.max_steps * e.r.max_rate * e.r.step_duration_s <= MaxWl
<1> DEFINE e == ExStep(d, f)
<1>1. Has(d, "ramp") /\ e.r = d.ramp
  BY DEF ExStep, Val
<1>2. CASE AnyOf(d, {"send", "expect"})
  <2>1. Has(d, "send") /\ e.from = SendKind(d.send.via)
    BY <1>2 DEF val_bench, val_bench_generic, AllOf, ExStep, Has
  <2>2. val_ramp(d.ramp, FamilyCap(d.send.via = "workload-submit"))
    BY <1>1, <1>2 DEF val_bench, val_bench_generic, RampBlock
  <2>3. CanSubmit(e.from) => FamilyCap(d.send.via = "workload-submit") = ConcCap
    BY <2>1 DEF CanSubmit, SendKind, FamilyCap
  <2> QED BY <1>1, <2>2, <2>3 DEF val_ramp
<1>3. CASE ~AnyOf(d, {"send", "expect"})
  <2>1. val_ramp(d.ramp, FamilyCap(AnyOf(d, ConcKeys)))
    BY <1>1, <1>3 DEF val_bench, PlainRamp, RampBlock
  <2>2. CASE AnyOf(d, WeldKeys)
    <3>1. ~CanSubmit(e.from)
      BY <1>3, <2>2
         DEF val_bench, PlainFrom, AllOf, AnyOf, Has, Val, ExStep, CanPub, CanSubmit
    <3> QED BY <1>1, <2>1, <3>1 DEF val_ramp
  <2>3. CASE ~AnyOf(d, WeldKeys)
    <3>1. AnyOf(d, ConcKeys)
      BY <1>3, <2>3 DEF val_bench, PlainNode, AllOf, AnyOf, ConcKeys
    <3> QED BY <1>1, <2>1, <3>1 DEF val_ramp, FamilyCap
  <2> QED BY <2>2, <2>3
<1> QED BY <1>2, <1>3

\* A ramp that passes the lint misses no verb, unless a payload is expected in
\* a journal or a scrape of another system.
LEMMA LintedVerbs ==
    ASSUME Linted, Known, Paired
    PROVE  Missing = "none"
<1> DEFINE d == case.doc
<1>1. val_bench(d, F) /\ s = ExStep(d, F)
  BY DEF Known
<1>2. CASE AnyOf(d, {"send", "expect"})
  <2>1. /\ Has(d, "send") /\ Has(d, "expect") /\ Echo(d, F)
        /\ d.send.via \in Sends /\ d.expect.via \in Expects
    BY <1>1, <1>2 DEF val_bench, val_bench_generic, AllOf, Has, Send, SendKeys, ExpectKeys
  <2>2. /\ s.gen /\ s.from = SendKind(d.send.via) /\ s.expect = d.expect.via
        /\ s.on = ExpectKind(d.expect.via, F)
        /\ s.echo = Has(d, "echo")
        /\ s.echo => s.relay = EpKind(F, d.echo.node)
    BY <1>1, <2>1 DEF ExStep
  <2>3. s.echo => CanRelay(s.relay)
    BY <2>1, <2>2 DEF Echo
  <2>4. ~Submits => CanObserve(s.on)
    <3>1. SUFFICES ASSUME ~Submits PROVE CanObserve(s.on)
      OBVIOUS
    <3>2. CASE d.expect.via = "prometheus-scrape"
      BY <2>1, <2>2, <3>1, <3>2
         DEF Paired, ExpectKind, SendKind, Submits, CanSubmit, CanObserve, Sends
    <3>3. CASE d.expect.via # "prometheus-scrape"
      BY <2>1, <2>2, <3>1, <3>3
         DEF Paired, generic_miss, ExpectKind, CanObserve, Expects
    <3> QED BY <3>2, <3>3
  <2> QED BY <2>3, <2>4 DEF Missing
<1>3. CASE ~AnyOf(d, {"send", "expect"})
  <2>1. ~Has(d, "send")
    BY <1>3 DEF AnyOf, Has
  <2>2. CASE AnyOf(d, WeldKeys)
    <3>1. Has(d, "on") /\ PlainOn(d, F) /\ Echo(d, F)
      BY <1>1, <1>3, <2>2 DEF val_bench, PlainFrom, PlainEcho, AllOf, Has
    <3>2. /\ s.on = EpKind(F, d.on) /\ s.echo = Has(d, "echo")
          /\ s.echo => s.relay = EpKind(F, d.echo.node)
      BY <1>1, <2>1, <3>1 DEF ExStep
    <3> QED BY <3>1, <3>2 DEF Missing, PlainOn, Echo
  <2>3. CASE ~AnyOf(d, WeldKeys)
    <3>1. /\ Has(d, "node") /\ ~Has(d, "from")
          /\ CanSubmit(EpKind(F, d.node))
      BY <1>1, <1>3, <2>3 DEF val_bench, PlainNode, AllOf, AnyOf, Has, WeldKeys
    <3>2. s.from = EpKind(F, d.node)
      BY <1>1, <2>1, <3>1 DEF ExStep, Val
    <3> QED BY <3>1, <3>2 DEF Missing, Submits
  <2> QED BY <2>2, <2>3
<1> QED BY <1>2, <1>3

-----------------------------------------------------------------------------
(* The relay.                                                              *)

\* The relay is up exactly while an echoing step runs, for any file.
THEOREM RelayIsHeld == Spec => []RelayHeld
<1>1. Init => RelayHeld
  BY DEF Init, RelayHeld
<1>2. ASSUME RelayHeld, [Next]_vars PROVE RelayHeld'
  <2>1. CASE UNCHANGED vars
    BY <1>2, <2>1 DEF RelayHeld, vars, input, Submits
  <2>2. CASE Lint
    BY <1>2, <2>2 DEF RelayHeld, Lint, End
  <2>3. CASE Begin
    BY <1>2, <2>3 DEF RelayHeld, Begin, Submits, input
  <2>4. CASE BeginFails
    BY <1>2, <2>4 DEF RelayHeld, BeginFails, End, input
  <2>5. CASE Climb
    BY <1>2, <2>5 DEF RelayHeld, Climb, End, input, Submits
  <2>6. CASE IssuePub \/ IssueSubmit
    BY <1>2, <2>6 DEF RelayHeld, IssuePub, IssueSubmit, Sent, input, Submits
  <2>7. CASE PubFails \/ SubmitFails
    BY <1>2, <2>7 DEF RelayHeld, PubFails, SubmitFails, Fails, End, input, Submits
  <2>8. CASE Issued \/ Scan
    BY <1>2, <2>8 DEF RelayHeld, Issued, Scan, input, Submits
  <2>9. CASE Measured
    BY <1>2, <2>9 DEF RelayHeld, Measured, End, input, Submits
  <2>10. CASE RampMeasured
    BY <1>2, <2>10 DEF RelayHeld, RampMeasured, End, input, Submits
  <2>11. CASE Deliver \/ NodesDie
    BY <1>2, <2>11 DEF RelayHeld, Deliver, NodesDie, input, Submits
  <2> QED BY <1>2, <2>1, <2>2, <2>3, <2>4, <2>5, <2>6, <2>7, <2>8, <2>9, <2>10,
             <2>11 DEF Next, Runner, Done
<1> QED BY <1>1, <1>2, PTL DEF Spec

-----------------------------------------------------------------------------
(* Where a step stands, and what it has found.                             *)

LEMMA KnownStart == Init => Known /\ Idle
  BY DEF Init, Known, Linted, Idle

LEMMA KnownStep ==
    ASSUME Known, [Next]_vars PROVE Known'
<1>1. CASE UNCHANGED vars
  BY <1>1 DEF Known, vars, input, Linted, F
<1>2. CASE Lint
  BY <1>2 DEF Known, Lint, Linted, End, F
<1>3. CASE Begin \/ Climb
  BY <1>3 DEF Known, Begin, Climb, Linted, End, F, input
<1>4. CASE BeginFails
  BY <1>4 DEF Known, BeginFails, Linted, End, F, input
<1>5. CASE IssuePub \/ IssueSubmit
  BY <1>5 DEF Known, IssuePub, IssueSubmit, Sent, Linted, F, input
<1>6. CASE PubFails \/ SubmitFails
  BY <1>6 DEF Known, PubFails, SubmitFails, Fails, End, Linted, F, input
<1>7. CASE Issued \/ Scan \/ Deliver \/ NodesDie
  BY <1>7 DEF Known, Issued, Scan, Deliver, NodesDie, Linted, F, input
<1>8. CASE Measured
  BY <1>8 DEF Known, Measured, End, Linted, F, input
<1>9. CASE RampMeasured
  BY <1>9 DEF Known, RampMeasured, End, Linted, F, input
<1> QED BY <1>1, <1>2, <1>3, <1>4, <1>5, <1>6, <1>7, <1>8, <1>9 DEF Next, Runner, Done

\* A step that is over stays so.
LEMMA OverStays ==
    ASSUME pc = "over", [Next]_vars PROVE pc' = "over"
  BY DEF Next, Runner, Done, vars, Lint, Begin, BeginFails, Climb, IssuePub, IssueSubmit,
         PubFails, SubmitFails, Issued, Scan, Measured, RampMeasured, Deliver, NodesDie

LEMMA IdleStep ==
    ASSUME Known, Idle, [Next]_vars PROVE Idle'
<1> SUFFICES ASSUME Linted', Paired' PROVE verdict' \in {"none", "ok", "sut"}
  BY DEF Idle
<1>1. CASE Lint
  BY <1>1 DEF Lint, Linted, Known, End
<1>2. CASE ~Lint
  <2>1. UNCHANGED input
    BY <1>2 DEF Next, Runner, Done, vars, Begin, BeginFails, Climb, IssuePub, IssueSubmit,
                Sent, PubFails, SubmitFails, Fails, Issued, Scan, Measured, RampMeasured,
                Deliver, NodesDie
  <2>2. Paired
    BY <2>1 DEF Paired, generic_miss, Submits, F, input
  <2>3. CASE UNCHANGED vars
    BY <2>2, <2>3 DEF vars, Idle, Linted
  <2>4. ASSUME pc # "lint", pc # "over" PROVE Linted /\ Missing = "none" /\ verdict = "none"
    BY <2>2, <2>4, LintedVerbs DEF Known, Linted
  <2>5. CASE Begin \/ Climb \/ BeginFails
    BY <2>4, <2>5 DEF Begin, Climb, BeginFails, End
  <2>6. CASE IssuePub \/ IssueSubmit
    BY <2>4, <2>6 DEF IssuePub, IssueSubmit, Sent
  <2>7. CASE PubFails \/ SubmitFails
    BY <2>2, <2>7 DEF PubFails, SubmitFails, Fails, End, Paired, bench_weld_pay
  <2>8. CASE Issued \/ Scan \/ Deliver \/ NodesDie
    BY <2>4, <2>8 DEF Issued, Scan, Deliver, NodesDie
  <2>9. CASE Measured
    BY <2>9 DEF Measured, End
  <2>10. CASE RampMeasured
    BY <2>4, <2>10 DEF RampMeasured, End
  <2> QED BY <1>2, <2>3, <2>5, <2>6, <2>7, <2>8, <2>9, <2>10 DEF Next, Runner, Done
<1> QED BY <1>1, <1>2

-----------------------------------------------------------------------------
(* The ladder of a ramp.                                                   *)

LEMMA MinOfTwo ==
    ASSUME NEW a \in Int, NEW b \in Int
    PROVE  Min({a, b}) = IF a <= b THEN a ELSE b
<1>1. \E x \in {a, b} : \A y \in {a, b} : x <= y
  OBVIOUS
<1>2. Min({a, b}) \in {a, b} /\ \A y \in {a, b} : Min({a, b}) <= y
  BY <1>1 DEF Min
<1> QED BY <1>2

LEMMA MaxOfRange ==
    ASSUME NEW n \in Nat \ {0} PROVE Max(1..n) = n
<1>1. \E x \in 1..n : \A y \in 1..n : x >= y
  <2>1. n \in 1..n /\ \A y \in 1..n : n >= y
    OBVIOUS
  <2> QED BY <2>1
<1>2. Max(1..n) \in 1..n /\ \A y \in 1..n : Max(1..n) >= y
  BY <1>1 DEF Max
<1> QED BY <1>2

LEMMA AppendToAny ==
    ASSUME NEW q, IsSeq(q), NEW e
    PROVE  /\ IsSeq(Append(q, e)) /\ Len(q) \in Nat
           /\ Len(Append(q, e)) = Len(q) + 1
           /\ \A i \in 1..Len(q) : Append(q, e)[i] = q[i]
           /\ Append(q, e)[Len(q) + 1] = e
<1> DEFINE S == {q[i] : i \in DOMAIN q} \union {e}
           w == Append(q, e)
<1>1. q \in Seq(S) /\ e \in S
  BY DEF IsSeq
<1>2. /\ w \in Seq(S) /\ Len(q) \in Nat /\ Len(w) = Len(q) + 1
      /\ \A i \in 1..Len(q) : w[i] = q[i]
      /\ w[Len(q) + 1] = e
  BY <1>1
<1>3. w \in Seq({w[i] : i \in DOMAIN w})
  BY <1>2
<1> QED BY <1>2, <1>3 DEF IsSeq

LEMMA EmptyIsSeq == IsSeq(<<>>) /\ Len(<<>>) = 0
  BY DEF IsSeq

LEMMA LimitFacts == MaxRate \in Nat /\ MaxTimeoutS \in Nat
  BY SMT DEF MaxRate, MaxTimeoutS

\* The numbers of a linted ramp.
LEMMA RampFacts ==
    ASSUME Known, Linted, s.ramp
    PROVE  /\ s.r.start_rate \in Nat \ {0} /\ s.r.step_rate \in Nat \ {0}
           /\ s.r.max_rate \in Nat \ {0} /\ s.r.step_duration_s \in Nat \ {0}
           /\ s.r.max_steps \in Nat \ {0} /\ s.r.start_rate <= s.r.max_rate
           /\ Quota(s.r) \in Nat
           /\ Submits => s.r.max_steps * Quota(s.r) <= MaxWl
<1>1. /\ RampNumbers(s.r)
      /\ Submits => s.r.max_steps * s.r.max_rate * s.r.step_duration_s <= MaxWl
  BY LintedRamp DEF Known, Submits
<1>2. /\ s.r.start_rate \in 1..MaxRate /\ s.r.step_rate \in 1..MaxRate
      /\ s.r.max_rate \in 1..MaxRate /\ s.r.step_duration_s \in 1..MaxTimeoutS
      /\ s.r.max_steps \in 1..RampSteps /\ s.r.start_rate <= s.r.max_rate
  BY <1>1, LimitFacts DEF RampNumbers
<1>3. ASSUME NEW a \in Nat, NEW b \in Nat, NEW c \in Nat
      PROVE  b * c \in Nat /\ a * b * c = a * (b * c)
  OBVIOUS
<1>4. /\ s.r.max_rate \in Nat /\ s.r.step_duration_s \in Nat /\ s.r.max_steps \in Nat
  BY <1>2, CapsAssumption, LimitFacts
<1>5. /\ Quota(s.r) \in Nat
      /\ s.r.max_steps * s.r.max_rate * s.r.step_duration_s = s.r.max_steps * Quota(s.r)
  BY <1>3, <1>4 DEF Quota
<1> QED BY <1>1, <1>2, <1>5, CapsAssumption, LimitFacts

\* The rate of a step on the ladder, and its quota.
LEMMA RateFacts ==
    ASSUME Known, Linted, s.ramp, NEW i \in Nat \ {0}
    PROVE  /\ RateOf(s.r, i) \in Nat /\ RateOf(s.r, i) <= s.r.max_rate
           /\ RateOf(s.r, i) = IF s.r.start_rate + (i - 1) * s.r.step_rate <= s.r.max_rate
                               THEN s.r.start_rate + (i - 1) * s.r.step_rate
                               ELSE s.r.max_rate
<1>1. ASSUME NEW a \in Nat, NEW b \in Nat PROVE a + (i - 1) * b \in Nat
  OBVIOUS
<1>2. s.r.start_rate + (i - 1) * s.r.step_rate \in Nat /\ s.r.max_rate \in Nat
  BY <1>1, RampFacts
<1> QED BY <1>2, MinOfTwo DEF RateOf

LEMMA WantFacts ==
    ASSUME Known, Linted, s.ramp, Shapes, step > 0
    PROVE  /\ Rate = RateOf(s.r, step) /\ bench_want \in Nat
           /\ bench_want <= Quota(s.r)
<1>1. Rate = RateOf(s.r, step)
  BY DEF Rate, RateOf
<1>2. Rate \in Nat /\ Rate <= s.r.max_rate
  BY <1>1, RateFacts DEF Shapes
<1>4. bench_want = Rate * s.r.step_duration_s
  BY DEF bench_want
<1>3. ASSUME NEW a \in Nat, NEW b \in Nat, NEW c \in Nat, a <= b
      PROVE  a * c \in Nat /\ a * c <= b * c
  BY <1>3
<1> QED BY <1>1, <1>2, <1>3, <1>4, RampFacts DEF Quota

\* What a measured step of a ramp does: it reports at its rate, and stops or
\* goes on below the highest rate and the last step.
LEMMA RampReport ==
    ASSUME RampMeasured
    PROVE  \E m :
               /\ m.rate = Rate /\ stats' = Append(stats, m)
               /\ ceiling' = IF StopOf(s.r, m) = "none" THEN Rate ELSE ceiling
               /\ \/ /\ StopOf(s.r, m) = "none" /\ pc' = "climb"
                     /\ ~(Rate >= s.r.max_rate) /\ ~(step >= s.r.max_steps)
                  \/ /\ StopOf(s.r, m) = "none" /\ pc' = "over"
                  \/ /\ StopOf(s.r, m) \in {"loss", "p99"} /\ pc' = "over"
                     /\ reason' = StopOf(s.r, m)
<1>1. PICK gate \in Gates : \E sv \in qsort(seen', Hits(seen', gate)) :
          LET m == bench_stats(sv)
              w == IF Stopped(m) # "none" THEN Stopped(m) ELSE Backstop
          IN  /\ stats' = Append(stats, m)
              /\ ceiling' = IF Stopped(m) = "none" THEN Rate ELSE ceiling
              /\ IF w = "none"
                 THEN pc' = "climb" /\ UNCHANGED <<relay, reason, verdict>>
                 ELSE relay' = FALSE /\ reason' = w /\ End("ok")
  BY DEF RampMeasured
<1>0. PICK sv \in qsort(seen', Hits(seen', gate)) :
          LET m == bench_stats(sv)
              w == IF Stopped(m) # "none" THEN Stopped(m) ELSE Backstop
          IN  /\ stats' = Append(stats, m)
              /\ ceiling' = IF Stopped(m) = "none" THEN Rate ELSE ceiling
              /\ IF w = "none"
                 THEN pc' = "climb" /\ UNCHANGED <<relay, reason, verdict>>
                 ELSE relay' = FALSE /\ reason' = w /\ End("ok")
  BY <1>1
<1> DEFINE m == bench_stats(sv)
           st == StopOf(s.r, m)
<1>2. m.rate = Rate
  BY DEF bench_stats
<1>3. Stopped(m) = st /\ st \in {"none", "loss", "p99"}
  BY DEF Stopped, StopOf
<1>4. Backstop = "none" => ~(Rate >= s.r.max_rate) /\ ~(step >= s.r.max_steps)
  BY DEF Backstop
<1> HIDE DEF m
<1>5. /\ stats' = Append(stats, m)
      /\ ceiling' = IF st = "none" THEN Rate ELSE ceiling
      /\ \/ /\ st = "none" /\ Backstop = "none" /\ pc' = "climb"
         \/ /\ st = "none" /\ pc' = "over"
         \/ /\ st # "none" /\ pc' = "over" /\ reason' = st
  BY <1>0, <1>3 DEF End, m
<1> QED BY <1>2, <1>3, <1>4, <1>5

\* A step that is no measure of a ramp leaves a ladder's reports alone.
LEMMA ReportsKept ==
    ASSUME Known, [Next]_vars, ~RampMeasured, pc # "lint"
    PROVE  /\ UNCHANGED <<case, s>>
           /\ s.ramp => UNCHANGED <<stats, ceiling>>
           /\ Linted' => Linted
           /\ Running' => Running \/ pc = "begin"
           /\ reason' = reason \/ (pc = "climb" /\ pc' = "over")
<1>1. CASE UNCHANGED vars
  BY <1>1 DEF vars, input, report, Linted, Running
<1>2. CASE Begin \/ BeginFails
  BY <1>2 DEF Begin, BeginFails, End, input, report, Linted, Known, Running
<1>3. CASE Climb
  BY <1>3 DEF Climb, End, input, Linted, Known, Running
<1>4. CASE IssuePub \/ IssueSubmit
  BY <1>4 DEF IssuePub, IssueSubmit, Sent, input, report, Linted, Running
<1>5. CASE PubFails \/ SubmitFails
  BY <1>5 DEF PubFails, SubmitFails, Fails, End, input, report, Linted, Known, Running
<1>6. CASE Issued \/ Scan \/ Deliver \/ NodesDie
  BY <1>6 DEF Issued, Scan, Deliver, NodesDie, input, report, Linted, Running
<1>7. CASE Measured
  BY <1>7 DEF Measured, End, input, Linted, Known, Running
<1> QED BY <1>1, <1>2, <1>3, <1>4, <1>5, <1>6, <1>7 DEF Next, Runner, Done, Lint

LEMMA ShapesStep ==
    ASSUME Shapes, [Next]_vars PROVE Shapes'
<1> USE DEF Shapes
<1>1. CASE UNCHANGED vars
  BY <1>1 DEF vars, loop, report
<1>2. CASE Lint \/ Begin \/ BeginFails
  BY <1>2 DEF Lint, Begin, BeginFails, loop, report
<1>3. CASE Climb
  BY <1>3, EmptyIsSeq DEF Climb, loop
<1>4. CASE IssuePub \/ IssueSubmit
  <2>1. PICK t : pub' = Append(pub, t)
    BY <1>4 DEF IssuePub, IssueSubmit, Sent
  <2>2. IsSeq(pub')
    BY <2>1, AppendToAny
  <2>3. tab' \in Nat
    BY <1>4 DEF IssuePub, IssueSubmit
  <2>4. UNCHANGED <<step, stats>>
    BY <1>4 DEF IssuePub, IssueSubmit, Sent, report
  <2> QED BY <2>2, <2>3, <2>4
<1>5. CASE PubFails \/ SubmitFails
  BY <1>5 DEF PubFails, SubmitFails, Fails, loop, report
<1>6. CASE Issued \/ Scan \/ Deliver \/ NodesDie
  BY <1>6 DEF Issued, Scan, Deliver, NodesDie, loop, report
<1>7. CASE Measured
  <2>1. PICK m : stats' = <<m>>
    BY <1>7 DEF Measured
  <2>2. IsSeq(<<m>>)
    BY DEF IsSeq
  <2> QED BY <1>7, <2>1, <2>2 DEF Measured
<1>8. CASE RampMeasured
  <2>1. PICK m : stats' = Append(stats, m)
    BY <1>8, RampReport
  <2>2. IsSeq(stats')
    BY <2>1, AppendToAny
  <2> QED BY <1>8, <2>2 DEF RampMeasured
<1> QED BY <1>1, <1>2, <1>3, <1>4, <1>5, <1>6, <1>7, <1>8 DEF Next, Runner, Done

LEMMA ClimbingStep ==
    ASSUME Known, Shapes, Climbing, [Next]_vars PROVE Climbing'
<1>1. CASE UNCHANGED vars
  BY <1>1 DEF Climbing, Running, vars, input, loop, report
<1>2. CASE Lint \/ BeginFails
  BY <1>2 DEF Lint, BeginFails, End, Climbing, Running, loop, report
<1>3. CASE Begin
  <2>1. ASSUME s.ramp PROVE s.r.max_steps \in Nat \ {0} /\ pc' = "climb"
    BY <1>3, <2>1, RampFacts DEF Begin, Known, Linted
  <2> QED BY <1>3, <2>1, EmptyIsSeq DEF Begin, Climbing, Running, input, report
<1>4. CASE Climb
  <2>1. ASSUME s.ramp PROVE s.r.max_steps \in Nat
    BY <1>4, <2>1, RampFacts DEF Climb, Known, Linted
  <2> QED BY <1>4, <2>1 DEF Climb, End, Climbing, Running, Shapes, input
<1>5. CASE IssuePub \/ IssueSubmit
  BY <1>5 DEF IssuePub, IssueSubmit, Sent, Climbing, Running, input, report
<1>6. CASE PubFails \/ SubmitFails
  BY <1>6 DEF PubFails, SubmitFails, Fails, End, Climbing, Running
<1>7. CASE Issued \/ Scan \/ Deliver \/ NodesDie
  BY <1>7 DEF Issued, Scan, Deliver, NodesDie, Climbing, Running, input, loop, report
<1>8. CASE Measured
  BY <1>8 DEF Measured, End, Climbing, Running
<1>9. CASE RampMeasured
  <2>1. PICK m : /\ stats' = Append(stats, m)
                 /\ pc' = "over" \/ (pc' = "climb" /\ ~(step >= s.r.max_steps))
    BY <1>9, RampReport
  <2>2. Len(stats) \in Nat /\ Len(stats') = Len(stats) + 1
    BY <2>1, AppendToAny DEF Shapes
  <2>3. s.r.max_steps \in Nat
    BY <1>9, RampFacts DEF RampMeasured, Known, Linted
  <2> QED BY <1>9, <2>1, <2>2, <2>3 DEF RampMeasured, Climbing, Running, Shapes, input
<1> QED BY <1>1, <1>2, <1>3, <1>4, <1>5, <1>6, <1>7, <1>8, <1>9 DEF Next, Runner, Done

\* The lint begins with nothing reported.
LEMMA LintStep ==
    ASSUME Climbing, pc = "lint", [Next]_vars
    PROVE  stats' = <<>> /\ ceiling' = 0
  BY DEF Climbing, Next, Runner, Done, vars, report, Lint, Begin, BeginFails, Climb, IssuePub,
         IssueSubmit, PubFails, SubmitFails, Issued, Scan, Measured, RampMeasured, Deliver,
         NodesDie

LEMMA PassedStep ==
    ASSUME Known, Shapes, Climbing, Passed, [Next]_vars PROVE Passed'
<1>1. CASE pc = "lint"
  BY <1>1, LintStep, EmptyIsSeq DEF Passed
<1>2. CASE pc # "lint" /\ ~RampMeasured
  <2>1. SUFFICES ASSUME Linted', s.ramp' PROVE Passed'
    BY DEF Passed
  <2>2. /\ s' = s /\ s.ramp /\ Linted /\ stats' = stats
        /\ Running' => Running \/ pc = "begin"
    BY <1>2, <2>1, ReportsKept
  <2>3. pc = "begin" => Len(stats) = 0
    BY EmptyIsSeq DEF Climbing
  <2>4. /\ \A i \in 1..Len(stats) : stats[i].rate = RateOf(s.r, i)
        /\ \A i \in 1..Len(stats) : i < Len(stats) \/ Running =>
               stats[i].rate < s.r.max_rate /\ StopOf(s.r, stats[i]) = "none"
    BY <2>2 DEF Passed
  <2> QED BY <2>2, <2>3, <2>4 DEF Passed
<1>3. CASE RampMeasured
  <2>1. PICK m : /\ m.rate = Rate /\ stats' = Append(stats, m)
                 /\ \/ /\ StopOf(s.r, m) = "none" /\ ~(Rate >= s.r.max_rate)
                    \/ pc' = "over"
    BY <1>3, RampReport
  <2>2. s' = s /\ s.ramp /\ Linted /\ pc = "scan"
    BY <1>3 DEF RampMeasured, input, Known, Linted
  <2>3. step > 0 /\ Len(stats) = step - 1 /\ step \in Nat
    BY <2>2 DEF Climbing, Running, Shapes
  <2>4. Rate = RateOf(s.r, step) /\ Rate \in Nat /\ s.r.max_rate \in Nat
    BY <2>2, <2>3, WantFacts, RateFacts, RampFacts
  <2>5. /\ Len(stats') = step /\ stats'[step] = m
        /\ \A i \in 1..(step - 1) : stats'[i] = stats[i]
    BY <2>1, <2>3, AppendToAny DEF Shapes
  <2>6. \A i \in 1..(step - 1) :
            /\ stats[i].rate = RateOf(s.r, i)
            /\ stats[i].rate < s.r.max_rate /\ StopOf(s.r, stats[i]) = "none"
    BY <2>2, <2>3 DEF Passed, Running
  <2>7. ASSUME NEW i \in 1..step
        PROVE  /\ stats'[i].rate = RateOf(s.r, i)
               /\ i < step \/ pc' # "over" =>
                      stats'[i].rate < s.r.max_rate /\ StopOf(s.r, stats'[i]) = "none"
    <3>1. CASE i = step
      BY <2>1, <2>4, <2>5, <3>1
    <3>2. CASE i # step
      BY <2>3, <2>5, <2>6, <3>2
    <3> QED BY <3>1, <3>2
  <2> QED BY <2>2, <2>5, <2>7 DEF Passed, Running
<1> QED BY <1>1, <1>2, <1>3

LEMMA PeakedStep ==
    ASSUME Known, Shapes, Climbing, Passed, Peaked, [Next]_vars PROVE Peaked'
<1>1. CASE pc = "lint"
  BY <1>1, LintStep DEF Peaked
<1>2. CASE pc # "lint" /\ ~RampMeasured
  <2>1. SUFFICES ASSUME Linted', s.ramp' PROVE Peaked'
    BY DEF Peaked
  <2>2. /\ s' = s /\ s.ramp /\ Linted /\ stats' = stats /\ ceiling' = ceiling
        /\ reason' = reason \/ (pc = "climb" /\ pc' = "over")
    BY <1>2, <2>1, ReportsKept
  <2> QED BY <2>2, OverStays DEF Peaked
<1>3. CASE RampMeasured
  <2>1. PICK m : /\ m.rate = Rate /\ stats' = Append(stats, m)
                 /\ ceiling' = IF StopOf(s.r, m) = "none" THEN Rate ELSE ceiling
                 /\ StopOf(s.r, m) # "none" =>
                        reason' = StopOf(s.r, m) /\ reason' \in {"loss", "p99"} /\ pc' = "over"
    BY <1>3, RampReport
  <2>2. s' = s /\ s.ramp /\ Linted /\ pc = "scan"
    BY <1>3 DEF RampMeasured, input, Known, Linted
  <2>3. /\ Len(stats) \in Nat /\ Len(stats') = Len(stats) + 1
        /\ stats'[Len(stats')] = m
        /\ \A i \in 1..Len(stats) : stats'[i] = stats[i]
    BY <2>1, AppendToAny DEF Shapes
  <2>4. CASE StopOf(s.r, m) = "none"
    BY <2>1, <2>2, <2>3, <2>4 DEF Peaked
  <2>5. CASE StopOf(s.r, m) # "none"
    <3>1. ceiling = IF Len(stats) = 0 THEN 0 ELSE stats[Len(stats)].rate
      BY <2>2, <2>3, EmptyIsSeq DEF Peaked
    <3>2. ceiling' = IF Len(stats') = 1 THEN 0 ELSE stats'[Len(stats') - 1].rate
      BY <2>1, <2>3, <2>5, <3>1
    <3> QED BY <2>1, <2>2, <2>3, <2>5, <3>2 DEF Peaked
  <2> QED BY <2>4, <2>5
<1> QED BY <1>1, <1>2, <1>3

LEMMA QuotasStep ==
    ASSUME Known, Shapes, Climbing, Quotas, [Next]_vars PROVE Quotas'
<1> SUFFICES ASSUME Running', s.ramp', Submits' PROVE Quotas'
  BY DEF Quotas
<1> DEFINE Q == Quota(s.r)
<1>1. pc # "lint" /\ UNCHANGED <<case, s>> /\ s.ramp /\ Submits
  <2>1. pc # "lint"
    BY DEF Running, Next, Runner, Done, vars, Lint, End, Begin, BeginFails, Climb, IssuePub,
           IssueSubmit, PubFails, SubmitFails, Issued, Scan, Measured, RampMeasured, Deliver,
           NodesDie
  <2>2. UNCHANGED <<case, s>>
    BY <2>1, ReportsKept DEF RampMeasured, input
  <2> QED BY <2>1, <2>2 DEF Submits
<1>2. pc # "over" /\ Linted
  <2>1. pc # "over"
    BY OverStays DEF Running
  <2> QED BY <1>1, <2>1 DEF Known, Linted
<1>3. Q \in Nat /\ Q = Quota(s.r)' /\ step \in Nat /\ tab \in Nat
  BY <1>1, <1>2, RampFacts DEF Quota, Shapes
<1>4. Running =>
          /\ pc = "climb" => tab <= step * Q
          /\ pc # "climb" => tab <= (step - 1) * Q + Len(pub) /\ Len(pub) <= Q
  BY <1>1 DEF Quotas
<1>5. Len(pub) \in Nat
  BY AppendToAny DEF Shapes
<1> HIDE DEF Q
<1>6. CASE UNCHANGED <<pc, step, tab, pub>>
  BY <1>3, <1>4, <1>6 DEF Quotas, Running
<1>7. CASE Begin
  <2>1. pc' = "climb" /\ step' = 0 /\ tab' = 0
    BY <1>1, <1>7 DEF Begin, Climbing
  <2> QED BY <1>3, <2>1 DEF Quotas
<1>8. CASE Climb
  <2>1. pc' = "issue" /\ step' = step + 1 /\ pub' = <<>> /\ tab' = tab /\ pc = "climb"
    BY <1>8 DEF Climb, End, Running
  <2>2. (step' - 1) * Q + Len(pub') = step * Q /\ Len(pub') <= Q
    BY <1>3, <2>1, EmptyIsSeq
  <2> QED BY <1>3, <1>4, <2>1, <2>2 DEF Quotas, Running
<1>9. CASE IssueSubmit
  <2>1. /\ pc = "issue" /\ More /\ pc' = pc /\ step' = step /\ tab' = tab + 1
        /\ \E t : pub' = Append(pub, t)
    BY <1>9 DEF IssueSubmit, Sent
  <2>2. Len(pub') = Len(pub) + 1
    BY <2>1, AppendToAny DEF Shapes
  <2>3. step > 0
    BY <1>1, <2>1 DEF Climbing, Running
  <2>4. Len(pub) < bench_want /\ bench_want \in Nat /\ bench_want <= Q
    BY <1>1, <1>2, <2>1, <2>3, WantFacts DEF More, Q
  <2>5. (step - 1) * Q \in Nat
    BY <1>3, <2>3
  <2>6. tab' <= (step' - 1) * Q + Len(pub') /\ Len(pub') <= Q
    BY <1>3, <1>4, <1>5, <2>1, <2>2, <2>4, <2>5 DEF Running
  <2> QED BY <1>3, <2>1, <2>6 DEF Quotas
<1>10. CASE Issued
  BY <1>3, <1>4, <1>10 DEF Issued, Quotas, Running
<1>11. CASE RampMeasured
  <2>1. pc' = "climb" /\ pc = "scan" /\ UNCHANGED <<step, tab>>
    BY <1>11, RampReport DEF RampMeasured, Running
  <2>2. step > 0 /\ tab <= (step - 1) * Q + Len(pub) /\ Len(pub) <= Q
    BY <1>1, <1>4, <2>1 DEF Climbing, Running
  <2>3. (step - 1) * Q + Q = step * Q /\ (step - 1) * Q \in Nat
    BY <1>3, <2>2
  <2>4. tab <= step * Q
    BY <1>3, <1>5, <2>2, <2>3
  <2> QED BY <1>3, <2>1, <2>4 DEF Quotas
<1>12. UNCHANGED <<pc, step, tab, pub>> \/ Begin \/ Climb \/ IssueSubmit \/ Issued \/ RampMeasured
  BY <1>1, <1>2 DEF Running, Next, Runner, Done, vars, loop, Lint, BeginFails, IssuePub, Sent,
                    PubFails, SubmitFails, Fails, End, Scan, Measured, Deliver, NodesDie
<1> QED BY <1>6, <1>7, <1>8, <1>9, <1>10, <1>11, <1>12

Inv == Known /\ Shapes /\ Climbing /\ Passed /\ Peaked /\ Quotas /\ Idle

\* All of it together is inductive: where the ladder stands bounds the table,
\* and what its reports passed gives the rates and the ceiling.
THEOREM Inductive == Spec => []Inv
<1>1. Init => Inv
  <2> SUFFICES ASSUME Init PROVE Inv
    OBVIOUS
  <2>1. Known /\ Idle
    BY KnownStart
  <2>2. Shapes
    BY EmptyIsSeq DEF Init, Shapes
  <2>3. Climbing /\ Passed /\ Peaked /\ Quotas
    BY DEF Init, Climbing, Passed, Peaked, Quotas, Running, Linted
  <2> QED BY <2>1, <2>2, <2>3 DEF Inv
<1>2. Inv /\ [Next]_vars => Inv'
  BY KnownStep, IdleStep, ShapesStep, ClimbingStep, PassedStep, PeakedStep, QuotasStep DEF Inv
<1> QED BY <1>1, <1>2, PTL DEF Spec

\* The backstops of a linted run are idle, and no ladder is cut short by the
\* workload table.
THEOREM BackstopsAreIdle == Spec => []BackstopsIdle
<1>1. Inv => BackstopsIdle
  <2> SUFFICES ASSUME Inv, Linted, Paired, pc = "issue", s.ramp, Submits, tab = MaxWl
               PROVE  Len(pub) >= bench_want
    BY DEF BackstopsIdle, Inv, Idle
  <2> DEFINE Q == Quota(s.r)
             n == s.r.max_steps
  <2>1. step \in 1..n /\ tab <= (step - 1) * Q + Len(pub)
    BY DEF Inv, Climbing, Quotas, Running
  <2>2. Q \in Nat /\ n \in Nat /\ n * Q <= MaxWl
    BY RampFacts DEF Inv
  <2>3. bench_want \in Nat /\ bench_want <= Q
    BY <2>1, <2>2, WantFacts DEF Inv
  <2>4. Len(pub) \in Nat
    BY AppendToAny DEF Inv, Shapes
  <2> HIDE DEF Q, n
  <2>5. ASSUME NEW a \in Nat, NEW b \in 1..a, NEW q \in Nat
        PROVE  (b - 1) * q + q <= a * q /\ (b - 1) * q \in Nat /\ a * q \in Nat
    <3>1. b * q <= a * q /\ (b - 1) * q + q = b * q
      BY <2>5
    <3> QED BY <2>5, <3>1
  <2>6. (step - 1) * Q + Q <= n * Q /\ (step - 1) * Q \in Nat /\ n * Q \in Nat
    BY <2>1, <2>2, <2>5
  <2> QED BY <2>1, <2>2, <2>3, <2>4, <2>6, CapsAssumption
<1> QED BY <1>1, Inductive, PTL

\* A ladder rises, ends with its first stopped step, and its ceiling is the
\* rate of the last step that met its stops.
THEOREM LadderHolds == Spec => []Ladder
<1>1. Inv => Ladder
  <2> SUFFICES ASSUME Inv, Linted, s.ramp PROVE Ladder
    BY DEF Ladder
  <2> DEFINE n  == Len(stats)
             ok == {i \in DOMAIN stats : Stopped(stats[i]) = "none"}
  <2>1. n \in Nat /\ DOMAIN stats = 1..n
    BY AppendToAny DEF Inv, Shapes, IsSeq
  <2>2. \A m : Stopped(m) = StopOf(s.r, m)
    BY DEF Stopped, StopOf
  <2>3. /\ \A i \in 1..n : stats[i].rate = RateOf(s.r, i)
        /\ \A i \in 1..n : i < n =>
               stats[i].rate < s.r.max_rate /\ StopOf(s.r, stats[i]) = "none"
    BY DEF Inv, Passed
  <2>4. ASSUME NEW i \in 1..n
        PROVE  /\ stats[i].rate <= s.r.max_rate
               /\ i > 1 => stats[i].rate > stats[i - 1].rate
               /\ i < n => i \in ok
    <3>1. stats[i].rate <= s.r.max_rate
      BY <2>1, <2>3, RateFacts DEF Inv
    <3>2. ASSUME i > 1 PROVE stats[i].rate > stats[i - 1].rate
      <4> DEFINE a == s.r.start_rate
                 b == s.r.step_rate
                 c == s.r.max_rate
      <4>1. a \in Nat /\ b \in Nat \ {0} /\ c \in Nat
        BY RampFacts DEF Inv
      <4>2. /\ i - 1 \in 1..n /\ i - 1 < n /\ i - 1 \in Nat \ {0} /\ i \in Nat \ {0}
        BY <2>1, <3>2
      <4>3. RateOf(s.r, i) = IF a + (i - 1) * b <= c THEN a + (i - 1) * b ELSE c
        BY <4>2, RateFacts DEF Inv
      <4>4. RateOf(s.r, i - 1)
                = IF a + ((i - 1) - 1) * b <= c THEN a + ((i - 1) - 1) * b ELSE c
        BY <4>2, RateFacts DEF Inv
      <4>5. RateOf(s.r, i - 1) < c
        BY <2>3, <4>2
      <4> HIDE DEF a, b, c
      <4>6. (i - 1) * b = ((i - 1) - 1) * b + b /\ (i - 1) * b \in Nat
            /\ ((i - 1) - 1) * b \in Nat
        BY <4>1, <4>2
      <4>7. RateOf(s.r, i) > RateOf(s.r, i - 1)
        BY <4>1, <4>3, <4>4, <4>5, <4>6
      <4> QED BY <2>3, <4>2, <4>7
    <3>3. ASSUME i < n PROVE i \in ok
      BY <2>1, <2>2, <2>3, <3>3
    <3> QED BY <3>1, <3>2, <3>3
  <2>5. \/ n = 0 /\ ok = {} /\ ceiling = 0
        \/ n > 0 /\ ok = 1..n /\ ceiling = stats[n].rate
        \/ /\ n > 0 /\ ok = 1..(n - 1) /\ reason \in {"loss", "p99"}
           /\ ceiling = IF n = 1 THEN 0 ELSE stats[n - 1].rate
    <3>1. CASE stats = <<>> /\ ceiling = 0
      BY <2>1, <3>1, EmptyIsSeq
    <3>2. CASE n > 0 /\ StopOf(s.r, stats[n]) = "none" /\ ceiling = stats[n].rate
      <4>1. \A i \in 1..n : Stopped(stats[i]) = "none"
        BY <2>1, <2>2, <2>3, <3>2
      <4> QED BY <2>1, <3>2, <4>1
    <3>3. CASE /\ n > 0 /\ StopOf(s.r, stats[n]) # "none"
               /\ ceiling = IF n = 1 THEN 0 ELSE stats[n - 1].rate
               /\ reason \in {"loss", "p99"}
      <4>1. \A i \in 1..n : Stopped(stats[i]) = "none" <=> i <= n - 1
        BY <2>1, <2>2, <2>3, <3>3
      <4>2. ok = 1..(n - 1)
        BY <2>1, <4>1
      <4> QED BY <3>3, <4>2
    <3> QED BY <3>1, <3>2, <3>3 DEF Inv, Peaked
  <2>6. /\ ceiling = IF ok = {} THEN 0 ELSE stats[Max(ok)].rate
        /\ ok # DOMAIN stats => reason \in {"loss", "p99"}
    <3>1. CASE n = 0 /\ ok = {} /\ ceiling = 0
      BY <2>1, <3>1
    <3>2. CASE n > 0 /\ ok = 1..n /\ ceiling = stats[n].rate
      <4>1. Max(ok) = n /\ ok # {}
        BY <2>1, <3>2, MaxOfRange
      <4> QED BY <2>1, <3>2, <4>1
    <3>3. CASE n = 1 /\ ok = 1..(n - 1) /\ reason \in {"loss", "p99"} /\ ceiling = 0
      BY <3>3
    <3>4. CASE /\ n > 1 /\ ok = 1..(n - 1) /\ reason \in {"loss", "p99"}
               /\ ceiling = stats[n - 1].rate
      <4>1. n - 1 \in Nat \ {0} /\ ok # {}
        BY <2>1, <3>4
      <4>2. Max(ok) = n - 1
        BY <3>4, <4>1, MaxOfRange
      <4> QED BY <3>4, <4>1, <4>2
    <3> QED BY <2>1, <2>5, <3>1, <3>2, <3>3, <3>4
  <2> QED BY <2>1, <2>4, <2>6 DEF Ladder
<1> QED BY <1>1, Inductive, PTL

-----------------------------------------------------------------------------
(* The metrics.                                                            *)

LEMMA MaxOfTwo ==
    ASSUME NEW a \in Int, NEW b \in Int
    PROVE  Max({a, b}) = IF a >= b THEN a ELSE b
<1>1. \E x \in {a, b} : \A y \in {a, b} : x >= y
  OBVIOUS
<1>2. Max({a, b}) \in {a, b} /\ \A y \in {a, b} : Max({a, b}) >= y
  BY <1>1 DEF Max
<1> QED BY <1>2

LEMMA LeastIsMin ==
    ASSUME NEW V, V \subseteq Int, NEW v \in V, \A y \in V : v <= y
    PROVE  Min(V) = v
<1>1. Min(V) \in V /\ \A y \in V : Min(V) <= y
  BY DEF Min
<1>2. Min(V) \in Int /\ v \in Int /\ Min(V) <= v /\ v <= Min(V)
  BY <1>1, Zenon
<1> HIDE DEF Min
<1> QED BY <1>2

\* The nearest rank of the times lat of the issues js.
RankOf(js, lat, pct) ==
    Min({lat[i] : i \in {i \in js :
        100 * Cardinality({j \in js : lat[j] <= lat[i]}) >= pct * Cardinality(js)}})

\* p arranges the n issues js so that their times ascend.
Arranged(js, n, p, lat) ==
    /\ n \in Nat \ {0} /\ Cardinality(js) = n
    /\ p \in Bijection(1..n, js) /\ lat \in [js -> Int]
    /\ \A i, k \in 1..n : i < k => lat[p[i]] <= lat[p[k]]

\* r is the rank of pct of a hundred among n.
IsRank(r, pct, n) ==
    /\ n \in Nat \ {0} /\ r \in 1..n /\ pct \in Nat
    /\ 100 * r >= pct * n /\ 100 * (r - 1) < pct * n

\* The entry of rank r of an ascending arrangement is the nearest rank of any
\* percentage that r is the rank of.
LEMMA RankIs ==
    ASSUME NEW js, NEW n, NEW p, NEW lat, Arranged(js, n, p, lat),
           NEW r, NEW pct, IsRank(r, pct, n)
    PROVE  RankOf(js, lat, pct) = lat[p[r]]
<1> USE DEF Arranged, IsRank
<1> DEFINE w == pct * n
           Low(i) == {j \in js : lat[j] <= lat[i]}
           first(k) == {p[x] : x \in 1..k}
           V == {lat[i] : i \in {i \in js : 100 * Cardinality(Low(i)) >= w}}
<1>0. /\ w \in Nat /\ 100 * r >= w /\ 100 * (r - 1) < w /\ r \in Nat /\ r >= 1
  OBVIOUS
<1>1. /\ p \in [1..n -> js] /\ \A x, y \in 1..n : p[x] = p[y] => x = y
      /\ \A j \in js : \E x \in 1..n : p[x] = j
  BY DEF Bijection, Injection, Surjection, IsInjective
<1>2. IsFiniteSet(js)
  <2>1. ExistsBijection(1..n, js)
    BY DEF ExistsBijection
  <2> QED BY <2>1, FS_NatBijection
<1>3. ASSUME NEW k \in 0..n
      PROVE  IsFiniteSet(first(k)) /\ Cardinality(first(k)) = k
  <2> DEFINE q == [x \in 1..k |-> p[x]]
  <2>1. k \in Nat /\ \A x \in 1..k : x \in 1..n
    OBVIOUS
  <2>2. q \in Bijection(1..k, first(k))
    BY <1>1, <2>1 DEF Bijection, Injection, Surjection, IsInjective
  <2> HIDE DEF q, first
  <2>3. ExistsBijection(1..k, first(k))
    BY <2>2 DEF ExistsBijection
  <2> QED BY <2>1, <2>3, FS_NatBijection, FS_CountingElements
<1>4. \A i \in js : IsFiniteSet(Low(i)) /\ Cardinality(Low(i)) \in Nat
  BY <1>2, FS_Subset, FS_CardinalityType
<1>5. p[r] \in js /\ lat[p[r]] \in Int /\ \A i \in js : lat[i] \in Int
  BY <1>1
<1>6. 100 * Cardinality(Low(p[r])) >= w
  <2>1. first(r) \subseteq Low(p[r])
    <3>1. ASSUME NEW x \in 1..r PROVE p[x] \in js /\ lat[p[x]] <= lat[p[r]]
      <4>1. x \in 1..n /\ (x < r \/ x = r)
        OBVIOUS
      <4> QED BY <1>1, <1>5, <4>1
    <3> QED BY <3>1
  <2> HIDE DEF Low, first, w
  <2>2. Cardinality(first(r)) = r /\ r <= Cardinality(Low(p[r]))
    BY <1>0, <1>3, <1>4, <1>5, <2>1, FS_Subset
  <2> QED BY <1>0, <1>4, <1>5, <2>2
<1>7. ASSUME NEW i \in js, 100 * Cardinality(Low(i)) >= w
      PROVE  lat[p[r]] <= lat[i]
  <2>1. SUFFICES ASSUME lat[i] < lat[p[r]] PROVE FALSE
    BY <1>5
  <2>2. Low(i) \subseteq first(r - 1)
    <3>1. ASSUME NEW j \in js, lat[j] <= lat[i] PROVE j \in first(r - 1)
      <4>1. PICK x \in 1..n : p[x] = j
        BY <1>1
      <4>2. ~(lat[p[r]] <= lat[p[x]])
        BY <1>5, <2>1, <3>1, <4>1
      <4>3. ~(r < x) /\ r # x
        BY <1>5, <4>2
      <4>4. x \in 1..(r - 1)
        BY <4>3
      <4> QED BY <4>1, <4>4
    <3> QED BY <3>1
  <2>3. r - 1 \in 0..n
    OBVIOUS
  <2> HIDE DEF Low, first, w
  <2>4. Cardinality(Low(i)) <= r - 1
    BY <1>3, <2>2, <2>3, FS_Subset
  <2> QED BY <1>0, <1>4, <1>7, <2>4
<1>8. lat[p[r]] \in V /\ V \subseteq Int /\ \A y \in V : lat[p[r]] <= y
  BY <1>5, <1>6, <1>7
<1> HIDE DEF V
<1>9. Min(V) = lat[p[r]]
  BY <1>8, LeastIsMin
<1> QED BY <1>9 DEF V, RankOf

\* What bench_pct finds.
LEMMA PctIs ==
    ASSUME NEW n \in Nat \ {0}, NEW sv, Len(sv) = n, NEW pct \in {50, 99}
    PROVE  \E r : bench_pct(sv, pct) = sv[r] /\ IsRank(r, pct, n)
<1> DEFINE rank == (pct * n + 99) \div 100
<1>1. rank \in 1..n /\ 100 * rank >= pct * n /\ 100 * (rank - 1) < pct * n
  <2>1. CASE pct = 50
    BY <2>1
  <2>2. CASE pct = 99
    BY <2>2
  <2> QED BY <2>1, <2>2
<1>2. bench_pct(sv, pct) = sv[Min({Max({rank, 1}), n})]
  BY DEF bench_pct
<1> HIDE DEF rank
<1>3. Max({rank, 1}) = rank
  BY <1>1, MaxOfTwo
<1>4. Min({rank, n}) = rank
  BY <1>1, MinOfTwo
<1>5. IsRank(rank, pct, n)
  BY <1>1 DEF IsRank
<1> QED BY <1>2, <1>3, <1>4, <1>5

\* What the lint promises of the numbers of a step.
LEMMA PaceFacts ==
    ASSUME Known, Linted
    PROVE  /\ s.warmup \in Nat
           /\ s.ramp => s.warmup = 0
           /\ ~s.ramp => /\ s.rate \in Nat \ {0} /\ s.count \in Nat /\ s.dur \in Nat
                         /\ s.count # 0 \/ s.dur # 0
<1> DEFINE d == case.doc
<1>1. val_bench(d, F) /\ s = ExStep(d, F)
  BY DEF Known
<1>2. PICK cap \in Nat : Paced(d, cap)
  <2>1. \A b : FamilyCap(b) \in Nat
    BY CapsAssumption DEF FamilyCap
  <2>2. CASE AnyOf(d, {"send", "expect"})
    BY <1>1, <2>1, <2>2 DEF val_bench, val_bench_generic
  <2>3. CASE ~AnyOf(d, {"send", "expect"})
    BY <1>1, <2>1, <2>3 DEF val_bench, PlainPace
  <2> QED BY <2>2, <2>3
<1>3. Has(d, "ramp") => ~AnyOf(d, RampForbids)
  <2>1. CASE AnyOf(d, {"send", "expect"})
    BY <1>1, <2>1 DEF val_bench, val_bench_generic, RampBlock
  <2>2. CASE ~AnyOf(d, {"send", "expect"})
    BY <1>1, <2>2 DEF val_bench, PlainRamp, RampBlock
  <2> QED BY <2>1, <2>2
<1>4. /\ s.ramp = Has(d, "ramp") /\ s.rate = Val(d, "rate", 0) /\ s.count = Val(d, "count", 0)
      /\ s.dur = Val(d, "duration_s", 0) /\ s.warmup = Val(d, "warmup", 0)
  BY <1>1 DEF ExStep
<1>5. CASE Has(d, "ramp")
  <2>1. ~Has(d, "warmup")
    BY <1>3, <1>5 DEF AnyOf, RampForbids, Has
  <2>2. s.warmup = 0
    BY <1>4, <2>1 DEF Val
  <2> QED BY <1>4, <1>5, <2>2
<1>6. CASE ~Has(d, "ramp")
  <2>1. /\ Has(d, "rate") /\ d.rate \in 1..MaxRate
        /\ Has(d, "count") \/ Has(d, "duration_s")
        /\ Has(d, "count") => d.count \in 1..cap
        /\ Has(d, "duration_s") => d.duration_s \in 1..MaxTimeoutS
        /\ Has(d, "warmup") => d.warmup \in 0..WeldCap
    BY <1>2, <1>6 DEF Paced, Opt, AnyOf, Has
  <2>2. s.rate \in Nat \ {0}
    BY <1>4, <2>1, LimitFacts DEF Val
  <2>3. s.count \in Nat /\ (Has(d, "count") => s.count # 0)
    BY <1>4, <2>1 DEF Val
  <2>4. s.dur \in Nat /\ (Has(d, "duration_s") => s.dur # 0)
    BY <1>4, <2>1, LimitFacts DEF Val
  <2>5. s.warmup \in Nat
    BY <1>4, <2>1, CapsAssumption DEF Val
  <2>6. ~s.ramp
    BY <1>4, <1>6
  <2> QED BY <2>1, <2>2, <2>3, <2>4, <2>5, <2>6, Zenon
<1> QED BY <1>5, <1>6

\* The rate of a step that issues is not 0.
LEMMA RatePositive ==
    ASSUME Known, Shapes, Climbing, pc = "issue"
    PROVE  Rate \in Nat \ {0}
<1>1. Linted
  BY DEF Known, Linted
<1>2. CASE ~s.ramp
  BY <1>1, <1>2, PaceFacts DEF Rate
<1>3. CASE s.ramp
  <2>1. step \in Nat \ {0}
    BY <1>3 DEF Climbing, Running, Shapes
  <2>2. Rate = RateOf(s.r, step)
    BY <1>3 DEF Rate, RateOf
  <2>3. /\ s.r.start_rate \in Nat \ {0} /\ s.r.step_rate \in Nat /\ s.r.max_rate \in Nat \ {0}
    BY <1>1, <1>3, RampFacts
  <2>4. ASSUME NEW a \in Nat, NEW b \in Nat \ {0} PROVE b + (step - 1) * a \in Nat \ {0}
    BY <2>1
  <2>5. s.r.start_rate + (step - 1) * s.r.step_rate \in Nat \ {0}
    BY <2>3, <2>4
  <2> QED BY <1>1, <1>3, <2>1, <2>2, <2>3, <2>5, RateFacts
<1> QED BY <1>2, <1>3

\* Stamps and sightings: no issue is stamped later than now, and what was seen
\* is visible and was seen no earlier than it was sent.
Watched ==
    /\ now \in Nat \ {0}
    /\ DOMAIN seen = DOMAIN pub /\ DOMAIN log = DOMAIN pub
    /\ IsSeq(seen) /\ IsSeq(log)
    /\ pc = "lint" => pub = <<>>
    /\ pc = "scan" => grace \in Nat
    /\ \A j \in DOMAIN pub :
           /\ pub[j] \in Nat /\ pub[j] <= now /\ seen[j] \in Nat
           /\ seen[j] # 0 => Visible(j) /\ seen[j] >= pub[j]

LEMMA WatchedStart == Init => Watched
<1> SUFFICES ASSUME Init PROVE Watched
  OBVIOUS
<1>1. now = 1 /\ pub = <<>> /\ seen = <<>> /\ log = <<>> /\ pc = "lint"
  BY DEF Init
<1>2. DOMAIN pub = {}
  BY <1>1
<1> QED BY <1>1, <1>2, EmptyIsSeq DEF Watched

\* Nothing that was seen is unseen when time passes and the logs grow.
LEMMA WatchedOn ==
    ASSUME Watched, UNCHANGED <<case, s, pub, seen>>, now' \in Nat, now <= now',
           DOMAIN log' = DOMAIN log, IsSeq(log'), \A j \in DOMAIN log : log[j] \subseteq log'[j],
           pc' # "lint", pc' = "scan" => grace' \in Nat
    PROVE  Watched'
<1>1. now' \in Nat \ {0}
  BY DEF Watched
<1>2. Sinks' = Sinks /\ generic_miss' = generic_miss
  BY DEF Sinks, generic_miss, Submits, F
<1>3. ASSUME NEW j \in DOMAIN pub
      PROVE  /\ pub[j] \in Nat /\ pub[j] <= now' /\ seen[j] \in Nat
             /\ seen[j] # 0 => Visible(j)' /\ seen[j] >= pub[j]
  <2>1. /\ pub[j] \in Nat /\ pub[j] <= now /\ seen[j] \in Nat /\ log[j] \subseteq log'[j]
        /\ seen[j] # 0 => Visible(j) /\ seen[j] >= pub[j]
    BY DEF Watched
  <2>2. now \in Nat
    BY DEF Watched
  <2>3. Visible(j) => Visible(j)'
    BY <1>2, <2>1 DEF Visible
  <2> QED BY <2>1, <2>2, <2>3
<1> QED BY <1>1, <1>3 DEF Watched

\* A pass over the issues.
LEMMA WatchedSighted ==
    ASSUME Watched, UNCHANGED <<case, s, pub, log>>, seen' = Sighted, now' \in Nat, now <= now',
           pc' # "lint", pc' = "scan" => grace' \in Nat
    PROVE  Watched' /\ \A j \in DOMAIN pub : seen'[j] # 0 <=> Visible(j)
<1>1. now' \in Nat \ {0} /\ now \in Nat \ {0}
  BY DEF Watched
<1>2. \A j : Visible(j)' = Visible(j)
  BY DEF Visible, Sinks, generic_miss, Submits, F
<1>3. ASSUME NEW j \in DOMAIN pub
      PROVE  /\ pub[j] \in Nat /\ pub[j] <= now' /\ seen'[j] \in Nat
             /\ seen'[j] # 0 => Visible(j) /\ seen'[j] >= pub[j]
             /\ Visible(j) => seen'[j] # 0
  <2>1. /\ pub[j] \in Nat /\ pub[j] <= now /\ seen[j] \in Nat
        /\ seen[j] # 0 => Visible(j) /\ seen[j] >= pub[j]
    BY DEF Watched
  <2>2. seen'[j] = IF seen[j] = 0 /\ Visible(j) THEN now ELSE seen[j]
    BY DEF Watched, Sighted, Sight
  <2> QED BY <1>1, <2>1, <2>2
<1>4. DOMAIN seen' = DOMAIN pub /\ IsSeq(seen')
  <2>1. DOMAIN seen' = DOMAIN seen /\ seen' = [j \in DOMAIN seen |-> Sight(j)]
    BY DEF Sighted
  <2>2. Len(seen) \in Nat /\ DOMAIN seen = 1..Len(seen)
    BY DEF Watched, IsSeq
  <2>3. seen' \in Seq({seen'[j] : j \in DOMAIN seen'})
    BY <2>1, <2>2
  <2> QED BY <2>1, <2>3 DEF Watched, IsSeq
<1> QED BY <1>1, <1>2, <1>3, <1>4 DEF Watched

LEMMA DomainOfAny ==
    ASSUME NEW q, IsSeq(q) PROVE DOMAIN q = 1..Len(q)
  BY DEF IsSeq

\* An issue.
LEMMA WatchedSent ==
    ASSUME Watched, Shapes, NEW t \in Nat, Sent(t), t <= now', now' \in Nat, now <= now', pc = "issue"
    PROVE  Watched'
<1> DEFINE n == Len(pub)
<1>1. /\ IsSeq(pub) /\ IsSeq(seen) /\ IsSeq(log) /\ n \in Nat
      /\ DOMAIN pub = 1..n /\ DOMAIN seen = 1..n /\ DOMAIN log = 1..n /\ Len(seen) = n /\ Len(log) = n
  BY DEF Watched, Shapes, IsSeq
<1>2. UNCHANGED <<case, s>> /\ pc' = "issue"
  BY DEF Sent, input
<1>3. /\ IsSeq(pub') /\ DOMAIN pub' = 1..(n + 1) /\ pub'[n + 1] = t
      /\ \A j \in 1..n : pub'[j] = pub[j]
  BY <1>1, AppendToAny, DomainOfAny DEF Sent
<1>4. /\ IsSeq(seen') /\ DOMAIN seen' = 1..(n + 1) /\ seen'[n + 1] = 0
      /\ \A j \in 1..n : seen'[j] = seen[j]
  BY <1>1, AppendToAny, DomainOfAny DEF Sent
<1>5. /\ IsSeq(log') /\ DOMAIN log' = 1..(n + 1)
      /\ \A j \in 1..n : log'[j] = log[j]
  BY <1>1, AppendToAny, DomainOfAny DEF Sent
<1>6. Sinks' = Sinks /\ generic_miss' = generic_miss
  BY <1>2 DEF Sinks, generic_miss, Submits, F
<1>7. now' \in Nat \ {0} /\ now \in Nat
  BY DEF Watched
<1> HIDE DEF n
<1>8. ASSUME NEW j \in 1..(n + 1)
      PROVE  /\ pub'[j] \in Nat /\ pub'[j] <= now' /\ seen'[j] \in Nat
             /\ seen'[j] # 0 => Visible(j)' /\ seen'[j] >= pub'[j]
  <2>1. CASE j = n + 1
    BY <1>3, <1>4, <2>1
  <2>2. CASE j \in 1..n
    <3>1. /\ pub[j] \in Nat /\ pub[j] <= now /\ seen[j] \in Nat
          /\ seen[j] # 0 => Visible(j) /\ seen[j] >= pub[j]
      BY <1>1, <2>2 DEF Watched
    <3>2. Visible(j) => Visible(j)'
      BY <1>5, <1>6, <2>2 DEF Visible
    <3> QED BY <1>3, <1>4, <1>7, <2>2, <3>1, <3>2
  <2> QED BY <1>1, <2>1, <2>2
<1> QED BY <1>2, <1>3, <1>4, <1>5, <1>7, <1>8 DEF Watched

LEMMA WatchedStep ==
    ASSUME Inv, Watched, [Next]_vars
    PROVE  Watched'
<1>0. /\ now \in Nat \ {0} /\ IsSeq(log) /\ Grace \in Nat
      /\ \A j \in DOMAIN log : log[j] \subseteq log[j]
  BY BenchAssumption DEF Watched
<1>1. CASE UNCHANGED vars
  BY <1>1 DEF Watched, vars, input, loop, world, Visible, Sinks, generic_miss, Submits, F
<1>2. CASE Lint
  <2>1. pc = "lint" /\ UNCHANGED <<now, pub, seen, log, grace>> /\ pc' # "scan"
    BY <1>2 DEF Lint, End, loop, world
  <2>2. pub = <<>> /\ DOMAIN pub = {}
    BY <2>1 DEF Watched
  <2> QED BY <2>1, <2>2 DEF Watched
<1>3. CASE Begin \/ BeginFails
  <2>1. UNCHANGED <<case, s, pub, seen, now, log>> /\ pc' \notin {"lint", "scan"}
    BY <1>3 DEF Begin, BeginFails, End, input, loop, world
  <2> QED BY <1>0, <2>1, WatchedOn
<1>4. CASE Climb
  <2>1. CASE UNCHANGED <<loop, log>> /\ pc' = "over"
    <3>1. UNCHANGED <<case, s, pub, seen, now, log>>
      BY <1>4, <2>1 DEF Climb, input, loop
    <3> QED BY <1>0, <2>1, <3>1, WatchedOn
  <2>2. CASE pub' = <<>> /\ seen' = <<>> /\ log' = <<>> /\ pc' = "issue"
    <3>1. now' = now /\ DOMAIN pub' = {} /\ DOMAIN seen' = {} /\ DOMAIN log' = {}
      BY <1>4, <2>2 DEF Climb
    <3>2. IsSeq(seen') /\ IsSeq(log')
      BY <2>2, EmptyIsSeq
    <3> QED BY <1>0, <2>2, <3>1, <3>2 DEF Watched
  <2> QED BY <1>4, <2>1, <2>2 DEF Climb, End
<1>5. ASSUME Waited, pc = "issue" PROVE now' \in Nat /\ now <= now'
  <2>1. Rate \in Nat \ {0}
    BY <1>5, RatePositive DEF Inv
  <2>2. Second \div Rate \in Nat
    BY <2>1, BenchAssumption
  <2>3. PICK wait \in Paces : now' = now + wait
    BY <1>5 DEF Waited
  <2>4. wait \in Nat
    BY <2>2, <2>3, BenchAssumption DEF Paces
  <2> QED BY <1>0, <2>3, <2>4
<1>6. CASE IssuePub \/ IssueSubmit
  <2>1. PICK t \in {now', 0} : Sent(t)
    BY <1>6 DEF IssuePub, IssueSubmit
  <2>2. now' \in Nat /\ now <= now' /\ pc = "issue"
    BY <1>5, <1>6 DEF IssuePub, IssueSubmit
  <2>3. t \in Nat /\ t <= now'
    BY <2>1, <2>2
  <2> QED BY <2>1, <2>2, <2>3, WatchedSent DEF Inv
<1>7. CASE PubFails \/ SubmitFails
  <2>1. Waited /\ pc = "issue" /\ UNCHANGED <<case, s, pub, seen, log>> /\ pc' = "over"
    BY <1>7 DEF PubFails, SubmitFails, Fails, End, input, loop, world
  <2>2. now' \in Nat /\ now <= now'
    BY <1>5, <2>1
  <2> QED BY <1>0, <2>1, <2>2, WatchedOn
<1>8. CASE Issued
  <2>1. UNCHANGED <<case, s, pub, seen, log, now>> /\ pc' = "scan" /\ grace' = now + Grace
    BY <1>8 DEF Issued, input, world
  <2>2. grace' \in Nat
    BY <1>0, <2>1
  <2> QED BY <1>0, <2>1, <2>2, WatchedOn
<1>9. CASE Scan
  <2>1. /\ UNCHANGED <<case, s, pub, log, grace, pc>> /\ pc = "scan" /\ seen' = Sighted
        /\ now' = Min({now + 1, grace}) /\ ~(now >= grace)
    BY <1>9 DEF Scan, DwellOver, input, world
  <2>2. grace \in Nat
    BY <2>1 DEF Watched
  <2>3. now' \in Nat /\ now <= now'
    BY <1>0, <2>1, <2>2, MinOfTwo
  <2> QED BY <2>1, <2>2, <2>3, WatchedSighted
<1>10. CASE Measured \/ RampMeasured
  <2>1. /\ UNCHANGED <<case, s, pub, log, now>> /\ pc' \in {"climb", "over"} /\ seen' = Sighted
    BY <1>10 DEF Measured, RampMeasured, End, input, world
  <2> QED BY <1>0, <2>1, WatchedSighted
<1>11. CASE NodesDie
  <2>1. UNCHANGED <<case, s, pub, seen, log, now, grace, pc>> /\ pc # "lint"
    BY <1>11 DEF NodesDie, input, loop
  <2> QED BY <1>0, <2>1, WatchedOn DEF Watched
<1>12. CASE Deliver
  <2>1. UNCHANGED <<case, s, pub, seen, now, grace, pc>> /\ pc # "lint"
    BY <1>12 DEF Deliver, input, loop
  <2>2. PICK j \in DOMAIN log, k \in Sinks : log' = [log EXCEPT ![j] = @ \union {k}]
    BY <1>12 DEF Deliver
  <2>3. DOMAIN log' = DOMAIN log /\ \A i \in DOMAIN log : log[i] \subseteq log'[i]
    BY <2>2
  <2>4. IsSeq(log')
    <3>1. Len(log) \in Nat /\ DOMAIN log = 1..Len(log)
      BY <1>0 DEF IsSeq
    <3>2. log' = [i \in 1..Len(log) |-> log'[i]]
      BY <2>2, <3>1
    <3>3. log' \in Seq({log'[i] : i \in DOMAIN log'})
      BY <3>1, <3>2
    <3> QED BY <3>3 DEF IsSeq
  <2> QED BY <1>0, <2>1, <2>3, <2>4, WatchedOn DEF Watched
<1> QED BY <1>1, <1>2, <1>3, <1>4, <1>6, <1>7, <1>8, <1>9, <1>10, <1>11, <1>12
        DEF Next, Runner, Done

\* The issues after the warmup.
LEMMA AfterWarmup ==
    ASSUME NEW N \in Nat, NEW w \in Nat, NEW f, f = IF w <= N THEN w ELSE N
    PROVE  /\ f \in 0..N /\ {j \in 1..N : j > w} = (f + 1)..N
           /\ IsFiniteSet((f + 1)..N) /\ Cardinality((f + 1)..N) = N - f
<1>1. f \in 0..N
  OBVIOUS
<1>2. {j \in 1..N : j > w} = (f + 1)..N
  OBVIOUS
<1>3. f + 1 \in Int /\ N \in Int /\ f \in Int
  BY <1>1
<1>4. IsFiniteSet((f + 1)..N) /\ Cardinality((f + 1)..N) = IF f + 1 > N THEN 0 ELSE N - (f + 1) + 1
  BY <1>3, FS_Interval
<1>5. (IF f + 1 > N THEN 0 ELSE N - (f + 1) + 1) = N - f
  BY <1>1
<1>6. Cardinality((f + 1)..N) = N - f
  BY <1>4, <1>5, Zenon
<1> QED BY <1>1, <1>2, <1>4, <1>6, Zenon

\* A benchmark falls short of the smaller of its quotas.
LEMMA Overrun ==
    ASSUME NEW N \in Nat, NEW c \in Nat, NEW d \in Nat, NEW w \in Nat, d = 0 => w = 0,
           c # 0 \/ d # 0,
           NEW want, want = IF c = 0 THEN w ELSE IF d = 0 THEN c ELSE IF c <= w THEN c ELSE w
    PROVE  (want > N) = ((c # 0 => N < c) /\ (d # 0 => N < w))
<1>1. (want > N) <=> ((c # 0 => N < c) /\ (d # 0 => N < w))
  <2>1. CASE c = 0
    BY <2>1
  <2>2. CASE c # 0 /\ d = 0
    BY <2>2
  <2>3. CASE c # 0 /\ d # 0
    BY <2>3
  <2> QED BY <2>1, <2>2, <2>3
<1>2. (want > N) \in BOOLEAN /\ ((c # 0 => N < c) /\ (d # 0 => N < w)) \in BOOLEAN
  OBVIOUS
<1> QED BY <1>1, <1>2

LEMMA Percentiles ==
    ASSUME NEW H, NEW n, NEW p, NEW lat, Arranged(H, n, p, lat),
           NEW sv, sv = [i \in 1..n |-> lat[p[i]]]
    PROVE  /\ sv # <<>>
           /\ bench_pct(sv, 50) = RankOf(H, lat, 50) /\ bench_pct(sv, 99) = RankOf(H, lat, 99)
           /\ Last(sv) = RankOf(H, lat, 100)
<1>1. n \in Nat \ {0} /\ Len(sv) = n
  BY DEF Arranged
<1>2. ASSUME NEW r, NEW pct, IsRank(r, pct, n)
      PROVE  sv[r] = RankOf(H, lat, pct)
  <2>1. sv[r] = lat[p[r]]
    BY <1>2 DEF IsRank
  <2>2. RankOf(H, lat, pct) = lat[p[r]]
    BY <1>2, RankIs
  <2> QED BY <2>1, <2>2
<1>3. ASSUME NEW pct \in {50, 99} PROVE bench_pct(sv, pct) = RankOf(H, lat, pct)
  <2>1. PICK r : bench_pct(sv, pct) = sv[r] /\ IsRank(r, pct, n)
    BY <1>1, PctIs, Zenon
  <2> QED BY <1>2, <2>1, Zenon
<1>4. IsRank(n, 100, n)
  BY <1>1 DEF IsRank
<1>5. Last(sv) = sv[n] /\ sv # <<>>
  BY <1>1 DEF Last
<1>6. sv[n] = RankOf(H, lat, 100)
  BY <1>2, <1>4
<1>7. bench_pct(sv, 50) = RankOf(H, lat, 50) /\ bench_pct(sv, 99) = RankOf(H, lat, 99)
  BY <1>3
<1> QED BY <1>5, <1>6, <1>7

\* What a measured step reports of its issues is true.
LEMMA ReportTrue ==
    ASSUME Inv, Watched, pc = "scan", UNCHANGED <<case, s, pub, log>>,
           NEW gate \in Gates, NEW H, H = Hits(seen', gate), NEW sv \in qsort(seen', H),
           Last(stats') = bench_stats(sv),
           \A j \in DOMAIN pub : seen'[j] # 0 <=> Visible(j),
           \A j \in DOMAIN pub : /\ pub[j] \in Nat /\ seen'[j] \in Nat
                                 /\ seen'[j] # 0 => seen'[j] >= pub[j]
    PROVE  StatsTrue'
<1> DEFINE js   == {j \in DOMAIN pub : j > s.warmup}
           good == {j \in js : pub[j] # 0 /\ Visible(j)}
<1>1. PICK N \in Nat, f \in {First} : N = Len(pub) /\ DOMAIN pub = 1..N
  BY AppendToAny, DomainOfAny DEF Inv, Shapes
<1>2. Linted /\ Known
  BY DEF Inv, Known, Linted
<1>3. /\ s.warmup \in Nat /\ (s.ramp => s.warmup = 0)
      /\ ~s.ramp => /\ s.rate \in Nat \ {0} /\ s.count \in Nat /\ s.dur \in Nat
                    /\ s.count # 0 \/ s.dur # 0
  BY <1>2, PaceFacts
<1>4. /\ f \in 0..N /\ js = (f + 1)..N
      /\ IsFiniteSet(js) /\ Cardinality(js) = N - f
  <2>1. f = IF s.warmup <= N THEN s.warmup ELSE N
    <3>1. CASE s.ramp
      BY <1>1, <1>3, <3>1 DEF First
    <3>2. CASE ~s.ramp
      BY <1>1, <1>3, <3>2, MinOfTwo DEF First
    <3> QED BY <3>1, <3>2
  <2>2. js = {j \in 1..N : j > s.warmup}
    BY <1>1
  <2>3. PICK w \in Nat : w = s.warmup
    BY <1>3
  <2>4. /\ f \in 0..N /\ {j \in 1..N : j > w} = (f + 1)..N
        /\ IsFiniteSet((f + 1)..N) /\ Cardinality((f + 1)..N) = N - f
    <3>1. f = IF w <= N THEN w ELSE N
      BY <2>1, <2>3
    <3> QED BY <3>1, AfterWarmup
  <2>5. js = (f + 1)..N
    BY <2>2, <2>3, <2>4
  <2> HIDE DEF js
  <2> QED BY <2>4, <2>5
<1>5. PICK m : m = bench_stats(sv)
  OBVIOUS
<1>6. /\ m.count = N - f /\ m.loss = (N - f) - Len(sv)
      /\ m.overrun = (bench_want > N)
      /\ m.p50 = bench_pct(sv, 50) /\ m.p99 = bench_pct(sv, 99)
      /\ m.max = IF sv = <<>> THEN 0 ELSE Last(sv)
  BY <1>1, <1>4, <1>5 DEF bench_stats
<1>7. H \subseteq js /\ IsFiniteSet(H)
  <2>1. H \subseteq js
    BY <1>1, <1>4 DEF Hits
  <2> HIDE DEF js
  <2> QED BY <1>4, <2>1, FS_Subset
<1>8. gate => H = good
  <2>1. ASSUME NEW j \in js PROVE Hit(seen', j) <=> pub[j] # 0 /\ Visible(j)
    BY <2>1 DEF Hit
  <2>2. gate => H = {j \in js : Hit(seen', j)}
    BY <1>1, <1>4 DEF Hits
  <2> HIDE DEF js
  <2> QED BY <2>1, <2>2
<1>9. gate \in BOOLEAN /\ (~gate => H = {} /\ s.expect = "prometheus-scrape")
  BY DEF Hits, Gates
<1>10. PICK n \in Nat : n = Cardinality(H) /\ (n = 0 <=> H = {})
  BY <1>7, FS_CardinalityType, FS_EmptySet
<1>11. PICK lat \in [H -> Int] : \A j \in H : lat[j] = seen'[j] - pub[j]
  <2>1. \A j \in H : seen'[j] - pub[j] \in Int
    BY <1>7
  <2>2. [j \in H |-> seen'[j] - pub[j]] \in [H -> Int]
    BY <2>1
  <2> WITNESS [j \in H |-> seen'[j] - pub[j]] \in [H -> Int]
  <2> QED OBVIOUS
<1>12. PICK p \in Bijection(1..n, H) :
          /\ \A i, k \in 1..n : i < k => lat[p[i]] <= lat[p[k]]
          /\ sv = [i \in 1..n |-> lat[p[i]]]
  <2>1. PICK p \in Bijection(1..n, H) :
            /\ \A i, k \in DOMAIN p : i < k => seen'[p[i]] - pub[p[i]] <= seen'[p[k]] - pub[p[k]]
            /\ sv = [i \in DOMAIN p |-> seen'[p[i]] - pub[p[i]]]
    BY <1>10 DEF qsort
  <2>2. p \in [1..n -> H]
    BY <2>1 DEF Bijection, Injection
  <2>3. DOMAIN p = 1..n /\ \A i \in 1..n : p[i] \in H /\ lat[p[i]] = seen'[p[i]] - pub[p[i]]
    BY <1>11, <2>2
  <2>4. \A i, k \in 1..n : i < k => lat[p[i]] <= lat[p[k]]
    <3>1. ASSUME NEW i \in 1..n, NEW k \in 1..n, i < k PROVE lat[p[i]] <= lat[p[k]]
      <4>1. i \in DOMAIN p /\ k \in DOMAIN p
        BY <2>3
      <4>2. seen'[p[i]] - pub[p[i]] <= seen'[p[k]] - pub[p[k]]
        BY <2>1, <3>1, <4>1
      <4>3. lat[p[i]] = seen'[p[i]] - pub[p[i]] /\ lat[p[k]] = seen'[p[k]] - pub[p[k]]
        BY <2>3
      <4> QED BY <4>2, <4>3, Zenon
    <3> QED BY <3>1
  <2>5. sv = [i \in 1..n |-> lat[p[i]]]
    BY <2>1, <2>3
  <2> QED BY <2>1, <2>4, <2>5, Zenon
<1>13. Len(sv) = n
  BY <1>12
<1>14. ASSUME n # 0
       PROVE  m.p50 = RankOf(H, lat, 50) /\ m.p99 = RankOf(H, lat, 99) /\ m.max = RankOf(H, lat, 100)
  <2>1. Arranged(H, n, p, lat)
    BY <1>10, <1>11, <1>12, <1>14 DEF Arranged
  <2>2. /\ sv # <<>>
        /\ bench_pct(sv, 50) = RankOf(H, lat, 50) /\ bench_pct(sv, 99) = RankOf(H, lat, 99)
        /\ Last(sv) = RankOf(H, lat, 100)
    BY <1>12, <2>1, Percentiles
  <2> QED BY <1>6, <2>2
<1>15. ASSUME NEW pct \in Nat, n # 0 PROVE NearestRank(H, pct)' = RankOf(H, lat, pct)
  <2>1. H # {}
    BY <1>10, <1>15
  <2>2. lat = [j \in H |-> seen'[j] - pub'[j]]
    BY <1>11
  <2>3. NearestRank(H, pct)' = RankOf(H, [j \in H |-> seen'[j] - pub'[j]], pct)
    BY <2>1 DEF NearestRank, RankOf
  <2> QED BY <2>2, <2>3
<1>16. ~s.ramp => (m.overrun = (/\ s.count # 0 => N < s.count
                                /\ s.dur # 0 => N < s.rate * s.dur))
  <2>1. SUFFICES ASSUME ~s.ramp
                 PROVE  m.overrun = (/\ s.count # 0 => N < s.count
                                     /\ s.dur # 0 => N < s.rate * s.dur)
    OBVIOUS
  <2>2. PICK w \in Nat : w = s.rate * s.dur /\ (s.dur = 0 => w = 0)
    BY <1>3, <2>1
  <2>3. PICK want : want = bench_want
    OBVIOUS
  <2>4. want = IF s.count = 0 THEN w
               ELSE IF s.dur = 0 THEN s.count ELSE IF s.count <= w THEN s.count ELSE w
    BY <1>3, <2>1, <2>2, <2>3, MinOfTwo DEF bench_want
  <2>5. (want > N) = ((s.count # 0 => N < s.count) /\ (s.dur # 0 => N < w))
    BY <1>3, <2>1, <2>2, <2>4, Overrun
  <2> QED BY <1>6, <2>2, <2>3, <2>5
<1>17. /\ m.count = Cardinality(js)
       /\ \/ m.loss = m.count - Cardinality(good)
          \/ s.expect = "prometheus-scrape" /\ m.loss = m.count
       /\ m.loss # m.count => H = good /\ n # 0
  <2>1. m.count \in Nat /\ m.loss = m.count - n /\ m.count = Cardinality(js)
    BY <1>4, <1>6, <1>13
  <2>2. m.loss = m.count <=> n = 0
    BY <2>1
  <2> HIDE DEF js, good
  <2>3. CASE gate
    BY <1>8, <1>10, <2>1, <2>2, <2>3
  <2>4. CASE ~gate
    BY <1>9, <1>10, <2>1, <2>2, <2>4
  <2> QED BY <1>9, <2>3, <2>4
<1>18. /\ s' = s /\ DOMAIN pub' = DOMAIN pub /\ pub' = pub
       /\ \A j : Visible(j)' = Visible(j)
  BY DEF Visible, Sinks, generic_miss, Submits, F
<1>19. m.loss # m.count => /\ m.p50 = NearestRank(H, 50)' /\ m.p99 = NearestRank(H, 99)'
                           /\ m.max = NearestRank(H, 100)' /\ H = good
  <2> HIDE DEF good
  <2> QED BY <1>14, <1>15, <1>17
<1>20. /\ js' = js /\ good' = good /\ s' = s
       /\ Len(pub') = N /\ Last(stats') = m
  BY <1>1, <1>5, <1>18
<1>21. StatsTrue' <=>
          (Reported' =>
              /\ Last(stats').count = Cardinality(js')
              /\ \/ Last(stats').loss = Last(stats').count - Cardinality(good')
                 \/ s'.expect = "prometheus-scrape" /\ Last(stats').loss = Last(stats').count
              /\ Last(stats').loss # Last(stats').count
                     => /\ Last(stats').p50 = NearestRank(good, 50)'
                        /\ Last(stats').p99 = NearestRank(good, 99)'
                        /\ Last(stats').max = NearestRank(good, 100)'
              /\ ~s'.ramp => Last(stats').overrun =
                     (/\ s'.count # 0 => Len(pub') < s'.count
                      /\ s'.dur # 0 => Len(pub') < s'.rate * s'.dur))
  BY Zenon DEF StatsTrue
<1> HIDE DEF js, good
<1>22. H = good => \A pct : NearestRank(H, pct)' = NearestRank(good, pct)'
  <2>1. ASSUME NEW pct, H = good'
        PROVE  NearestRank(H, pct)' = NearestRank(good, pct)'
    BY <2>1 DEF NearestRank
  <2> QED BY <1>20, <2>1
<1> QED BY <1>16, <1>17, <1>19, <1>20, <1>21, <1>22, Zenon

LEMMA StatsStep ==
    ASSUME Inv, Watched, StatsTrue, [Next]_vars
    PROVE  StatsTrue'
<1> SUFFICES ASSUME Reported' PROVE StatsTrue'
  BY DEF StatsTrue
<1>1. pc # "over" => verdict = "none"
  BY DEF Inv, Known
<1>2. CASE UNCHANGED <<case, s, stats, pub, seen, log>> /\ Reported
  <2>1. \A j : Visible(j)' = Visible(j)
    BY <1>2 DEF Visible, Sinks, generic_miss, Submits, F
  <2>2. PICK js, good : /\ js = {j \in DOMAIN pub : j > s.warmup}
                        /\ good = {j \in js : pub[j] # 0 /\ Visible(j)}
    OBVIOUS
  <2>3. js = {j \in DOMAIN pub' : j > s'.warmup} /\ good = {j \in js : pub'[j] # 0 /\ Visible(j)'}
    BY <1>2, <2>1, <2>2
  <2>4. \A pct : NearestRank(good, pct)' = NearestRank(good, pct)
    BY <1>2 DEF NearestRank
  <2>5. PICK m : m = Last(stats) /\ m = Last(stats')
    BY <1>2
  <2>6. /\ m.count = Cardinality(js)
        /\ \/ m.loss = m.count - Cardinality(good)
           \/ s.expect = "prometheus-scrape" /\ m.loss = m.count
        /\ m.loss # m.count => /\ m.p50 = NearestRank(good, 50) /\ m.p99 = NearestRank(good, 99)
                               /\ m.max = NearestRank(good, 100)
        /\ ~s.ramp => m.overrun = (/\ s.count # 0 => Len(pub) < s.count
                                   /\ s.dur # 0 => Len(pub) < s.rate * s.dur)
    BY <1>2, <2>2, <2>5, Zenon DEF StatsTrue
  <2>7. /\ m.count = Cardinality(js)
        /\ \/ m.loss = m.count - Cardinality(good)
           \/ s'.expect = "prometheus-scrape" /\ m.loss = m.count
        /\ m.loss # m.count => /\ m.p50 = NearestRank(good, 50)' /\ m.p99 = NearestRank(good, 99)'
                               /\ m.max = NearestRank(good, 100)'
        /\ ~s'.ramp => m.overrun = (/\ s'.count # 0 => Len(pub') < s'.count
                                    /\ s'.dur # 0 => Len(pub') < s'.rate * s'.dur)
    BY <1>2, <2>4, <2>6
  <2> QED BY <2>3, <2>5, <2>7, Zenon DEF StatsTrue
<1>3. CASE UNCHANGED vars
  BY <1>2, <1>3 DEF vars, input, loop, world, report, Reported
<1>4. CASE Lint \/ Begin \/ BeginFails
  <2>1. pc \in {"lint", "begin"} /\ UNCHANGED stats
    BY <1>4 DEF Lint, Begin, BeginFails, report
  <2>2. stats = <<>>
    BY <2>1 DEF Inv, Climbing, Running
  <2> QED BY <2>1, <2>2 DEF Reported
<1>5. CASE Climb
  <2>1. pc = "climb" /\ UNCHANGED <<case, s, stats>> /\ verdict = "none"
    BY <1>1, <1>5 DEF Climb, input
  <2>2. CASE UNCHANGED <<loop, log>>
    BY <1>2, <2>1, <2>2 DEF Reported, loop
  <2>3. CASE pc' = "issue" /\ UNCHANGED verdict
    BY <2>1, <2>3 DEF Reported
  <2> QED BY <1>5, <2>2, <2>3 DEF Climb
<1>6. CASE IssuePub \/ IssueSubmit
  BY <1>1, <1>6 DEF IssuePub, IssueSubmit, Sent, Reported
<1>7. CASE PubFails \/ SubmitFails
  BY <1>7 DEF PubFails, SubmitFails, Fails, End, Reported
<1>8. CASE Issued \/ Scan \/ Deliver \/ NodesDie
  BY <1>1, <1>8 DEF Issued, Scan, Deliver, NodesDie, Reported
<1>9. CASE Measured \/ RampMeasured
  <2>1. /\ pc = "scan" /\ UNCHANGED <<case, s, pub, log, now>> /\ seen' = Sighted
        /\ pc' \in {"climb", "over"}
    BY <1>9 DEF Measured, RampMeasured, End, input, world
  <2>2. PICK gate \in Gates : \E sv \in qsort(seen', Hits(seen', gate)) :
            stats' = <<bench_stats(sv)>> \/ stats' = Append(stats, bench_stats(sv))
    BY <1>9 DEF Measured, RampMeasured
  <2>3. PICK sv \in qsort(seen', Hits(seen', gate)) :
            stats' = <<bench_stats(sv)>> \/ stats' = Append(stats, bench_stats(sv))
    BY <2>2
  <2>4. PICK m : m = bench_stats(sv)
    OBVIOUS
  <2>5. Last(stats') = m
    <3>1. CASE stats' = <<m>>
      BY <3>1 DEF Last
    <3>2. CASE stats' = Append(stats, m)
      <4>1. IsSeq(stats)
        BY DEF Inv, Shapes
      <4>2. Len(stats') = Len(stats) + 1 /\ stats'[Len(stats) + 1] = m
        BY <3>2, <4>1, AppendToAny
      <4> QED BY <4>2, Zenon DEF Last
    <3> QED BY <2>3, <2>4, <3>1, <3>2
  <2>6. now \in Nat /\ now <= now
    BY DEF Watched
  <2>7. Watched' /\ \A j \in DOMAIN pub : seen'[j] # 0 <=> Visible(j)
    BY <2>1, <2>6, WatchedSighted
  <2>8. \A j \in DOMAIN pub : /\ pub[j] \in Nat /\ seen'[j] \in Nat
                              /\ seen'[j] # 0 => seen'[j] >= pub[j]
    BY <2>1, <2>7 DEF Watched
  <2>9. PICK H : H = Hits(seen', gate)
    OBVIOUS
  <2> QED BY <2>1, <2>3, <2>4, <2>5, <2>7, <2>8, <2>9, ReportTrue, Zenon
<1> QED BY <1>3, <1>4, <1>5, <1>6, <1>7, <1>8, <1>9 DEF Next, Runner, Done

\* The metrics tell the truth: what was seen was visible and not before it was
\* sent, so the hits of a report are the stamped issues that are in every log,
\* and the sorted times put the nearest rank of a percentage at its rank.
THEOREM MetricsAreTrue == Spec => []StatsTrue
<1>1. Init => Watched /\ StatsTrue
  <2>1. Init => StatsTrue
    BY DEF Init, StatsTrue, Reported
  <2> QED BY <2>1, WatchedStart
<1>2. Inv /\ Watched /\ StatsTrue /\ [Next]_vars => Watched' /\ StatsTrue'
  BY WatchedStep, StatsStep
<1> QED BY <1>1, <1>2, Inductive, PTL DEF Spec
=============================================================================

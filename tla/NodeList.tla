------------------------------ MODULE NodeList ------------------------------
(***************************************************************************)
(* The list of live nodes of the simulation core (node/node.c): a packed   *)
(* array and a directory from ids to slots.  Slots count from one, and 0   *)
(* stands for SIZE_MAX.  Removal moves the last node into the hole.        *)
(* context_add_node hands out the ids.                                     *)
(***************************************************************************)
EXTENDS Integers, Sequences

CONSTANTS Places,  \* where a node may be
          MaxIds   \* bound on the nodes ever added

ASSUME NodeListAssumption == MaxIds \in Nat

VARIABLES data,    \* NodeList.data; born is history, the count of nodes before
          by_id,   \* NodeList.by_id
          next_id  \* Context.next_node_id

listVars == <<data, by_id, next_id>>

Node == [id : Nat, at : Places, born : Nat]

ListTypeOK ==
    /\ data \in Seq(Node)
    /\ next_id \in 0..MaxIds
    /\ DOMAIN by_id \subseteq Nat
    /\ by_id \in [DOMAIN by_id -> 0..Len(data)]

ListInit == data = <<>> /\ by_id = [k \in {} |-> 0] /\ next_id = 0

\* ensure_index_cap: the directory doubles, and new slots are empty.  Ids come
\* one after the other, so that one doubling is enough.
Grown(id) ==
    [k \in DOMAIN by_id \union 0..id \union 0..(2 * id - 1) |->
        IF k \in DOMAIN by_id THEN by_id[k] ELSE 0]

\* nodelist_find: the directory names a slot.
Live(id) == id \in DOMAIN by_id /\ by_id[id] # 0

NodeOf(id) == data[by_id[id]]

\* Slip: the id is the slot, which a removal has made free again.
AddNodeReuse(p) ==
    LET id == Len(data)
    IN  /\ next_id < MaxIds /\ ~Live(id)
        /\ data' = Append(data, [id |-> id, at |-> p, born |-> next_id])
        /\ by_id' = [Grown(next_id) EXCEPT ![id] = Len(data) + 1]
        /\ next_id' = next_id + 1

\* context_add_node and nodelist_push.
AddNode(p) ==
    /\ next_id < MaxIds /\ ~Live(next_id)
    /\ data' = Append(data, [id |-> next_id, at |-> p, born |-> next_id])
    /\ by_id' = [Grown(next_id) EXCEPT ![next_id] = Len(data) + 1]
    /\ next_id' = next_id + 1

\* Slip: the directory is not told of the move.
RemoveNodeStale(id) ==
    LET s    == by_id[id]
        last == Len(data)
    IN  /\ Live(id)
        /\ data' = SubSeq([data EXCEPT ![s] = data[last]], 1, last - 1)
        /\ by_id' = [by_id EXCEPT ![id] = 0]
        /\ UNCHANGED next_id

\* context_remove_node, nodelist_remove_by_id and nodelist_remove_unordered.
RemoveNode(id) ==
    LET s    == by_id[id]
        last == Len(data)
    IN  /\ Live(id)
        /\ data' = SubSeq([data EXCEPT ![s] = data[last]], 1, last - 1)
        /\ by_id' = IF s = last THEN [by_id EXCEPT ![id] = 0]
                    ELSE [by_id EXCEPT ![id] = 0, ![data[last].id] = s]
        /\ UNCHANGED next_id

\* The directory and the array agree in both directions, whatever was added
\* and removed: each node is found under its id in its slot, and what is found
\* under an id is the node of that id.  So a lookup never yields another node
\* or a slot beyond the end.
Directory ==
    /\ \A s \in 1..Len(data) :
           data[s].id \in DOMAIN by_id /\ by_id[data[s].id] = s
    /\ \A k \in DOMAIN by_id :
           by_id[k] # 0 => by_id[k] \in 1..Len(data) /\ data[by_id[k]].id = k
=============================================================================

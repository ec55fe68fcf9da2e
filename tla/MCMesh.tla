------------------------------- MODULE MCMesh -------------------------------
(* Three nodes a metre apart; a place off the map.                      *)
EXTENDS Mesh

FarAway     == {9}
AnyShape    == {[loss |-> "may", cap |-> "may", dup |-> "may", slow |-> 0]}
SomeScopes  == {{1, 2}, {2, 3}}
WritesFail  == {{}, {2}}
OneSender   == {1}

(* Eleven nodes and the table as large as it is.                           *)
Everybody   == {Nodes}
NoPlaces    == {}
NoFailure   == {{}}
=============================================================================

------------------------------ MODULE MCRunIds ------------------------------
(* The run-id allocator: two processes that contend for two ids.           *)
EXTENDS RunIds

CONSTANTS a, b

TwoProcs == {a, b}
=============================================================================

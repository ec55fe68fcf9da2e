----------------------------- MODULE MCSimCore -----------------------------
EXTENDS SimCore

\* Three places in a row: neighbours hear each other, the ends do not.
MCPlaces == {0, 1, 2}

\* A heap of three levels with no nodes, or nodes with few events.
MCBudgets == {[ids |-> 0, events |-> 6], [ids |-> 3, events |-> 2]}
=============================================================================

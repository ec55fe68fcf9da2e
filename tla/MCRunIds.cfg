SPECIFICATION FairSpec
CONSTANTS
    a = a
    b = b
    Procs <- TwoProcs
    MaxId = 2
    None = None
INVARIANTS PinsOnlyHeld
PROPERTIES CallReturns LeaseSpec

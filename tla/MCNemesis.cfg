SPECIFICATION FairSpec
CONSTANTS
    Nodes = 2
    MaxPhases = 4
    MaxFaults = 1
    MaxTry = 5
    MaxPass = 2
    OracleCap = 5
    Given <- MCGiven
    MaxDepth = 64
CHECK_DEADLOCK FALSE
INVARIANTS FilesLint KeepsFail CutsAgree
PROPERTIES SweepsWhole MinimizeEnds

SPECIFICATION NetSpec
CONSTANTS
    a = a
    b = b
    Procs <- TwoProcs
    MaxId = 2
    MaxNodes = 2
    None = None
    Left = Left
SYMMETRY Swap
INVARIANTS OwnNet NothingLeft

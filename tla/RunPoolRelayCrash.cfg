SPECIFICATION KernelSpec
CONSTANTS
    N = 1
    Jobs = 2
    RelayCrash = TRUE
CHECK_DEADLOCK FALSE
PROPERTIES LeftoversDie

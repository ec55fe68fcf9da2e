SPECIFICATION KernelSpec
CONSTANTS
    N = 3
    Jobs = 2
    RelayCrash = FALSE
CHECK_DEADLOCK FALSE
INVARIANTS TallyTrue
PROPERTIES SignalsAimed InterruptEnds LeftoversDie PoolEnds

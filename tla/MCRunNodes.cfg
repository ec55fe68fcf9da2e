SPECIFICATION FairSpec
CONSTANTS
    p1 = p1
    p2 = p2
    p3 = p3
    d1 = d1
    d2 = d2
    d3 = d3
    None = None
    N = 2
    Pids <- ThreePids
    Fds <- ThreeFds
INVARIANTS ChildrenTracked OneProcPerNode LogsRouted NoLeak
PROPERTIES SignalsOwn TeardownEnds

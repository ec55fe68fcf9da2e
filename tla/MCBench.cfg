CONSTANTS
    WeldCap = 4
    ConcCap = 3
    MaxWl = 4
    RampSteps = 2
    Cases <- MCCases
    Second = 2
    Grace = 2
    MaxLate = 1
    Unstamped = {1}
SPECIFICATION Spec
INVARIANTS BackstopsIdle RelayHeld StatsTrue Ladder
PROPERTY BenchEnds

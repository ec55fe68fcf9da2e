SPECIFICATION FairSpec
CONSTANTS
    Files <- ThreeFiles
    FileTimeout = 5
    QueryGap = 2
    SampleGap = 1
    TPS = 2
    MaxStall = 1
CHECK_DEADLOCK FALSE
INVARIANTS CleanExit
PROPERTIES HoldObserved SustainUnbroken AnswersFresh FileEnds

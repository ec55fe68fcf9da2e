SPECIFICATION Spec
CONSTANTS
    N = 11
    EdgeMax = 100
    Reach = 2
    Span = 8
    Places <- NoPlaces
    Shapes <- NoPlaces
    SlowSecs = 1
    Scopes <- Everybody
    BadWrites <- NoFailure
    QueueMax = 1
    Senders <- OneSender
    InFlight = 1
    MaxSteps = 1
INVARIANTS DeafArmed

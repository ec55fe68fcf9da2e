SPECIFICATION FairSpec
CONSTANTS
    N = 3
    EdgeMax = 6
    Reach = 2
    Span = 8
    Places <- FarAway
    Shapes <- AnyShape
    SlowSecs = 2
    Scopes <- SomeScopes
    BadWrites <- WritesFail
    QueueMax = 2
    Senders <- OneSender
    InFlight = 3
    MaxSteps = 3
INVARIANTS DeafArmed Accounted
PROPERTIES LinkSpec BacklogMoves

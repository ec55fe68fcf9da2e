CONSTANTS
    MaxWl = 5
    BenchCap = 3
    MaxLen = 4
    Steps <- MCSteps
SPECIFICATION WlSpec
INVARIANTS PlainFilesRun NamesExact
CHECK_DEADLOCK FALSE

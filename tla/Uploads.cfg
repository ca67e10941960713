SPECIFICATION Spec
CONSTANTS
    MaxChunks = 3
    MaxWorkers = 2
    Attempts = 2
    Passes = 2
    MaxFaults = 3
INVARIANTS
    ReadyIsComplete
    DoneIsReady
    OneSenderPerChunk
PROPERTIES
    CancelIsFinal
    Terminates
CHECK_DEADLOCK FALSE

SPECIFICATION Spec
CONSTANTS
    RetryMax = 2
    Backoff = 1
    PipeCap = 1
    Limit = 1
    MaxWrite = 2
INVARIANTS OutputIsComplete NothingOutlivesCall
PROPERTIES ImplementsCall InterruptEndsCall CallEnds

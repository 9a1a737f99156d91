\* Two rotations and a truncation; polls of at most two bytes or one line; a channel of one event.
SPECIFICATION TailerFairSpec
CONSTANTS
    Ends <- MCEnds
    TailLines = 2
    MaxRead = 2
    MaxLines = 1
    SampleSize = 2
    RotateSize = 3
    MaxBytes = 7
    MaxFiles = 3
    Truncations = 1
    KeepsUp = TRUE
    EventBuffer = 1
INVARIANTS
    IInv
    ExactlyOnce
    NoSplicedLine
PROPERTIES
    EveryLineArrives
    CallsReturn
CHECK_DEADLOCK FALSE

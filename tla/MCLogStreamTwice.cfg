\* One truncation, seen by the follower.
SPECIFICATION Spec
CONSTANTS
    Ends <- MCEnds
    TailLines = 1
    MaxRead = 8
    MaxLines = 8
    SampleSize = 2
    RotateSize = 2
    MaxBytes = 8
    MaxFiles = 1
    Truncations = 1
    KeepsUp = TRUE
INVARIANTS
    NoLineTwice
CHECK_DEADLOCK FALSE

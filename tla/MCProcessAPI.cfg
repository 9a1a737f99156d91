\* Persistent mode, max_restarts 3, three generations, two concurrent Stops.
SPECIFICATION Spec
CONSTANTS
    p1 = p1
    c1 = c1
    c2 = c2
    Procs <- MCProcs
    Callers <- MCCallers
    Heartbeat <- NoHeartbeat
    MaxRestarts <- Limit3
    InitialBackoff = 2
    MaxBackoff = 6
    KillMayFail = TRUE
    MaxGen = 3
    RestartCap = 4
SYMMETRY CallerSymmetry
INVARIANTS
    IInv
    NoOrphan
    StatusHonest
    WakeIsFresh
    BackoffTracksRestarts
PROPERTIES
    StopIsComplete
    ImplementsLifecycle

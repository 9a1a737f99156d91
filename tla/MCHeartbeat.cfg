\* Heartbeat mode with max_restarts 3, liveness: taskkill works; no symmetry.
SPECIFICATION FairSpec
CONSTANTS
    p1 = p1
    c1 = c1
    c2 = c2
    Procs <- MCProcs
    Callers <- MCCallers
    Heartbeat <- AllHeartbeat
    MaxRestarts <- Limit3
    InitialBackoff = 2
    MaxBackoff = 3
    KillMayFail = FALSE
    MaxGen = 2
    RestartCap = 3
INVARIANTS
    BackoffTracksRestarts
PROPERTIES
    StopReturns
    ExecIsNotLost

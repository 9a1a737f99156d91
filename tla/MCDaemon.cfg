\* All requests; enable, disable and reload overlap no other.
SPECIFICATION Spec
CONSTANTS
    p1 = p1
    p2 = p2
    n1 = n1
    c1 = c1
    c2 = c2
    run = run
    Nil = Nil
    Procs <- MCProcs
    Names <- MCNames
    Clients <- MCClients
    Commands <- MCCommands
    Ops <- AllOps
    Alone <- OpsAlone
    FailingSaves <- UndoneOps
    UserEdits = TRUE
    Heartbeat <- NoHeartbeat
    MaxRestarts <- Limit2
    InitialBackoff = 1
    MaxBackoff = 1
    KillMayFail = TRUE
    MaxGen = 2
    RestartCap = 2
SYMMETRY Symmetry
INVARIANTS
    IInv
    EveryChildIsManaged
    IntentAgrees
    ConfigIsDurable
PROPERTIES
    DisableIsComplete

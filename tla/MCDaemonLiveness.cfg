\* Liveness: enable, stop, delete and reload overlap, saves may fail, taskkill works; no symmetry.
SPECIFICATION FairSpec
CONSTANTS
    p1 = p1
    p2 = p2
    n1 = n1
    c1 = c1
    c2 = c2
    run = run
    Nil = Nil
    Procs <- MCProcs
    Names <- MCNames
    Clients <- MCClients
    Commands <- MCCommands
    Ops <- Blocking
    Alone <- NoOps
    FailingSaves <- Blocking
    UserEdits = FALSE
    Heartbeat <- NoHeartbeat
    MaxRestarts <- Unlimited
    InitialBackoff = 1
    MaxBackoff = 1
    KillMayFail = FALSE
    MaxGen = 2
    RestartCap = 0
PROPERTIES
    RequestsReturn

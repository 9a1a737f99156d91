SPECIFICATION FairSpec
CONSTANTS
    Daemons = {1, 2}
    Clients = {c1}
    Angls = {"a", "b"}
    Nil = Nil
INVARIANTS
    IInv
    EnabledRuns
PROPERTIES
    Durable
    OneCopyAgain
    CommandsReturn

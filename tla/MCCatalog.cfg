SPECIFICATION FairSpec
CONSTANTS
    c1 = c1
    c2 = c2
    Nil = Nil
    Names = {"n"}
    Keys = {"role", "state"}
    Reserved = {"state"}
    Values = {"running", "x"}
    Views = {"v"}
    Selectors <- MCSelectors
    Clients = {c1, c2}
    Asked <- MCAsked
    Queried <- MCQueried
INVARIANTS
    IInv
PROPERTIES
    NoSilentOverwrite
    ImplementsAtomicCatalog
    QueryIsIntersection
    CommandsReturn

\* Three angls that come and go in any combination.
SPECIFICATION Spec
CONSTANTS
    Names <- MCNames
    Verbs <- MCVerbs
INVARIANTS
    IInv
    YesIsHeeded
PROPERTIES
    TargetsWereShown
    CursorFollows

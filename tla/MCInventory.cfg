\* The ticker and one listener with two changes or catalog errors, or two listeners with one; liveness, so no symmetry.
SPECIFICATION FairSpec
CONSTANTS
    l1 = l1
    l2 = l2
    up = up
    plain = plain
    tagged = tagged
    Names <- MCNames
    Statuses <- OneStatus
    Labels <- Tags
    NoLabels = plain
    Nil = Nil
    Listeners <- MCListeners
    Watcher = Watcher
    WireCap = 1
    MaxEvents = 3
INVARIANTS
    IInv
    NoUpdateGap
    ViewIsPublished
    SendNeverBlocks
PROPERTIES
    ViewBecomesCurrent
CHECK_DEADLOCK FALSE

SPECIFICATION FairSpec
CONSTANTS
    Kinds <- AllKinds
    Max = 2
    DaemonBoxes <- UserBoxes
    ClientBoxes <- AppBoxes
    Patient = TRUE
    MaxMoves = 2
    MaxRequests = 1
    MaxOthers = 1
    MaxPending = 1
INVARIANTS TypeOK Agreement HostAsDocumented
PROPERTIES DaemonAnswered ResizeEnds
CHECK_DEADLOCK FALSE

SPECIFICATION FairSpec
CONSTANTS
    Kinds <- Toplevel
    Max = 2
    DaemonBoxes <- UserBoxes
    ClientBoxes <- AppBoxes
    Patient = FALSE
    MaxMoves = 1
    MaxRequests = 0
    MaxOthers = 1
    MaxPending = 1
PROPERTY ResizeEnds
CHECK_DEADLOCK FALSE

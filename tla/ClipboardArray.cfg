SPECIFICATION Spec
CONSTANTS
    d1 = d1
    d2 = d2
    NoPipe = NoPipe
    NoData = NoData
    Client = Client
    Data <- TwoContents
    Lengths = {1, 4}
    Pipes = {1}
    Chunks = {1}
    MaxWritten = 6
    Header = 3
    MaxSize = 5
    Growth = 2
    MinAlloc = 4
    MaxDoublings = 6
    ClientCapacity = 3
    OwnCapacity = 6
INVARIANT ArrayNotTooLarge
CHECK_DEADLOCK FALSE

SPECIFICATION FairSpec
CONSTANTS
    d1 = d1
    d2 = d2
    NoPipe = NoPipe
    NoData = NoData
    Client = Client
    Data <- TwoContents
    Lengths = {4}
    Pipes = {1, 2}
    Chunks = {1}
    MaxWritten = 5
    Header = 1
    MaxSize = 4
    Growth = 1
    MinAlloc = 2
    MaxDoublings = 6
    ClientCapacity = 3
    OwnCapacity = 4
INVARIANTS TypeOK RefsExact PastedWhole SentAsWritten NeverBlocksItself
PROPERTY TransfersEnd
CHECK_DEADLOCK FALSE

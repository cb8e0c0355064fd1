SPECIFICATION Spec
CONSTANTS
  w1 = w1
  w2 = w2
  Windows = {w1, w2}
  NullPtr = NullPtr
  NoEntry = NoEntry
  Kind <- MCKindXwayland
  Parent <- MCNoParents
  Oversized = {}
  EarlyClients = TRUE
  MaxWid = 3
  MaxSessions = 1
  MaxQueue = 1
INVARIANTS NoSecondCreate
CHECK_DEADLOCK FALSE

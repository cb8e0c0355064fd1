SPECIFICATION Spec
CONSTANTS
  w1 = w1
  w2 = w2
  Windows = {w1, w2}
  NullPtr = NullPtr
  NoEntry = NoEntry
  Kind <- MCKindXwayland
  Parent <- MCNoParents
  Oversized = {w1, w2}
  EarlyClients = TRUE
  MaxWid = 4
  MaxSessions = 2
  MaxQueue = 1
INVARIANTS DestroyIsAwaited DestroyFindsId NoMessageWithoutCreate
PROPERTIES IdsImplemented
CHECK_DEADLOCK FALSE

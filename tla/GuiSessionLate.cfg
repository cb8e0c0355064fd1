SPECIFICATION FairSpec
CONSTANTS
  w1 = w1
  w2 = w2
  Windows = {w1, w2}
  NullPtr = NullPtr
  NoEntry = NoEntry
  Kind <- MCKindPopup
  Parent <- MCParentPopup
  Oversized = {w2}
  EarlyClients = FALSE
  MaxWid = 4
  MaxSessions = 2
  MaxQueue = 2
INVARIANTS TypeOK DispatchReachesWindow NoSecondCreate NoGhostWindow
PROPERTY MappedIsShown
CHECK_DEADLOCK FALSE

SPECIFICATION Spec
CONSTANTS
  t = t
  p = p
  x = x
  Windows <- MCWindows
  NoWindow = NoWindow
  Gone = Gone
  Kind <- MCKind
  Parent <- MCParent
  Keys = {1, 2}
  Offset = 0
  KeysCap = 1
  MaxQueue = 1
INVARIANTS TypeOK FocusIsAlive HeldIsTracked ActiveIsFocused InSync
PROPERTY NoStuckKey
CHECK_DEADLOCK FALSE

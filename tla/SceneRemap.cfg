SPECIFICATION Spec
CONSTANTS
  w1 = w1
  w2 = w2
  Windows <- MCWindows
  NoWindow = NoWindow
  Parent <- MCParent
INVARIANT MappedIsVisible
CHECK_DEADLOCK FALSE

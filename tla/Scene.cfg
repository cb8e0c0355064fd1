SPECIFICATION FairSpec
CONSTANTS
  w1 = w1
  w2 = w2
  Windows <- MCWindows
  NoWindow = NoWindow
  Parent <- MCParent
INVARIANTS TypeOK ClockRuns CommitsHeard MappedHasTree
PROPERTIES ContentDrawn CallbacksAnswered
CHECK_DEADLOCK FALSE

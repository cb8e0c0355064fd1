SPECIFICATION FairSpec
CONSTANTS
  us = us
  de = de
  bad = bad
  Layouts <- TwoLayouts
  Broken <- OneBroken
  Default = us
  NoEntry = NoEntry
  Failed = Failed
  MaxSets = 3
INVARIANT LayoutFollows
PROPERTY TakesEffect
CHECK_DEADLOCK FALSE

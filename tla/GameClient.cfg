SPECIFICATION FairSpec
CONSTANTS
  Capacity = 2
CHECK_DEADLOCK FALSE
INVARIANTS
  CommandsAreWhole
  StopIsOrderly
PROPERTIES
  ArenaIsShown

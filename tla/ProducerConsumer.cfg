SPECIFICATION FairSpec
CONSTANTS
  N = 3
  CountRange = 5
CHECK_DEADLOCK FALSE
INVARIANTS
  SlotsAreConserved
PROPERTIES
  ImplementsChannel
  QuitTerminates

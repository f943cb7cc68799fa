SPECIFICATION FairSpec
CONSTANTS
  MAX_CLIENTS = 2
  Greeting = 2
  Lines = {hi, ho}
  NoLine = NoLine
  Eol = Eol
INVARIANTS
  IInv
  NoDeletedClient
  CountMatches
PROPERTIES
  LinesAreWhole
  ImplementsChatroom
  RoomIsFreed

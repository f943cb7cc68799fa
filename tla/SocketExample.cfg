SPECIFICATION SocketSpec
CONSTANTS
  Letters = 4
  WireSize = 6
CHECK_DEADLOCK FALSE
PROPERTIES
  PairsInOrder
  ProgramEnds

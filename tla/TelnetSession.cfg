SPECIFICATION FairSpec
CONSTANTS
  MAX_CLIENTS = 1
  Handles = {1, 2}
  Capacity = 1
  p1 = p1
  p2 = p2
  Peers = {p1, p2}
  MaxLines <- Typing
  Nobody = Nobody
  NoText = NoText
CHECK_DEADLOCK FALSE
INVARIANTS
  NothingIsLost
PROPERTIES
  WaitingIsServed
  Answered

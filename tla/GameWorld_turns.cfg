SPECIFICATION FairSpec
CONSTANTS
  Players = {p1, p2, p3}
  FirstId = 100
  LastId = 102
  Cells <- TeeCells
  Walls <- TeeWalls
  RandomCells <- TeeCells
  Lives = 2
  FireRange = 3
  DX = 1
  DY = 1
  Nowhere = Nowhere
PROPERTIES
  MoveIsTakenUp

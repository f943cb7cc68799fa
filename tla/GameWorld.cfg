SPECIFICATION Spec
CONSTANTS
  Players = {p1, p2, p3}
  FirstId = 100
  LastId = 102
  Cells <- TeeCells
  Walls <- TeeWalls
  RandomCells <- TeeCells
  Lives = 2
  FireRange = 3
  DX = 1
  DY = 1
  Nowhere = Nowhere
INVARIANTS
  IInv
  BoardMatchesThings
  OneThingPerPlayer
  TurnServesAll
  LookIsTrue
  OneBodyPerCell
PROPERTIES
  IterationStable
  ImplementsArena
  DeathIsFinal

\* A maze of three lines; the second game is the one a digit makes.
CONSTANTS
  Main = main
  Clients = {c1, c2}
  NoThread = nobody
  MaxLines = 3
  MaxGames = 2
  MaxThings = 2
SPECIFICATION FairSpec
INVARIANT OneGame
PROPERTY Starts
\* A digit in the maze recurses to the bound, an endless line loops for ever.
CHECK_DEADLOCK FALSE

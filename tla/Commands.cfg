SPECIFICATION CommandSpec
CONSTANTS
  MAX_ARG_CT = 2
  MAX_ARG_LEN = 4
  SayRoom = 5
  MaxTyped = 5
  Printed = {"c", "s", "g", "f", "l", "x"}
  Space = "space"
  Ctrl = "ctrl"
  name = "x"
INVARIANTS
  WordsAsTyped
  SayIsHeard
PROPERTIES
  LoginIsTold

SPECIFICATION FairSpec
CONSTANTS
  MAX_CLIENTS = 2
  Greeting = 2
  Replies = 2
  Texts = {hi}
  NoText = NoText
INVARIANTS
  LocksAscend
  NoCircularWait
  AnswersAreWhole
PROPERTIES
  ImplementsChatroom
  GameGoesOn

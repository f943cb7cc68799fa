SPECIFICATION FairSpec
CONSTANTS
  MAX_TELNET_BUFFER = 5
  Texts <- AllTexts
  MaxLines = 3
  CR = CR
  LF = LF
  NUL = NUL
  a = a
  b = b
  Timeouts <- UsualTimeout
PROPERTIES
  LinesInOrder
  EverythingIsHeard
  NullIsExplained

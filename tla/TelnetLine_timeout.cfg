SPECIFICATION FairSpec
CONSTANTS
  MAX_TELNET_BUFFER = 5
  Texts <- ShortTexts
  MaxLines = 1
  CR = CR
  LF = LF
  NUL = NUL
  a = a
  b = b
  Timeouts <- AnyTimeout
PROPERTIES
  NegativeMeansForever

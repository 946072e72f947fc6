\* "a" and U+2014, the em dash: its second group of six bits is zero.
SPECIFICATION Spec
CONSTANTS
  Careful = TRUE
  Character = {97, 8212}
  MaxCount = 7
  MaxWritten = 2
PROPERTY ImplementsStream

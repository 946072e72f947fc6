\* A newline, "a", U+00E9, U+3042 and U+1F604: characters of one, two, three
\* and four bytes.
SPECIFICATION Spec
CONSTANTS
  Careful = TRUE
  Character = {10, 97, 233, 12354, 128516}
  MaxCount = 13
  MaxWritten = 3
PROPERTY ImplementsStream

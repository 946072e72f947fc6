SPECIFICATION BytecodeSpec
CONSTANTS
  IntegerBase = 4
  NumberBase = 2
  TagBase = 2
  ShareBase = 3
  Names <- MCNames
  VectorFactor = 2
  Programs <- MCPrograms
  Texts <- MCTexts
  MaxText = 9
  Byte <- MCByte
  Window = 3
  MaxLength = 4
INVARIANTS
  UsesCounted
  ProgramKept
  PointerInStep
  WindowIntact
PROPERTIES
  RoundTrip
  ProgramArrives
CHECK_DEADLOCK FALSE

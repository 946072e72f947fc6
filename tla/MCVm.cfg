SPECIFICATION Spec
CONSTANTS
  Program <- MCProgram
  Image <- MCImage
  Profiled <- Structured
  Operators = {"variable"}
  Fuel = 400
  Space = 27
INVARIANTS
  NothingStale
  OperandsFound
  Correct
  ProperTailCalls
  ProfileFollowsStack
PROPERTIES
  CapturedIntact
  Terminates

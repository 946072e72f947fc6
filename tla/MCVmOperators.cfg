SPECIFICATION Spec
CONSTANTS
  Program <- MCEndingProgram
  Image <- MCImage
  Profiled = {}
  Operators = {"expression"}
  Fuel = 400
  Space = 0
INVARIANTS
  Correct

SPECIFICATION Spec
CONSTANTS
  Program <- MCProgram
  Evaluated <- MCEvaluated
  BuiltIn <- MCBuiltIn
  MaxEvals = 3
INVARIANTS PassesKeepMeaning EvalKeepsMeaning NothingUnneeded
CHECK_DEADLOCK FALSE

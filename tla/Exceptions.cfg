SPECIFICATION Spec
CONSTANTS
  Parameter = {"current-exception-handler", "p"}
  Escapes = FALSE
  MaxPoints = 4
  MaxStack = 7
  MaxContinuations = 2
  MaxHandlers = 2
INVARIANTS
  PointIsExtent
  Alternate
  ParameterScoped
  HandlerOfCaller
  NeverReturns
  HaltsUnwound
PROPERTIES
  JumpsArrive
CHECK_DEADLOCK FALSE

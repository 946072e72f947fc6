SPECIFICATION Spec
CONSTANTS
  Form <- MCForm
  Probe <- MCProbe
  MaxForms = 3
INVARIANTS Hygienic EvalAgrees
CHECK_DEADLOCK FALSE

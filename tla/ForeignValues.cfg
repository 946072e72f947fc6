SPECIFICATION Spec
CONSTANTS
  Object = {o1, o2, o3, o4}
  Native = {v1, v2, v3}
  None = None
  Capacity = 3
SYMMETRY Symmetry
INVARIANTS
  ForeignValuesKept
  SlotsUnshared
  TableBounded

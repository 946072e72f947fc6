SPECIFICATION MCSpec
CONSTANTS
  HeapSize = 12
  Tag = {0, 1}
  Number = {0}
  GcAlways = FALSE
  MaxWrites = 2
INVARIANTS
  TypeOK
  SpaceSuffices
  PointersValid
  CollectorConsistent
PROPERTIES
  ImplementsObjectGraph
  RefusedOnlyIfAllWereLive

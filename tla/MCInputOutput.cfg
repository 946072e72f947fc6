SPECIFICATION MCSpec
CONSTANTS
  PathSize = 2
  Capacity = 2
  BufferSize = 1
  MaxLength = 2
  Port = {p1, p2, p3}
  Path <- MCPath
  Byte = {259}
  Chunks <- MCChunks
  Disk <- MCDisk
  Setup <- MCSetup
INVARIANT
  TableMatchesPorts
PROPERTY
  ImplementsStreams
SYMMETRY Symmetry

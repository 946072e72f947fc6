SPECIFICATION SmallSpec
CONSTANTS
  Program = {"none"}
  Image <- SmallImage
  Profiled = {}
  Numbers <- SmallNumbers
  Quoted <- SmallQuoted
  Context = {"os", "libc", "memory", "void"}
  CommandLine <- SmallCommandLine
  Environment <- SmallEnvironment
  Messages <- SmallMessages
  MaxStack = 3
  MaxConses = 4
INVARIANTS
  ValuesArrive
  EqualAgrees
CHECK_DEADLOCK FALSE

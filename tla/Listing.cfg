SPECIFICATION ClientsSpec
CONSTANTS
  Paths <- TwoPaths
  Kinds <- AllKinds
  NoNode = NoNode
  FdLimits <- UpToTwo
  MaxChanges = 2
  LongBytes = 8
  Programs <- AllPrograms
  MaxFiles = 2
  Arguments <- ArgumentsUsed
INVARIANTS
  ListTypeOK
  NothingLeft
  ListComplete
  ShownRight
  WaitsForAll
PROPERTIES
  ProgramEnds
CHECK_DEADLOCK FALSE

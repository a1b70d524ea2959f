SPECIFICATION ClientsSpec
CONSTANTS
  Paths <- One
  Kinds <- TwoKinds
  NoNode = NoNode
  FdLimits <- One
  MaxChanges = 2
  LongBytes = 8
  Programs <- JustLsinput
  MaxFiles = 1
  Arguments <- NoArguments
INVARIANTS
  ShownOfType
CHECK_DEADLOCK FALSE

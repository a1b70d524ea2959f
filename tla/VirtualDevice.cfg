SPECIFICATION VirtualSafety
CONSTANTS
  Threads = {t1, t2, t3}
  Closers = {t1}
  Caps <- CapsKeyAndAxis
  OutEvents <- KeysAB
  MaxInject = 3
INVARIANTS
  VirtualTypeOK
  CreatedWhole
  FailureLeavesNothing
  DestroyOnOwnFile
PROPERTIES
  QuietAfterClose
SYMMETRY Symmetry
CHECK_DEADLOCK FALSE

SPECIFICATION LoopSpec
CONSTANTS
  Nodes = {event0}
  Others = {mouse0}
  NoName = NoName
  Closers = {c1, c2}
  BufRecords = 2
  QueueLimit = 2
  MaxChanges = 3
  Faults <- AllCalls
INVARIANTS
  TypeOK
  NoStaleDescriptor
  NoLeak
  ErrorBeforeEnd
PROPERTIES
  SilentAfterClose
  ImplementsFeed
  CloseReturns
CHECK_DEADLOCK FALSE

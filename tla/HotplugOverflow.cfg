SPECIFICATION ClientSpec
CONSTANTS
  Nodes = {event0}
  Others = {mouse0}
  NoName = NoName
  Closers = {c1}
  BufRecords = 2
  QueueLimit = 1
  MaxChanges = 3
  Faults <- NoCalls
INVARIANTS
  NothingEverMissed
CHECK_DEADLOCK FALSE

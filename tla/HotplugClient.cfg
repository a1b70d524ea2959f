SPECIFICATION ClientSpec
CONSTANTS
  Nodes = {event0, event1}
  Others = {mouse0}
  NoName = NoName
  Closers = {}
  BufRecords = 2
  QueueLimit = 2
  MaxChanges = 3
  Faults <- SomeCalls
INVARIANTS
  ClientTypeOK
  NothingMissed
PROPERTIES
  EventuallyKnown
  ImplementsLiveFeed
  ProgramStops
CHECK_DEADLOCK FALSE

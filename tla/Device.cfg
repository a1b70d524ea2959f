SPECIFICATION DeviceSpec
CONSTANTS
  Files = {f1, f2}
  Threads = {t1, t2}
  FdFiles = {f2}
  None = None
  BufEvents = 2
  EvLimit = 2
  MaxFrames = 1
INVARIANTS
  DeviceTypeOK
  DescriptorHeld
  CloseReleasesGrab
PROPERTIES
  CloseUnblocks
CHECK_DEADLOCK FALSE

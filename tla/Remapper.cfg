SPECIFICATION RemapSpec
CONSTANTS
  Files = {src, other}
  Src = src
  Threads = {main, ctl, macro}
  Main = main
  Ctl = ctl
  Macro = macro
  FdFiles <- NoFiles
  None = None
  BufEvents = 1
  EvLimit = 4
  MaxFrames = 2
  SourceCaps <- SourceKeys
  ExtraCaps <- ExtraKeys
  MapFn <- ComboAndDrop
  Batch <- JustAKey
INVARIANTS
  RemapTypeOK
  GrabbedWhileOpen
  FailureUndone
  TeardownComplete
PROPERTIES
  NothingAfterClose
  ImplementsStream
  RunStops
  TeardownEnds
  EventsComeOut
CHECK_DEADLOCK FALSE

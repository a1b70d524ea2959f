SPECIFICATION RemapSpec
CONSTANTS
  Files = {src}
  Src = src
  Threads = {main, ctl, macro}
  Main = main
  Ctl = ctl
  Macro = macro
  FdFiles <- NoFiles
  None = None
  BufEvents = 1
  EvLimit = 3
  MaxFrames = 2
  SourceCaps <- SourceKeys
  ExtraCaps <- ExtraKeys
  MapFn <- PassThrough
  Batch <- NoMacro
PROPERTIES
  ImplementsStream
CHECK_DEADLOCK FALSE

SPECIFICATION RemapSafety
CONSTANTS
  Files = {src}
  Src = src
  Threads = {main, ctl, macro}
  Main = main
  Ctl = ctl
  Macro = macro
  FdFiles <- NoFiles
  None = None
  BufEvents = 1
  EvLimit = 4
  MaxFrames = 2
  SourceCaps <- SourceKeys
  ExtraCaps <- ExtraKeys
  MapFn <- PassThrough
  Batch <- TwoKeys
INVARIANTS
  BatchAtomic
CHECK_DEADLOCK FALSE

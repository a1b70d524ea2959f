----------------------------- MODULE RemapStream -----------------------------
(***************************************************************************)
(* What a Remapper promises of the events: the virtual device gives out    *)
(* what the source produces, each event replaced by what MapFunc makes of  *)
(* it and each frame closed by its marker, in order, with nothing left     *)
(* out, repeated or invented, up to the point where it ends.               *)
(***************************************************************************)
EXTENDS Naturals, Sequences

CONSTANTS
  MapFn,     \* for every frame, the codes its key is replaced by
  MaxFrames  \* bound on the frames that are made

VARIABLES
  made,  \* how many frames the source has produced
  out    \* what came out

streamVars == <<made, out>>

Key(i, c) == [type |-> "EV_KEY", code |-> c, frame |-> i]
FrameEnd(i) == [type |-> "EV_SYN", code |-> "SYN_REPORT", frame |-> i]

\* What comes of frame i, and of the first n frames.
Mapped(i) == [j \in DOMAIN MapFn[i] |-> Key(i, MapFn[i][j])]
Whole[n \in 0..MaxFrames] ==
  IF n = 0 THEN <<>> ELSE Whole[n - 1] \o Mapped(n) \o <<FrameEnd(n)>>

Make ==
  /\ made < MaxFrames
  /\ made' = made + 1
  /\ UNCHANGED out

\* The next event of what was made.
Put ==
  /\ Len(out) < Len(Whole[made])
  /\ out' = Append(out, Whole[made][Len(out) + 1])
  /\ UNCHANGED made

StreamSafety ==
  /\ made = 0 /\ out = <<>>
  /\ [][Make \/ Put]_streamVars
=============================================================================

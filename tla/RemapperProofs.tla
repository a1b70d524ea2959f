--------------------------- MODULE RemapperProofs ---------------------------
(***************************************************************************)
(* Proofs about Remapper, for any frames, any MapFunc, any batch of Macro, *)
(* any capabilities and any size of the source's queue.                    *)
(*                                                                         *)
(* A step of the program is a step of Device and of VirtualDevice, so what *)
(* DeviceProofs and VirtualDeviceProofs prove holds here.  The rest of the *)
(* invariant says which call each goroutine can be in, at each point of    *)
(* NewRemapper, Run and Close, and what that means for the grab and for    *)
(* the output.                                                             *)
(***************************************************************************)
EXTENDS Remapper, DeviceProofs, Induction

VP == INSTANCE VirtualDeviceProofs WITH
  Closers   <- {Main, Ctl},
  OutEvents <- ToWrite,
  MaxInject <- Len(Stream!Whole[MaxFrames]) + Len(Batch)

Enders == {Main, Ctl}
InOut == {"fd", "destroy", "close", "nil"}
InWrite == {"locking", "write"}

ControlTypeOK ==
  /\ rpc \in {"query", "create", "grab", "undo", "failed", "ready", "read", "mapped",
              "put", "eof", "error"}
  /\ asked \in 0..Queries
  /\ todo \in Seq(ToWrite)
  /\ once \in {"free", "busy", "done"}
  /\ cpc \in [Enders -> {"no", "ungrab", "out", "over", "gone"}]
  /\ mpos \in 0..Len(Batch)

\* Nobody closes before NewRemapper has returned; closeOnce lets one in, and
\* nobody else out before that one is through.
CloseInv ==
  /\ ~Made => once = "free"
  /\ once = "free" => \A t \in Enders : cpc[t] = "no"
  /\ \A t \in Enders : cpc[t] \in {"ungrab", "out"} => once = "busy"
  /\ \A t \in Enders : cpc[t] \in {"over", "gone"} => once = "done"
  /\ \A t, u \in Enders :
       cpc[t] \in {"ungrab", "out"} /\ cpc[u] \in {"ungrab", "out"} => t = u
  /\ cpc[Main] # "no" => rpc = "eof"

\* Which call on the source a goroutine can be in.
SrcCalls ==
  /\ \A t \in Threads : on[t] = Src
  /\ at[Macro] = "idle"
  /\ \/ at[Main] = "idle"
     \/ rpc = "query" /\ at[Main] = "Query"
     \/ rpc = "grab" /\ at[Main] = "Grab"
     \/ rpc = "read" /\ at[Main] \in {"locking"} \cup Reading
     \/ cpc[Main] = "ungrab" /\ at[Main] = "Ungrab"
     \/ cpc[Main] = "gone" /\ at[Main] = "closing"
  /\ \/ at[Ctl] = "idle"
     \/ cpc[Ctl] = "ungrab" /\ at[Ctl] = "Ungrab"
     \/ cpc[Ctl] = "gone" /\ at[Ctl] = "closing"
  /\ file[Src] # "open" => once = "done"

\* What is in the source's queue and in Run's buffer are events of frames that
\* were made.
Known == {Dropped} \cup [frame : 1..frames, kind : {"KEY", "SYN"}]

SrcEvents ==
  /\ queue[Src] \in Seq(Known)
  /\ got[Main] \in Seq(Known)
  /\ rpc = "read" /\ SrcGave(Main, "ok") => got[Main] # <<>>

\* The grab: not there yet, there, given back or gone with the device.
Freed == plugged = "in" => grab # Src

GrabInv ==
  /\ rpc \in {"query", "create", "undo", "failed"} => grab # Src
  /\ rpc = "grab" => (grab = Src <=> SrcGave(Main, "ok"))
  /\ Made /\ once = "free" => grab = Src
  /\ \A t \in Enders : cpc[t] = "ungrab" /\ at[t] = "idle" => Freed
  /\ \A t \in Enders : cpc[t] = "out" => Freed
  /\ once = "done" => Freed

\* Which call on the output a goroutine can be in.
OutCalls ==
  /\ \/ vat[Main] = "idle"
     \/ rpc = "create" /\ vat[Main] \in {"enable", "setup", "create"}
     \/ rpc = "undo" /\ vat[Main] \in InOut
     \/ rpc = "put" /\ vat[Main] \in InWrite
     \/ cpc[Main] = "out" /\ vat[Main] \in InOut
  /\ vat[Ctl] = "idle" \/ (cpc[Ctl] = "out" /\ vat[Ctl] \in InOut)
  /\ vat[Macro] = "idle" \/ (Made /\ vat[Macro] \in InWrite)

\* What the output is at each point.
OutInv ==
  /\ rpc = "query" => kdev = "none" /\ vret = [t \in Threads |-> "none"]
  /\ rpc = "create" /\ vat[Main] = "idle" =>
       \/ vret[Main] = "ok" /\ vptr = "set" /\ vfile = "open"
       \/ vret[Main] = "ErrCreate" /\ vptr = "none"
  /\ rpc = "grab" => vptr = "set" /\ vfile = "open"
  /\ rpc = "undo" =>
       \/ vat[Main] \in {"fd", "destroy", "close"} /\ vptr = "set" /\ vfile = "open"
       \/ vat[Main] \in {"nil", "idle"} /\ vfile = "closed"
  /\ rpc = "failed" => kdev # "live" /\ vfile \in {"none", "closed"}
  /\ Made => vptr # "none"
  /\ \A t \in Enders : cpc[t] = "out" /\ vat[t] = "idle" => vptr = "nil"
  /\ once = "done" => vptr = "nil"

RemapInv ==
  /\ Inv
  /\ VP!Inv
  /\ ControlTypeOK
  /\ CloseInv
  /\ SrcCalls
  /\ SrcEvents
  /\ GrabInv
  /\ OutCalls
  /\ OutInv
-----------------------------------------------------------------------------
(* What the frames are turned into.                                        *)

\* The events the frames are turned into.
OutEvent == [type : {"EV_KEY", "EV_SYN"}, code : STRING \cup {"SYN_REPORT"}, frame : Nat \ {0}]

Frame(n) == Stream!Mapped(n) \o <<Stream!FrameEnd(n)>>

LEMMA FrameType ==
  ASSUME NEW n \in 1..MaxFrames
  PROVE  /\ Stream!Mapped(n) \in Seq(OutEvent)
         /\ Stream!FrameEnd(n) \in OutEvent
<1>1. MaxFrames \in Nat
  BY DeviceAssumption
<1>2. MapFn[n] \in Seq(STRING) /\ DOMAIN MapFn[n] = 1..Len(MapFn[n]) /\ Len(MapFn[n]) \in Nat
  BY RemapperAssumption, LenProperties
<1>3. \A j \in 1..Len(MapFn[n]) : Stream!Key(n, MapFn[n][j]) \in OutEvent
  BY <1>1, <1>2 DEF Stream!Key, OutEvent
<1>4. Stream!Mapped(n) \in [1..Len(MapFn[n]) -> OutEvent]
  BY <1>2, <1>3 DEF Stream!Mapped
<1>5. Stream!Mapped(n) \in Seq(OutEvent)
  BY <1>2, <1>4, SeqDef
<1>6. Stream!FrameEnd(n) \in OutEvent
  <2>1. n \in Nat \ {0}
    BY <1>1
  <2> QED  BY <2>1 DEF Stream!FrameEnd, OutEvent
<1> QED  BY <1>5, <1>6

\* The recursion that defines Whole has a solution.
Upto(f, m) ==
  f = [n \in 0..m |-> IF n = 0 THEN <<>>
                      ELSE f[n - 1] \o Stream!Mapped(n) \o <<Stream!FrameEnd(n)>>]

LEMMA WholeExists == \A m \in Nat : \E f : Upto(f, m)
<1> DEFINE S == {m \in Nat : \E f : Upto(f, m)}
<1>1. 0 \in S
  <2>1. Upto([n \in 0..0 |-> <<>>], 0)
    BY DEF Upto
  <2> QED  BY <2>1
<1>2. ASSUME NEW m \in S PROVE m + 1 \in S
  <2>1. PICK f : Upto(f, m)
    OBVIOUS
  <2> DEFINE g == [n \in 0..(m + 1) |->
                    IF n = 0 THEN <<>>
                    ELSE f[n - 1] \o Stream!Mapped(n) \o <<Stream!FrameEnd(n)>>]
  <2>5. m \in Nat
    OBVIOUS
  <2>2. \A n \in 0..m : g[n] = f[n]
    <3>1. \A n \in 0..m : f[n] = IF n = 0 THEN <<>>
                    ELSE f[n - 1] \o Stream!Mapped(n) \o <<Stream!FrameEnd(n)>>
      BY <2>1 DEF Upto
    <3>2. 0..m \subseteq 0..(m + 1)
      BY <2>5
    <3> QED  BY <3>1, <3>2
  <2>3. \A n \in 0..(m + 1) : n # 0 => n - 1 \in 0..m
    OBVIOUS
  <2>4. Upto(g, m + 1)
    BY <2>2, <2>3 DEF Upto
  <2> HIDE DEF g
  <2> QED  BY <2>4
<1> HIDE DEF S
<1>3. Nat \subseteq S
  BY <1>1, <1>2, SetInduction
<1> QED  BY <1>3 DEF S

LEMMA WholeDef == Upto(Stream!Whole, MaxFrames)
<1>1. \E f : Upto(f, MaxFrames)
  BY WholeExists, DeviceAssumption
<1>2. Stream!Whole = CHOOSE f : Upto(f, MaxFrames)
  BY DEF Stream!Whole, Upto
<1> QED  BY <1>1, <1>2

\* The same, one frame after the other.
LEMMA WholeUnfold ==
  /\ Stream!Whole[0] = <<>>
  /\ \A n \in 1..MaxFrames :
       Stream!Whole[n] = Stream!Whole[n - 1] \o Stream!Mapped(n) \o <<Stream!FrameEnd(n)>>
<1>1. MaxFrames \in Nat
  BY DeviceAssumption
<1>2. \A n \in 0..MaxFrames :
        Stream!Whole[n] = IF n = 0 THEN <<>>
          ELSE Stream!Whole[n - 1] \o Stream!Mapped(n) \o <<Stream!FrameEnd(n)>>
  BY WholeDef DEF Upto
<1>3. 0 \in 0..MaxFrames /\ \A n \in 1..MaxFrames : n \in 0..MaxFrames /\ n # 0
  BY <1>1
<1> QED  BY <1>2, <1>3

\* The set in which a sequence has its elements.
ElementsOf(s) == {s[i] : i \in 1..Len(s)}

LEMMA WholeType ==
  \A n \in 0..MaxFrames :
    /\ Stream!Whole[n] \in Seq(OutEvent)
    /\ \A m \in 1..n :
         ElementsOf(Stream!Mapped(m)) \cup {Stream!FrameEnd(m)} \subseteq ElementsOf(Stream!Whole[n])
<1> DEFINE Right(n) ==
             /\ Stream!Whole[n] \in Seq(OutEvent)
             /\ \A m \in 1..n :
                  ElementsOf(Stream!Mapped(m)) \cup {Stream!FrameEnd(m)}
                    \subseteq ElementsOf(Stream!Whole[n])
           S == {n \in Nat : n \in 0..MaxFrames => Right(n)}
<1>1. 0 \in S
  <2>1. <<>> \in Seq(OutEvent) /\ 1..0 = {}
    OBVIOUS
  <2>2. Right(0)
    BY <2>1, WholeUnfold
  <2> QED  BY <2>2
<1>2. ASSUME NEW n \in S, n \in Nat PROVE n + 1 \in S
  <2> SUFFICES ASSUME n + 1 \in 0..MaxFrames PROVE Right(n + 1)
    OBVIOUS
  <2> DEFINE w == Stream!Whole[n]
             x == Stream!Mapped(n + 1)
             e == Stream!FrameEnd(n + 1)
             v == Stream!Whole[n + 1]
  <2>1. MaxFrames \in Nat
    BY DeviceAssumption
  <2>2. n \in 0..MaxFrames /\ n + 1 \in 1..MaxFrames /\ (n + 1) - 1 = n
    BY <1>2, <2>1
  <2>3. Right(n)
    BY <2>2
  <2>4. v = (w \o x) \o <<e>>
    BY <2>2, WholeUnfold
  <2>5. w \in Seq(OutEvent) /\ x \in Seq(OutEvent) /\ e \in OutEvent
    BY <2>2, <2>3, FrameType
  <2> HIDE DEF w, x, e, v
  <2>6. /\ v \in Seq(OutEvent)
        /\ Len(v) = Len(w) + Len(x) + 1
        /\ \A i \in 1..Len(w) : v[i] = w[i]
        /\ \A i \in 1..Len(x) : v[Len(w) + i] = x[i]
        /\ v[Len(w) + Len(x) + 1] = e
    BY <2>4, <2>5
  <2>7. Len(w) \in Nat /\ Len(x) \in Nat
    BY <2>5, LenProperties
  <2>8. ElementsOf(w) \cup ElementsOf(x) \cup {e} \subseteq ElementsOf(v)
    <3>1. ElementsOf(w) \subseteq ElementsOf(v)
      BY <2>6, <2>7 DEF ElementsOf
    <3>2. ElementsOf(x) \subseteq ElementsOf(v)
      <4>1. \A i \in 1..Len(x) : Len(w) + i \in 1..Len(v)
        BY <2>6, <2>7
      <4> QED  BY <2>6, <4>1 DEF ElementsOf
    <3>3. e \in ElementsOf(v)
      BY <2>6, <2>7 DEF ElementsOf
    <3> QED  BY <3>1, <3>2, <3>3
  <2>9. ASSUME NEW m \in 1..(n + 1)
        PROVE  ElementsOf(Stream!Mapped(m)) \cup {Stream!FrameEnd(m)} \subseteq ElementsOf(v)
    <3>1. CASE m = n + 1
      BY <2>8, <3>1 DEF x, e
    <3>2. CASE m # n + 1
      <4>1. m \in 1..n
        BY <1>2, <3>2
      <4> QED  BY <2>3, <2>8, <4>1 DEF w
    <3> QED  BY <3>1, <3>2
  <2> QED  BY <2>6, <2>9 DEF v
<1> HIDE DEF S
<1>3. Nat \subseteq S
  BY <1>1, <1>2, SetInduction
<1>4. 0..MaxFrames \subseteq Nat
  BY DeviceAssumption
<1> QED  BY <1>3, <1>4 DEF S

\* Run and Macro write only what ToWrite allows.
LEMMA ToWriteHas ==
  /\ Len(Stream!Whole[MaxFrames]) \in Nat
  /\ Len(Batch) \in Nat
  /\ \A i \in 1..Len(Batch) : Batch[i] \in ToWrite
  /\ [type |-> "EV_SYN", code |-> "SYN_DROPPED", frame |-> 0] \in ToWrite
  /\ \A n \in 1..MaxFrames : Stream!Mapped(n) \in Seq(ToWrite) /\ Stream!FrameEnd(n) \in ToWrite
<1> DEFINE W == Stream!Whole[MaxFrames]
<1>1. MaxFrames \in 0..MaxFrames
  BY DeviceAssumption
<1>2. W \in Seq(OutEvent)
  BY <1>1, WholeType
<1>3. Len(W) \in Nat /\ DOMAIN W = 1..Len(W)
  BY <1>2, LenProperties
<1>4. Len(Batch) \in Nat /\ DOMAIN Batch = 1..Len(Batch)
  BY RemapperAssumption, LenProperties
<1>5. ElementsOf(W) \subseteq ToWrite
  BY <1>3 DEF ElementsOf, ToWrite
<1>6. ASSUME NEW n \in 1..MaxFrames
      PROVE  Stream!Mapped(n) \in Seq(ToWrite) /\ Stream!FrameEnd(n) \in ToWrite
  <2>1. ElementsOf(Stream!Mapped(n)) \cup {Stream!FrameEnd(n)} \subseteq ToWrite
    BY <1>1, <1>5, WholeType
  <2>2. /\ Stream!Mapped(n) \in [1..Len(Stream!Mapped(n)) -> OutEvent]
        /\ Len(Stream!Mapped(n)) \in Nat
    BY FrameType, LenProperties
  <2>3. Stream!Mapped(n) \in [1..Len(Stream!Mapped(n)) -> ToWrite]
    BY <2>1, <2>2 DEF ElementsOf
  <2>4. Stream!Mapped(n) \in Seq(ToWrite)
    BY <2>2, <2>3, SeqDef
  <2> QED  BY <2>1, <2>4
<1> HIDE DEF W
<1>7. Len(Stream!Whole[MaxFrames]) \in Nat
  BY <1>3 DEF W
<1>8. \A i \in 1..Len(Batch) : Batch[i] \in ToWrite
  BY <1>4 DEF ToWrite
<1> QED  BY <1>4, <1>6, <1>7, <1>8 DEF ToWrite

\* The output is used within what VirtualDevice assumes.
LEMMA OutAssumed == VP!VirtualAssumption
<1>1. DOMAIN Caps = VP!CodeTypes
  BY RemapperAssumption DEF Caps, mergeCaps, VP!CodeTypes, VP!EventTypes
<1>2. ASSUME NEW e \in ToWrite PROVE {"type", "code"} \subseteq DOMAIN e
  <2>1. CASE e \in OutEvent
    BY <2>1 DEF OutEvent
  <2>2. CASE e \in [type : STRING, code : STRING, frame : {0}]
    BY <2>2
  <2>3. CASE e = [type |-> "EV_SYN", code |-> "SYN_DROPPED", frame |-> 0]
    BY <2>3
  <2>4. \A i \in DOMAIN Stream!Whole[MaxFrames] : Stream!Whole[MaxFrames][i] \in OutEvent
    <3>1. MaxFrames \in 0..MaxFrames
      BY DeviceAssumption
    <3>2. Stream!Whole[MaxFrames] \in Seq(OutEvent)
      BY <3>1, WholeType
    <3> QED  BY <3>2, ElementOfSeq, LenProperties
  <2> DEFINE MacroEvent == [type : STRING, code : STRING, frame : {0}]
  <2>6. Batch \in Seq(MacroEvent)
    BY RemapperAssumption
  <2> HIDE DEF MacroEvent
  <2>7. \A i \in DOMAIN Batch : Batch[i] \in MacroEvent
    BY <2>6, ElementOfSeq, LenProperties
  <2>5. \A i \in DOMAIN Batch : Batch[i] \in [type : STRING, code : STRING, frame : {0}]
    BY <2>7 DEF MacroEvent
  <2> QED  BY <2>1, <2>2, <2>3, <2>4, <2>5 DEF ToWrite
<1>3. Len(Stream!Whole[MaxFrames]) + Len(Batch) \in Nat
  BY ToWriteHas
<1>4. {Main, Ctl} \subseteq Threads
  BY RemapperAssumption
<1> QED  BY <1>1, <1>2, <1>3, <1>4 DEF VP!VirtualAssumption
-----------------------------------------------------------------------------
(* The program's steps are steps of the two devices.                       *)

LEMMA Names3 == Main \in Threads /\ Ctl \in Threads /\ Macro \in Threads /\ Src \in Files
BY RemapperAssumption

LEMMA SourceSteps == [Work]_workVars => [DeviceNext]_deviceVars
<1> SUFFICES ASSUME [Work]_workVars PROVE [DeviceNext]_deviceVars
  OBVIOUS
<1> USE Names3
<1>1. ASSUME NEW t \in Threads, NEW op \in Ioctls, IoctlCall(t, op) PROVE DeviceNext
  BY <1>1 DEF IoctlCall, DeviceNext, Call, Close
<1>2. CASE World
  BY <1>2 DEF World, DeviceNext
<1>3. ASSUME NEW t \in Threads, CallProceeds(t) PROVE [DeviceNext]_deviceVars
  BY <1>3 DEF CallProceeds, OnOutput, DeviceNext
<1>4. CASE Query \/ GrabSource
  BY <1>1, <1>4 DEF Query, GrabSource, Ioctls
<1>5. CASE Read
  BY <1>5 DEF Read, DeviceNext, Call
<1>6. CASE MainGoesOn /\ ~Query /\ ~GrabSource /\ ~Read
  BY <1>6 DEF MainGoesOn, QueryFails, CreateOutput, CreateFails, Grabbed, GrabFails, Undone, Map,
              ReadFails, Put, PutFails, OnNeither, OnOutput
<1>7. ASSUME NEW t \in Enders, CloseUngrab(t) \/ CloseGoesOn(t) PROVE [DeviceNext]_deviceVars
  <2>1. t \in Threads /\ "Ungrab" \in Ioctls
    BY DEF Enders, Ioctls
  <2>2. CASE CloseUngrab(t)
    BY <1>1, <2>1, <2>2 DEF CloseUngrab
  <2>3. CASE CloseSource(t)
    BY <2>1, <2>3 DEF CloseSource, DeviceNext, Call
  <2>4. CASE CloseJoin(t) \/ CloseOutput(t) \/ CloseDone(t)
    BY <2>4 DEF CloseJoin, CloseOutput, CloseDone, OnNeither, OnOutput
  <2> QED  BY <1>7, <2>2, <2>3, <2>4 DEF CloseGoesOn
<1>8. CASE MacroWrites
  BY <1>8 DEF MacroWrites, OnOutput
<1>9. CASE UNCHANGED workVars
  BY <1>9 DEF workVars
<1> QED  BY <1>2, <1>3, <1>4, <1>5, <1>6, <1>7, <1>8, <1>9 DEF Work, Enders

\* Remapper's instance of VirtualDevice and the one of the theorems are the same.
LEMMA SameCall ==
  ASSUME NEW t
  PROVE  /\ Out!CreateOpen(t) <=> VP!CreateOpen(t)
         /\ Out!Enable(t) <=> VP!Enable(t)
         /\ Out!Setup(t) <=> VP!Setup(t)
         /\ Out!Create(t) <=> VP!Create(t)
         /\ \A e : Out!WriteBegin(t, e) <=> VP!WriteBegin(t, e)
         /\ Out!WriteLock(t) <=> VP!WriteLock(t)
         /\ Out!WriteDone(t) <=> VP!WriteDone(t)
         /\ Out!CloseOut(t) <=> VP!CloseOut(t)
         /\ Out!CloseFd(t) <=> VP!CloseFd(t)
         /\ Out!Destroy(t) <=> VP!Destroy(t)
         /\ Out!CloseFile(t) <=> VP!CloseFile(t)
         /\ Out!SetNil(t) <=> VP!SetNil(t)
<1> USE DEF Out!VGoto, VP!VGoto, Out!VReturn, VP!VReturn, Out!GiveUp, VP!GiveUp
<1>1. Out!CreateOpen(t) <=> VP!CreateOpen(t)
  BY DEF Out!CreateOpen, VP!CreateOpen
<1>2. Out!Missing = VP!Missing
  BY DEF Out!Missing, VP!Missing, Out!Required, VP!Required, Out!EventTypes, VP!EventTypes,
         Out!CodeTypes, VP!CodeTypes
<1>3. \A b : Out!IsNext(b) <=> VP!IsNext(b)
  BY <1>2 DEF Out!IsNext, VP!IsNext, Out!Earlier, VP!Earlier, Out!CodeTypes, VP!CodeTypes,
              Out!EventTypes, VP!EventTypes
<1>4. Out!Enable(t) <=> VP!Enable(t)
  BY <1>2, <1>3 DEF Out!Enable, VP!Enable
<1>5. Out!Setup(t) <=> VP!Setup(t)
  BY DEF Out!Setup, VP!Setup
<1>6. Out!Create(t) <=> VP!Create(t)
  BY DEF Out!Create, VP!Create, Out!CreateDone, VP!CreateDone
<1>7. \A e : Out!WriteBegin(t, e) <=> VP!WriteBegin(t, e)
  BY DEF Out!WriteBegin, VP!WriteBegin
<1>8. Out!WriteLock(t) <=> VP!WriteLock(t)
  BY DEF Out!WriteLock, VP!WriteLock
<1>9. Out!WriteDone(t) <=> VP!WriteDone(t)
  BY DEF Out!WriteDone, VP!WriteDone, Out!Accepts, VP!Accepts
<1>10. Out!CloseOut(t) <=> VP!CloseOut(t)
  BY DEF Out!CloseOut, VP!CloseOut, Out!CloseAgain, VP!CloseAgain, Out!CloseBegin, VP!CloseBegin
<1>11. Out!CloseFd(t) <=> VP!CloseFd(t)
  BY DEF Out!CloseFd, VP!CloseFd
<1>12. Out!Destroy(t) <=> VP!Destroy(t)
  BY DEF Out!Destroy, VP!Destroy
<1>13. Out!CloseFile(t) <=> VP!CloseFile(t)
  BY DEF Out!CloseFile, VP!CloseFile
<1>14. Out!SetNil(t) <=> VP!SetNil(t)
  BY DEF Out!SetNil, VP!SetNil
<1> QED  BY <1>1, <1>4, <1>5, <1>6, <1>7, <1>8, <1>9, <1>10, <1>11, <1>12, <1>13, <1>14

LEMMA SameProceed ==
  ASSUME NEW t, Out!VProceed(t)
  PROVE  VP!VProceed(t)
BY SameCall DEF Out!VProceed, VP!VProceed

LEMMA OutputSteps ==
  ASSUME ControlTypeOK, OutInv, [Work]_workVars
  PROVE  [VP!VirtualNext]_(VP!virtualVars)
<1> USE Names3
<1>1. ASSUME UNCHANGED outVars PROVE UNCHANGED VP!virtualVars
  BY <1>1 DEF outVars, VP!virtualVars
<1>2. CASE World
  BY <1>1, <1>2 DEF World, OnSource
<1>3. ASSUME NEW t \in Threads, CallProceeds(t) PROVE [VP!VirtualNext]_(VP!virtualVars)
  BY <1>1, <1>3, SameProceed DEF CallProceeds, OnSource, VP!VirtualNext
<1>4. CASE CreateOutput
  <2>1. vret = [u \in Threads |-> "none"] /\ VP!CreateOpen(Main)
    BY <1>4, SameCall DEF CreateOutput, Goto, OutInv
  <2> QED  BY <2>1 DEF VP!VirtualNext
<1>5. CASE GrabFails
  <2>1. VP!CloseOut(Main)
    BY <1>5, SameCall DEF GrabFails
  <2> QED  BY <2>1 DEF VP!VirtualNext
<1>6. CASE Put
  <2>1. VP!WriteBegin(Main, Head(todo))
    BY <1>6, SameCall DEF Put
  <2>2. Head(todo) \in ToWrite
    BY <1>6, HeadTailProperties DEF Put, ControlTypeOK
  <2> QED  BY <2>1, <2>2 DEF VP!VirtualNext
<1>7. CASE MainGoesOn /\ ~CreateOutput /\ ~GrabFails /\ ~Put
  BY <1>1, <1>7 DEF MainGoesOn, Query, QueryFails, CreateFails, GrabSource, Grabbed, Undone, Read,
                    Map, ReadFails, PutFails, OnNeither, OnSource
<1>8. ASSUME NEW t \in Enders, CloseUngrab(t) \/ CloseGoesOn(t)
      PROVE  [VP!VirtualNext]_(VP!virtualVars)
  <2>1. CASE CloseOutput(t)
    <3>1. VP!CloseOut(t) /\ t \in Threads
      BY <2>1, SameCall DEF CloseOutput, Enders
    <3> QED  BY <3>1 DEF VP!VirtualNext, Enders
  <2>2. CASE CloseUngrab(t) \/ CloseJoin(t) \/ CloseDone(t) \/ CloseSource(t)
    BY <1>1, <2>2 DEF CloseUngrab, CloseJoin, CloseDone, CloseSource, OnNeither, OnSource
  <2> QED  BY <1>8, <2>1, <2>2 DEF CloseGoesOn
<1>9. CASE MacroWrites
  <2>1. VP!WriteBegin(Macro, Batch[mpos + 1])
    BY <1>9, SameCall DEF MacroWrites
  <2>2. Batch[mpos + 1] \in ToWrite
    <3>1. mpos + 1 \in 1..Len(Batch)
      BY <1>9, ToWriteHas DEF MacroWrites, ControlTypeOK
    <3> QED  BY <3>1, ToWriteHas
  <2> QED  BY <2>1, <2>2 DEF VP!VirtualNext
<1>10. CASE UNCHANGED workVars
  BY <1>1, <1>10 DEF workVars
<1> QED  BY <1>2, <1>3, <1>4, <1>5, <1>6, <1>7, <1>8, <1>9, <1>10 DEF Work, Enders

\* What is proved of the two devices holds of the ones the program uses.
LEMMA DevicesKeep ==
  ASSUME RemapInv, [Work]_workVars
  PROVE  Inv' /\ VP!Inv'
<1>1. Inv'
  BY SourceSteps, TypeStep, HeldStep DEF RemapInv, Inv
<1>2. VP!Inv'
  BY OutputSteps, OutAssumed, VP!InvStep DEF RemapInv
<1> QED  BY <1>1, <1>2
-----------------------------------------------------------------------------
(* How a call of a goroutine goes on.                                      *)

\* One goroutine moves, within its call or to its end.
LEMMA CallMoves ==
  ASSUME Inv, NEW t \in Threads, Proceed(t)
  PROVE  /\ at[t] # "idle"
         /\ \A u \in Threads \ {t} : at'[u] = at[u] /\ ret'[u] = ret[u] /\ got'[u] = got[u]
         /\ UNCHANGED <<plugged, frames, on>>
         /\ at'[t] = "idle" \/ (at[t] \in {"locking"} \cup Reading /\ at'[t] \in Reading)
<1> USE DEF Inv, DeviceTypeOK, inputVars
<1>1. CASE ReadLock(t) \/ ReadBlocks(t) \/ ReadWakes(t)
  BY <1>1 DEF ReadLock, ReadBlocks, ReadWakes, Reading
<1>2. CASE ReadRefused(t) \/ CloseWaited(t)
  BY <1>2 DEF ReadRefused, CloseWaited, Return
<1>3. CASE ReadTakes(t)
  BY <1>3 DEF ReadTakes, Leave, Return
<1>4. CASE ReadEnds(t) \/ ReadEvicted(t)
  BY <1>4 DEF ReadEnds, ReadEvicted, Leave, Return
<1>5. CASE Ioctl(t)
  BY <1>5 DEF Ioctl, IoctlGrab, IoctlUngrab, Ioctls, Leave, Return
<1> QED  BY <1>1, <1>2, <1>3, <1>4, <1>5 DEF Proceed

\* A call that ends while the file is open closes nothing, and only Grab and
\* Ungrab move the grab.
LEMMA CallGrabs ==
  ASSUME Inv, NEW t \in Threads, Proceed(t), on[t] = Src
  PROVE  /\ file[Src] = "open" => file'[Src] = "open"
         /\ at[t] # "Grab" /\ grab # Src => grab' # Src
         /\ at[t] = "Grab" /\ file[Src] = "open" /\ grab # Src =>
              at'[t] = "idle" /\ (grab' = Src <=> ret'[t] = "ok")
         /\ at[t] \notin {"Grab", "Ungrab"} /\ file[Src] = "open" => grab' = grab
         /\ at[t] = "Ungrab" /\ plugged = "in" => grab' # Src
<1> USE Names3, DeviceAssumption DEF Inv, DeviceTypeOK
<1>1. ASSUME NEW g, NEW r, Leave(t, r, g)
      PROVE  /\ file[Src] = "open" => file'[Src] = "open" /\ grab' = g
             /\ grab' = g \/ grab' # Src
             /\ at'[t] = "idle" /\ ret'[t] = r
  BY <1>1 DEF Leave, LastOne, GrabWithout, Return
<1>2. CASE ReadLock(t) \/ ReadBlocks(t) \/ ReadWakes(t) \/ ReadRefused(t) \/ CloseWaited(t)
  BY <1>2 DEF ReadLock, ReadBlocks, ReadWakes, ReadRefused, CloseWaited, fileVars
<1>3. CASE ReadTakes(t) \/ ReadEnds(t) \/ ReadEvicted(t)
  <2>1. \E r : Leave(t, r, grab)
    BY <1>3 DEF ReadTakes, ReadEnds, ReadEvicted
  <2>2. at[t] \notin {"Grab", "Ungrab"}
    BY <1>3 DEF ReadTakes, ReadEnds, ReadEvicted
  <2> QED  BY <1>1, <2>1, <2>2
<1>4. CASE at[t] = "Grab" /\ IoctlGrab(t)
  BY <1>1, <1>4 DEF IoctlGrab
<1>5. CASE at[t] = "Ungrab" /\ IoctlUngrab(t)
  BY <1>1, <1>5 DEF IoctlUngrab
<1>6. CASE at[t] = "Query" /\ Leave(t, "ok", grab)
  BY <1>1, <1>6
<1>7. CASE plugged = "out" /\ Leave(t, "ENODEV", grab)
  BY <1>1, <1>7
<1> QED  BY <1>2, <1>3, <1>4, <1>5, <1>6, <1>7 DEF Proceed, Ioctl
-----------------------------------------------------------------------------
(* The control invariant, conjunct by conjunct.                            *)

\* Main's steps before it closes, by what they do to where it is.
LEMMA MainMoves ==
  ASSUME MainGoesOn
  PROVE  /\ UNCHANGED <<once, cpc, mpos>>
         /\ Made => Made'
         /\ rpc \notin {"eof", "error"}
         /\ rpc' \in {"eof", "error"} => Made
BY DEF MainGoesOn, Query, QueryFails, CreateOutput, CreateFails, GrabSource, Grabbed, GrabFails,
       Undone, Read, Between, Map, ReadFails, Put, PutFails, Goto, Made, Running

LEMMA CloseStep ==
  ASSUME RemapInv, [Work]_workVars
  PROVE  CloseInv'
<1> USE DEF RemapInv, CloseInv, Enders
<1>1. CASE World \/ (\E t \in Threads : CallProceeds(t)) \/ MacroWrites \/ UNCHANGED workVars
  <2>1. UNCHANGED <<rpc, once, cpc>>
    BY <1>1 DEF World, CallProceeds, MacroWrites, workVars, remapVars
  <2> QED  BY <2>1 DEF Made, Running
<1>2. CASE MainGoesOn
  BY <1>2, MainMoves
<1>3. ASSUME NEW t \in Enders, CloseUngrab(t) \/ CloseGoesOn(t) PROVE CloseInv'
  <2> USE RemapperAssumption DEF ControlTypeOK, Closing
  <2>1. CASE CloseUngrab(t)
    <3>1. cpc'[t] = "ungrab" /\ \A u \in Enders \ {t} : cpc'[u] = cpc[u]
      BY <2>1 DEF CloseUngrab
    <3> QED  BY <2>1, <3>1 DEF CloseUngrab, MayClose, Made, Running
  <2>2. CASE CloseJoin(t)
    <3>1. cpc'[t] = "over" /\ \A u \in Enders \ {t} : cpc'[u] = cpc[u]
      BY <2>2 DEF CloseJoin
    <3> QED  BY <2>2, <3>1 DEF CloseJoin, MayClose, Made, Running
  <2>3. CASE CloseOutput(t)
    <3>1. cpc'[t] = "out" /\ \A u \in Enders \ {t} : cpc'[u] = cpc[u]
      BY <2>3 DEF CloseOutput
    <3> QED  BY <2>3, <3>1 DEF CloseOutput, Made, Running
  <2>4. CASE CloseDone(t)
    <3>1. cpc'[t] = "over" /\ \A u \in Enders \ {t} : cpc'[u] = cpc[u]
      BY <2>4 DEF CloseDone
    <3> QED  BY <2>4, <3>1 DEF CloseDone, Made, Running
  <2>5. CASE CloseSource(t)
    <3>1. cpc'[t] = "gone" /\ \A u \in Enders \ {t} : cpc'[u] = cpc[u]
      BY <2>5 DEF CloseSource
    <3> QED  BY <2>5, <3>1 DEF CloseSource, Made, Running
  <2> QED  BY <1>3, <2>1, <2>2, <2>3, <2>4, <2>5 DEF CloseGoesOn
<1> QED  BY <1>1, <1>2, <1>3 DEF Work

\* A call on the source that is made by IoctlCall: the source is open, so it
\* is not refused.
LEMMA IoctlBegins ==
  ASSUME RemapInv, NEW t \in Threads, NEW op, once # "done", IoctlCall(t, op)
  PROVE  /\ at[t] = "idle" /\ at'[t] = op
         /\ on'[t] = Src /\ ret'[t] = "none" /\ got'[t] = <<>>
         /\ \A u \in Threads \ {t} :
              at'[u] = at[u] /\ on'[u] = on[u] /\ ret'[u] = ret[u] /\ got'[u] = got[u]
         /\ UNCHANGED <<inputVars, grab, queue, fileVars>>
BY DEF RemapInv, SrcCalls, Inv, DeviceTypeOK, IoctlCall, Control, ControlRefused, Begin

\* Close of the source.
LEMMA SourceCloses ==
  ASSUME RemapInv, NEW t \in Threads, Close(t, Src)
  PROVE  /\ at[t] = "idle" /\ at'[t] \in {"idle", "closing"}
         /\ on'[t] = Src /\ got'[t] = <<>>
         /\ \A u \in Threads \ {t} :
              at'[u] = at[u] /\ on'[u] = on[u] /\ ret'[u] = ret[u] /\ got'[u] = got[u]
         /\ UNCHANGED <<inputVars, queue>>
         /\ grab # Src => grab' # Src
<1> USE Names3, DeviceAssumption DEF RemapInv, Inv, DeviceTypeOK
<1>1. CASE CloseIdle(t, Src)
  BY <1>1 DEF CloseIdle, AtOnce, GrabWithout
<1>2. CASE CloseBusy(t, Src)
  BY <1>2 DEF CloseBusy, AtOnce, Begin
<1>3. CASE ControlRefused(t, Src)
  BY <1>3 DEF ControlRefused, AtOnce
<1> QED  BY <1>1, <1>2, <1>3 DEF Close

\* What an event of the source becomes.
LEMMA EmittedType ==
  ASSUME Inv, NEW e \in Known
  PROVE  Emitted(e) \in Seq(ToWrite)
<1>1. frames \in 0..MaxFrames /\ MaxFrames \in Nat
  BY DeviceAssumption DEF Inv, DeviceTypeOK
<1>2. CASE e = Dropped
  <2>1. e.kind # "KEY" /\ Verbatim(e) \in ToWrite
    BY <1>2, ToWriteHas DEF Verbatim, Dropped, Event
  <2>2. <<Verbatim(e)>> \in Seq(ToWrite)
    BY <2>1
  <2> QED  BY <2>1, <2>2 DEF Emitted
<1>3. CASE e \in [frame : 1..frames, kind : {"KEY", "SYN"}]
  <2>1. e.frame \in 1..MaxFrames /\ e # Dropped
    BY <1>1, <1>3 DEF Dropped, Event
  <2>2. Stream!Mapped(e.frame) \in Seq(ToWrite) /\ Verbatim(e) \in ToWrite
    BY <2>1, ToWriteHas DEF Verbatim
  <2>3. <<Verbatim(e)>> \in Seq(ToWrite)
    BY <2>2
  <2> QED  BY <2>2, <2>3 DEF Emitted
<1> QED  BY <1>2, <1>3 DEF Known

\* Where the goroutines are, and what Run has to write.
LEMMA ControlStep ==
  ASSUME RemapInv, [Work]_workVars
  PROVE  ControlTypeOK'
<1> USE ToWriteHas DEF RemapInv, ControlTypeOK, Goto
<1>1. CASE World \/ (\E t \in Threads : CallProceeds(t)) \/ UNCHANGED workVars
  BY <1>1 DEF World, CallProceeds, workVars, remapVars
<1>2. CASE Query
  BY <1>2 DEF Query, Queries
<1>3. CASE QueryFails \/ CreateOutput \/ CreateFails \/ GrabSource \/ Grabbed \/ GrabFails \/ Undone
           \/ Read \/ ReadFails \/ PutFails
  BY <1>3 DEF QueryFails, CreateOutput, CreateFails, GrabSource, Grabbed, GrabFails, Undone, Read,
              ReadFails, PutFails
<1>4. CASE Map
  <2>1. Head(got[Main]) \in Known
    BY <1>4, HeadTailProperties DEF Map, SrcEvents
  <2> QED  BY <1>4, <2>1, EmittedType DEF Map
<1>5. CASE Put
  BY <1>5, HeadTailProperties DEF Put
<1>6. ASSUME NEW t \in Enders, CloseUngrab(t) \/ CloseGoesOn(t) PROVE ControlTypeOK'
  BY <1>6 DEF CloseUngrab, CloseGoesOn, CloseJoin, CloseOutput, CloseDone, CloseSource, Closing
<1>7. CASE MacroWrites
  BY <1>7 DEF MacroWrites
<1> QED  BY <1>1, <1>2, <1>3, <1>4, <1>5, <1>6, <1>7 DEF Work, MainGoesOn, Enders

\* The calls on the source.
LEMMA SrcCallsStep ==
  ASSUME RemapInv, [Work]_workVars
  PROVE  SrcCalls'
<1> USE Names3 DEF RemapInv, SrcCalls, Reading
<1>1. CASE UNCHANGED <<callVars, file, remapVars>>
  BY <1>1 DEF callVars, remapVars
<1>2. CASE World
  BY <1>1, <1>2 DEF World, Emit, Unplug, fileVars
<1>3. ASSUME NEW t \in Threads, CallProceeds(t) PROVE SrcCalls'
  <2>1. UNCHANGED remapVars
    BY <1>3 DEF CallProceeds
  <2>2. CASE Proceed(t)
    <3>1. at[t] # "idle" /\ t \in Enders
      BY <2>2, CallMoves, RemapperAssumption DEF Enders
    <3>2. file[Src] = "open" => file'[Src] = "open"
      BY <2>2, CallGrabs
    <3> QED  BY <2>1, <2>2, <3>1, <3>2, CallMoves, RemapperAssumption DEF remapVars, Enders, Reading
  <2>3. CASE UNCHANGED deviceVars
    BY <1>1, <2>1, <2>3 DEF deviceVars, fileVars
  <2> QED  BY <1>3, <2>2, <2>3 DEF CallProceeds, OnOutput
<1>4. ASSUME NEW op \in {"Query", "Grab"}, IoctlCall(Main, op), UNCHANGED <<once, cpc>>,
             rpc \in {"query", "create"}, rpc' = IF op = "Query" THEN "query" ELSE "grab"
      PROVE  SrcCalls'
  <2>1. once = "free"
    BY <1>4 DEF CloseInv, Made, Running
  <2> QED  BY <1>4, <2>1, IoctlBegins, RemapperAssumption DEF fileVars
<1>5. CASE Query \/ GrabSource
  BY <1>4, <1>5 DEF Query, GrabSource, Goto
<1>6. CASE Read
  BY <1>6, RemapperAssumption DEF Read, ReadOne, ReadOf, Begin, Inv, DeviceTypeOK, fileVars
<1>7. CASE MainGoesOn /\ ~Query /\ ~GrabSource /\ ~Read
  <2>1. UNCHANGED <<callVars, file, once, cpc>>
    BY <1>7 DEF MainGoesOn, QueryFails, CreateOutput, CreateFails, Grabbed, GrabFails, Undone, Map,
              ReadFails, Put, PutFails, OnNeither, OnOutput, deviceVars, fileVars
  <2>2. at[Main] \in {"Query", "Grab", "locking"} \cup Reading => rpc' = rpc
    BY <1>7 DEF MainGoesOn, QueryFails, CreateOutput, CreateFails, Grabbed, GrabFails, Undone, Map,
              ReadFails, Put, PutFails, Goto, SrcGave, Between
  <2> QED  BY <2>1, <2>2 DEF callVars
<1>8. ASSUME NEW t \in Enders, CloseUngrab(t) \/ CloseGoesOn(t) PROVE SrcCalls'
  <2> USE RemapperAssumption DEF Enders, ControlTypeOK, Closing
  <2>1. CASE CloseUngrab(t)
    <3>1. /\ once # "done" /\ IoctlCall(t, "Ungrab") /\ rpc' = rpc /\ once' = "busy"
          /\ cpc' = [cpc EXCEPT ![t] = "ungrab"] /\ cpc[t] = "no"
      BY <2>1 DEF CloseUngrab
    <3> QED  BY <3>1, IoctlBegins DEF fileVars
  <2>2. CASE CloseSource(t)
    <3>1. cpc[t] = "over" /\ cpc' = [cpc EXCEPT ![t] = "gone"] /\ rpc' = rpc /\ once' = once
      BY <2>2 DEF CloseSource
    <3>2. once = "done"
      BY <3>1 DEF CloseInv
    <3> QED  BY <2>2, <3>1, <3>2, SourceCloses DEF CloseSource
  <2>3. CASE CloseJoin(t) \/ CloseOutput(t) \/ CloseDone(t)
    <3>1. /\ UNCHANGED <<callVars, file, rpc>> /\ (once = "done" => once' = "done")
          /\ \A u \in Enders : cpc'[u] = cpc[u] \/ (u = t /\ cpc[u] \in {"no", "ungrab", "out"})
      BY <2>3 DEF CloseJoin, CloseOutput, CloseDone, OnNeither, OnOutput, deviceVars, fileVars
    <3>2. at[t] = "idle" \/ cpc'[t] = cpc[t] \/ cpc[t] \notin {"ungrab", "gone"}
      BY <2>3 DEF CloseOutput, CloseJoin, CloseDone
    <3> QED  BY <3>1, <3>2 DEF callVars
  <2> QED  BY <1>8, <2>1, <2>2, <2>3 DEF CloseGoesOn
<1>9. CASE MacroWrites
  BY <1>1, <1>9 DEF MacroWrites, OnOutput, deviceVars, fileVars, callVars
<1>10. CASE UNCHANGED workVars
  BY <1>1, <1>10 DEF workVars, deviceVars, fileVars
<1> QED  BY <1>2, <1>3, <1>5, <1>6, <1>7, <1>8, <1>9, <1>10 DEF Work, Enders

\* Only ReadTakes moves events, and only it makes a read succeed.
LEMMA CallReadsNot ==
  ASSUME Inv, NEW t \in Threads, Proceed(t), ~ReadTakes(t)
  PROVE  /\ UNCHANGED <<queue, got>>
         /\ at[t] \in {"locking"} \cup Reading /\ at'[t] = "idle" => ret'[t] # "ok"
<1>1. UNCHANGED <<queue, got>>
  BY DEF Proceed, ReadLock, ReadRefused, ReadEnds, ReadBlocks, ReadWakes, ReadEvicted, Ioctl,
         CloseWaited
<1>2. ASSUME at[t] \in {"locking"} \cup Reading, at'[t] = "idle"
      PROVE  ret'[t] # "ok"
  BY <1>2 DEF Inv, DeviceTypeOK, Proceed, ReadLock, ReadRefused, ReadEnds, ReadBlocks, ReadWakes,
              ReadEvicted, Ioctl, Ioctls, CloseWaited, Leave, Return, Reading
<1> QED  BY <1>1, <1>2

\* What a call on the source does to the events.
LEMMA CallReads ==
  ASSUME RemapInv, NEW t \in Threads, Proceed(t)
  PROVE  /\ queue'[Src] \in Seq(Known)
         /\ got'[Main] \in Seq(Known)
         /\ t = Main /\ at[Main] \in {"locking"} \cup Reading /\ at'[Main] = "idle"
              /\ ret'[Main] = "ok" => got'[Main] # <<>>
<1> USE Names3 DEF RemapInv, SrcEvents, SrcCalls, Inv, DeviceTypeOK
<1>1. CASE ReadTakes(t)
  <2> DEFINE q == queue[Src]
             n == IF Len(q) <= size[t] THEN Len(q) ELSE size[t]
  <2>1. /\ q # <<>>
        /\ got' = [got EXCEPT ![t] = SubSeq(q, 1, n)]
        /\ queue' = [queue EXCEPT ![Src] = SubSeq(q, n + 1, Len(q))]
    BY <1>1 DEF ReadTakes
  <2>2. q \in Seq(Known) /\ Len(q) \in Nat \ {0}
    BY <2>1, LenProperties
  <2>7. size[t] \in {1, BufEvents}
    OBVIOUS
  <2>3. size[t] \in Nat \ {0}
    BY <2>7, DeviceAssumption
  <2>4. n \in 1..Len(q)
    BY <2>2, <2>3
  <2> HIDE DEF n, q
  <2>5. /\ SubSeq(q, 1, n) \in Seq(Known) /\ Len(SubSeq(q, 1, n)) = n
        /\ SubSeq(q, n + 1, Len(q)) \in Seq(Known)
    BY <2>2, <2>4, SubSeqProperties
  <2>6. n # 0 /\ Len(<<>>) = 0
    BY <2>2, <2>4
  <2> QED  BY <2>1, <2>5, <2>6
<1>2. CASE ~ReadTakes(t)
  BY <1>2, CallReadsNot
<1> QED  BY <1>1, <1>2

LEMMA SrcEventsStep ==
  ASSUME RemapInv, [Work]_workVars
  PROVE  SrcEvents'
<1> USE Names3, DeviceAssumption DEF RemapInv, SrcEvents
<1>0. frames \in Nat /\ frames \in 0..MaxFrames /\ MaxFrames \in Nat
  BY DEF Inv, DeviceTypeOK
<1>1. ASSUME UNCHANGED <<frames, at, ret>>, queue'[Src] \in Seq(Known), got'[Main] = got[Main],
             rpc' = "read" => rpc = "read"
      PROVE  SrcEvents'
  BY <1>1 DEF Known, SrcGave, Dropped, Event
<1>2. CASE World
  <2>1. CASE Emit
    <3>1. Known' = {Dropped} \cup [frame : 1..(frames + 1), kind : {"KEY", "SYN"}]
      BY <2>1 DEF Emit, Known, Dropped, Event
    <3>2. Known \subseteq Known'
      <4>1. 1..frames \subseteq 1..(frames + 1)
        BY <1>0
      <4> QED  BY <3>1, <4>1 DEF Known
    <3>3. Seq(Known) \subseteq Seq(Known')
      BY <3>2
    <3>4. queue[Src] \in Seq(Known')
      BY <3>3
    <3>5. frames' \in Nat /\ frames + 1 \in 1..frames'
      BY <1>0, <2>1 DEF Emit
    <3>6. PushFrame(queue[Src], frames + 1) \in Seq(Known')
      <4>1. Dropped \in Known' /\ Event(frames + 1, "KEY") \in Known' /\ Event(frames + 1, "SYN") \in Known'
        BY <1>0, <3>1 DEF Event
      <4> DEFINE K == Known'
      <4>2. ASSUME NEW p \in Seq(K), NEW e \in K
            PROVE  Push(p, e) \in Seq(K)
        <5>1. Append(p, e) \in Seq(K) /\ <<Dropped, e>> \in Seq(K)
          BY <4>1
        <5> QED  BY <5>1 DEF Push
      <4> HIDE DEF K
      <4> QED  BY <3>4, <4>1, <4>2 DEF PushFrame, K
    <3>7. queue'[Src] \in Seq(Known')
      BY <2>1, <3>4, <3>6 DEF Emit
    <3>8. got'[Main] \in Seq(Known')
      BY <2>1, <3>3 DEF Emit, callVars
    <3> QED  BY <1>2, <2>1, <3>7, <3>8 DEF Emit, World, callVars, remapVars, SrcGave
  <2>2. CASE Unplug
    BY <1>1, <1>2, <2>2 DEF World, Unplug, callVars, remapVars
  <2> QED  BY <1>2, <2>1, <2>2 DEF World
<1>3. ASSUME NEW t \in Threads, CallProceeds(t) PROVE SrcEvents'
  <2>1. UNCHANGED remapVars
    BY <1>3 DEF CallProceeds
  <2>2. CASE Proceed(t)
    <3>1. UNCHANGED frames
      BY <2>2, CallMoves
    <3>2. queue'[Src] \in Seq(Known') /\ got'[Main] \in Seq(Known')
      BY <2>2, <3>1, CallReads DEF Known, Dropped, Event
    <3>3. ASSUME rpc' = "read", SrcGave(Main, "ok")' PROVE got'[Main] # <<>>
      <4>1. rpc = "read"
        BY <2>1, <3>3 DEF remapVars
      <4>2. CASE t = Main
        <5>1. at[Main] \in {"locking"} \cup Reading
          BY <2>2, <4>1, <4>2, CallMoves DEF SrcCalls, CloseInv
        <5> QED  BY <2>2, <3>3, <4>2, <5>1, CallReads DEF SrcGave
      <4>3. CASE t # Main
        BY <2>2, <3>3, <4>1, <4>3, CallMoves DEF SrcGave
      <4> QED  BY <4>2, <4>3
    <3> QED  BY <3>2, <3>3
  <2>3. CASE UNCHANGED deviceVars
    BY <1>1, <2>1, <2>3 DEF deviceVars, inputVars, callVars, remapVars
  <2> QED  BY <1>3, <2>2, <2>3 DEF CallProceeds, OnOutput
<1>4. ASSUME UNCHANGED <<frames, queue>>,
             got'[Main] = got[Main] \/ got'[Main] = <<>>,
             rpc' = "read" => rpc = "read" /\ got'[Main] = got[Main]
                                /\ at'[Main] = at[Main] /\ ret'[Main] = ret[Main]
      PROVE  SrcEvents'
  <2>0. <<>> \in Seq(Known) /\ got[Main] \in Seq(Known)
    OBVIOUS
  <2>1. got'[Main] \in Seq(Known)
    BY <1>4, <2>0, Zenon
  <2> QED  BY <1>4, <2>1 DEF Known, SrcGave, Dropped, Event
<1>5. CASE Query \/ GrabSource
  <2>1. PICK op \in {"Query", "Grab"} : IoctlCall(Main, op)
    BY <1>5 DEF Query, GrabSource
  <2>2. rpc' # "read" /\ once # "done"
    BY <1>5 DEF Query, GrabSource, Goto, CloseInv, Made, Running
  <2> QED  BY <1>4, <2>1, <2>2, IoctlBegins DEF inputVars
<1>6. CASE Read
  <2>1. at'[Main] = "locking" /\ got'[Main] = <<>> /\ UNCHANGED <<frames, queue>>
    BY <1>6 DEF Read, ReadOne, ReadOf, Begin, inputVars, Inv, DeviceTypeOK
  <2>2. got'[Main] \in Seq(Known)
    BY <2>1
  <2> QED  BY <2>1, <2>2 DEF Known, SrcGave, Dropped, Event
<1>7. CASE MainGoesOn /\ ~Query /\ ~GrabSource /\ ~Read
  <2>1. UNCHANGED deviceVars /\ rpc' # "read"
    BY <1>7 DEF MainGoesOn, QueryFails, CreateOutput, CreateFails, Grabbed, GrabFails, Undone, Map,
              ReadFails, Put, PutFails, OnNeither, OnOutput, Goto
  <2> QED  BY <1>4, <2>1 DEF deviceVars, inputVars, callVars
<1>8. ASSUME NEW t \in Enders, CloseUngrab(t) \/ CloseGoesOn(t) PROVE SrcEvents'
  <2>0. t = Main => rpc = "eof"
    BY <1>8, RemapperAssumption
       DEF CloseUngrab, CloseGoesOn, CloseJoin, CloseOutput, CloseDone, CloseSource, MayClose,
           Closing, CloseInv, Enders
  <2>1. rpc' = rpc /\ t \in Threads
    BY <1>8 DEF CloseUngrab, CloseGoesOn, CloseJoin, CloseOutput, CloseDone, CloseSource, Closing, Enders
  <2>2. CASE CloseUngrab(t)
    <3>1. IoctlCall(t, "Ungrab") /\ once # "done"
      BY <2>2 DEF CloseUngrab
    <3> QED  BY <1>4, <2>0, <2>1, <3>1, IoctlBegins DEF inputVars
  <2>3. CASE CloseSource(t)
    <3>1. Close(t, Src)
      BY <2>3 DEF CloseSource
    <3> QED  BY <1>4, <2>0, <2>1, <3>1, SourceCloses DEF inputVars
  <2>4. CASE CloseJoin(t) \/ CloseOutput(t) \/ CloseDone(t)
    <3>1. UNCHANGED deviceVars
      BY <2>4 DEF CloseJoin, CloseOutput, CloseDone, OnNeither, OnOutput
    <3> QED  BY <1>1, <2>1, <3>1 DEF deviceVars, inputVars, callVars
  <2> QED  BY <1>8, <2>2, <2>3, <2>4 DEF CloseGoesOn
<1>9. CASE MacroWrites
  BY <1>1, <1>9 DEF MacroWrites, OnOutput, deviceVars, inputVars, callVars
<1>10. CASE UNCHANGED workVars
  BY <1>1, <1>10 DEF workVars, deviceVars, inputVars, callVars, remapVars
<1> QED  BY <1>2, <1>3, <1>5, <1>6, <1>7, <1>8, <1>9, <1>10 DEF Work, Enders

LEMMA GrabStep ==
  ASSUME RemapInv, [Work]_workVars
  PROVE  GrabInv'
<1> USE Names3 DEF RemapInv, GrabInv, Freed, SrcGave
<1>1. ASSUME UNCHANGED <<grab, at, ret>>, plugged' = plugged \/ plugged' = "out",
             UNCHANGED remapVars
      PROVE  GrabInv'
  BY <1>1 DEF remapVars, Made, Running
<1>2. CASE World
  BY <1>1, <1>2 DEF World, Emit, Unplug, callVars
<1>3. ASSUME NEW t \in Threads, CallProceeds(t) PROVE GrabInv'
  <2>1. UNCHANGED remapVars
    BY <1>3 DEF CallProceeds
  <2>2. CASE Proceed(t)
    <3>1. at[t] # "idle" /\ t \in Enders /\ on[t] = Src
      BY <2>2, CallMoves, RemapperAssumption DEF Enders, SrcCalls
    <3>2. UNCHANGED <<plugged, rpc, once, cpc>>
      BY <2>1, <2>2, CallMoves DEF remapVars
    <3>3. once = "free" => t = Main /\ file[Src] = "open"
      BY <3>1 DEF SrcCalls, CloseInv, Enders
    <3>4. at[t] = "Grab" => rpc = "grab" /\ once = "free"
      BY <3>1, <3>3 DEF SrcCalls, CloseInv, Enders, Reading, Made, Running
    <3>5. grab # Src /\ rpc # "grab" => grab' # Src
      BY <2>2, <3>1, <3>4, CallGrabs
    <3>6. rpc = "grab" => (grab' = Src <=> SrcGave(Main, "ok")')
      <4>1. SUFFICES ASSUME rpc = "grab" PROVE grab' = Src <=> SrcGave(Main, "ok")'
        OBVIOUS
      <4>2. once = "free" /\ t = Main /\ at[Main] = "Grab" /\ file[Src] = "open"
        BY <3>1, <3>3, <4>1 DEF SrcCalls, CloseInv, Enders, Reading, Made, Running
      <4>3. grab # Src
        BY <4>1, <4>2
      <4> QED  BY <2>2, <3>1, <4>2, <4>3, CallGrabs
    <3>7. Made /\ once = "free" => grab' = grab
      <4>1. Made /\ once = "free" => at[t] \notin {"Grab", "Ungrab"} /\ file[Src] = "open"
        BY <3>1, <3>3 DEF SrcCalls, CloseInv, Enders, Reading, Made, Running
      <4> QED  BY <2>2, <3>1, <4>1, CallGrabs
    <3>8. ASSUME NEW u \in Enders, cpc[u] = "ungrab", at'[u] = "idle" PROVE Freed'
      <4>1. rpc # "grab"
        BY <3>8 DEF CloseInv, Made, Running
      <4>2. CASE u = t
        <5>1. at[t] = "Ungrab"
          BY <3>1, <3>8, <4>2 DEF SrcCalls, CloseInv, Enders
        <5> QED  BY <2>2, <3>1, <3>2, <5>1, CallGrabs
      <4>3. CASE u # t
        <5>1. at[u] = "idle"
          BY <2>2, <3>8, <4>3, CallMoves DEF Enders
        <5> QED  BY <3>2, <3>5, <3>8, <4>1, <5>1
      <4> QED  BY <4>2, <4>3
    <3>9. ASSUME once = "done" \/ \E u \in Enders : cpc[u] = "out" PROVE Freed'
      <4>1. rpc # "grab"
        BY <3>9 DEF CloseInv, Made, Running
      <4> QED  BY <3>2, <3>5, <3>9, <4>1
    <3> QED  BY <3>2, <3>5, <3>6, <3>7, <3>8, <3>9 DEF Made, Running
  <2>3. CASE UNCHANGED deviceVars
    BY <1>1, <2>1, <2>3 DEF deviceVars, inputVars, callVars
  <2> QED  BY <1>3, <2>2, <2>3 DEF CallProceeds, OnOutput
<1>4. CASE MainGoesOn
  <2>1. UNCHANGED <<plugged, grab>> /\ \A u \in Threads \ {Main} : at'[u] = at[u]
    <3>1. CASE Query \/ GrabSource
      <4>1. PICK op \in {"Query", "Grab"} : IoctlCall(Main, op)
        BY <3>1 DEF Query, GrabSource
      <4>2. once # "done"
        BY <3>1 DEF Query, GrabSource, Goto, CloseInv, Made, Running
      <4> QED  BY <4>1, <4>2, IoctlBegins DEF inputVars
    <3>2. CASE Read
      BY <3>2 DEF Read, ReadOne, ReadOf, Begin, inputVars, Inv, DeviceTypeOK
    <3>3. CASE ~Query /\ ~GrabSource /\ ~Read
      BY <1>4, <3>3 DEF MainGoesOn, QueryFails, CreateOutput, CreateFails, Grabbed, GrabFails, Undone,
                Map, ReadFails, Put, PutFails, OnNeither, OnOutput, deviceVars, inputVars, callVars
    <3> QED  BY <3>1, <3>2, <3>3
  <2>2. UNCHANGED <<once, cpc>> /\ rpc \notin {"eof", "error"} /\ cpc[Main] = "no"
    BY <1>4, MainMoves DEF CloseInv, Enders
  <2>3. \/ rpc' = rpc /\ rpc # "grab"
        \/ rpc \in {"query", "create", "undo"} /\ rpc' \in {"create", "failed"}
        \/ rpc = "create" /\ rpc' = "grab" /\ at'[Main] # "idle"
        \/ rpc = "grab" /\ rpc' = "ready" /\ SrcGave(Main, "ok")
        \/ rpc = "grab" /\ rpc' = "undo" /\ ~SrcGave(Main, "ok")
        \/ Made /\ Made'
    <3>1. CASE GrabSource
      <4>1. once # "done"
        BY <3>1 DEF GrabSource, Goto, CloseInv, Made, Running
      <4> QED  BY <3>1, <4>1, IoctlBegins DEF GrabSource, Goto
    <3>2. CASE ~GrabSource
      BY <1>4, <3>2 DEF MainGoesOn, Query, QueryFails, CreateOutput, CreateFails, Grabbed, GrabFails,
                Undone, Read, Between, Map, ReadFails, Put, PutFails, Goto, Made, Running
    <3> QED  BY <3>1, <3>2
  <2>4. \A u \in Enders : u # Main => at'[u] = at[u]
    BY <2>1 DEF Enders
  <2>5. ~Made => once = "free"
    BY DEF CloseInv
  <2> QED  BY <2>1, <2>2, <2>3, <2>4, <2>5 DEF Made, Running
<1>5. ASSUME NEW t \in Enders, CloseUngrab(t) \/ CloseGoesOn(t) PROVE GrabInv'
  <2> USE RemapperAssumption DEF Enders, ControlTypeOK, Closing
  <2>0. Made /\ rpc' = rpc
    BY <1>5 DEF CloseUngrab, CloseGoesOn, CloseJoin, CloseOutput, CloseDone, CloseSource, MayClose,
                CloseInv, Made, Running
  <2>1. CASE CloseUngrab(t)
    <3>1. /\ once # "done" /\ IoctlCall(t, "Ungrab") /\ once' = "busy"
          /\ cpc' = [cpc EXCEPT ![t] = "ungrab"] /\ cpc[t] = "no"
      BY <2>1 DEF CloseUngrab
    <3>2. /\ UNCHANGED <<plugged, grab>> /\ at'[t] = "Ungrab"
          /\ \A u \in Threads \ {t} : at'[u] = at[u]
      BY <3>1, IoctlBegins DEF inputVars
    <3> QED  BY <2>0, <3>1, <3>2 DEF Made, Running
  <2>2. CASE CloseSource(t)
    <3>1. cpc[t] = "over" /\ cpc' = [cpc EXCEPT ![t] = "gone"] /\ once' = once
      BY <2>2 DEF CloseSource
    <3>2. once = "done"
      BY <3>1 DEF CloseInv
    <3>3. UNCHANGED plugged /\ (grab # Src => grab' # Src)
      BY <2>2, SourceCloses DEF CloseSource, inputVars
    <3> QED  BY <2>0, <3>1, <3>2, <3>3 DEF Made, Running
  <2>3. CASE CloseJoin(t)
    BY <2>0, <2>3 DEF CloseJoin, OnNeither, OnOutput, deviceVars, inputVars, callVars, Made, Running
  <2>4. CASE CloseOutput(t)
    <3>1. /\ cpc[t] = "ungrab" /\ cpc' = [cpc EXCEPT ![t] = "out"] /\ once' = once
          /\ at[t] = "idle" /\ UNCHANGED <<plugged, grab, at>>
      BY <2>4 DEF CloseOutput, OnOutput, deviceVars, inputVars, callVars
    <3>2. once # "free" /\ Freed
      BY <3>1 DEF CloseInv
    <3> QED  BY <2>0, <3>1, <3>2 DEF Made, Running
  <2>5. CASE CloseDone(t)
    <3>1. /\ cpc[t] = "out" /\ cpc' = [cpc EXCEPT ![t] = "over"] /\ once' = "done"
          /\ UNCHANGED <<plugged, grab, at>>
      BY <2>5 DEF CloseDone, OnNeither, OnOutput, deviceVars, inputVars, callVars
    <3>2. Freed
      BY <3>1
    <3> QED  BY <2>0, <3>1, <3>2 DEF Made, Running
  <2> QED  BY <1>5, <2>1, <2>2, <2>3, <2>4, <2>5 DEF CloseGoesOn
<1>6. CASE MacroWrites
  <2>1. UNCHANGED <<grab, at, ret, plugged, rpc, once, cpc>>
    BY <1>6 DEF MacroWrites, OnOutput, deviceVars, inputVars, callVars
  <2> QED  BY <2>1 DEF Made, Running
<1>7. CASE UNCHANGED workVars
  BY <1>1, <1>7 DEF workVars, deviceVars, inputVars, callVars
<1> QED  BY <1>2, <1>3, <1>4, <1>5, <1>6, <1>7 DEF Work, Enders
-----------------------------------------------------------------------------
(* How a call on the output goes on, and what becomes of the output.       *)

LEMMA OutMoves ==
  ASSUME VP!Inv, NEW t \in Threads, VP!VProceed(t)
  PROVE  /\ vat[t] # "idle"
         /\ \A u \in Threads \ {t} : vat'[u] = vat[u] /\ vret'[u] = vret[u]
         /\ \/ vat'[t] = "idle"
            \/ vat[t] \in VP!Creating /\ vat'[t] \in VP!Creating
            \/ vat[t] \in InWrite /\ vat'[t] \in InWrite
            \/ vat[t] \in InOut /\ vat'[t] \in InOut
<1> USE DEF VP!Inv, VP!VirtualTypeOK, VP!VGoto, VP!VReturn
<1>1. CASE VP!Enable(t) \/ VP!Setup(t) \/ VP!Create(t)
  BY <1>1 DEF VP!Enable, VP!Setup, VP!Create, VP!CreateDone, VP!GiveUp, VP!Creating
<1>2. CASE VP!WriteLock(t) \/ VP!WriteDone(t)
  BY <1>2 DEF VP!WriteLock, VP!WriteDone, InWrite
<1>3. CASE VP!CloseFd(t) \/ VP!Destroy(t) \/ VP!CloseFile(t) \/ VP!SetNil(t)
  BY <1>3 DEF VP!CloseFd, VP!Destroy, VP!CloseFile, VP!SetNil, InOut
<1> QED  BY <1>1, <1>2, <1>3 DEF VP!VProceed

LEMMA OutEffects ==
  ASSUME VP!Inv, NEW t \in Threads, VP!VProceed(t)
  PROVE  /\ vptr # "none" => vptr' \in {vptr, "nil"}
         /\ vat[t] \in VP!Creating =>
              \/ vat'[t] # "idle"
              \/ vret'[t] = "ok" /\ vptr' = "set" /\ vfile' = "open"
              \/ vret'[t] = "ErrCreate" /\ vptr' = "none"
         /\ vat[t] \in {"fd", "destroy"} =>
              vat'[t] \in {"destroy", "close"} /\ vptr' = vptr /\ vfile' = vfile
         /\ vat[t] = "close" =>
              /\ vat'[t] = "nil" /\ vptr' = vptr
              /\ vptr = "set" /\ vfile = "open" /\ (\A u \in Threads : vat[u] # "write") =>
                   vfile' = "closed"
         /\ vat[t] = "nil" => vat'[t] = "idle" /\ vptr' = "nil" /\ vfile' = vfile
<1> USE DEF VP!Inv, VP!VirtualTypeOK, VP!VGoto, VP!VReturn, VP!CreateInv, VP!Creating
<1>1. CASE VP!Enable(t) \/ VP!Setup(t) \/ VP!Create(t)
  BY <1>1 DEF VP!Enable, VP!Setup, VP!Create, VP!CreateDone, VP!GiveUp
<1>2. CASE VP!WriteLock(t) \/ VP!WriteDone(t)
  BY <1>2 DEF VP!WriteLock, VP!WriteDone
<1>3. CASE VP!CloseFd(t) \/ VP!Destroy(t)
  BY <1>3 DEF VP!CloseFd, VP!Destroy
<1>4. CASE VP!CloseFile(t)
  BY <1>4 DEF VP!CloseFile
<1>5. CASE VP!SetNil(t)
  BY <1>5 DEF VP!SetNil
<1> QED  BY <1>1, <1>2, <1>3, <1>4, <1>5 DEF VP!VProceed

\* A call on the output that is made.
LEMMA OutBegins ==
  ASSUME VP!Inv, NEW t \in Threads, NEW e,
         VP!CreateOpen(t) \/ VP!WriteBegin(t, e) \/ VP!CloseOut(t)
  PROVE  /\ vat[t] = "idle"
         /\ \A u \in Threads \ {t} : vat'[u] = vat[u] /\ vret'[u] = vret[u]
         /\ VP!CreateOpen(t) =>
              /\ vptr' = vptr
              /\ \/ vat'[t] = "enable"
                 \/ vat'[t] = "idle" /\ vret'[t] = "ErrCreate"
         /\ VP!WriteBegin(t, e) => vptr' = vptr /\ vfile' = vfile /\ vat'[t] \in {"idle", "locking"}
         /\ VP!CloseOut(t) =>
              /\ vptr' = vptr /\ vfile' = vfile
              /\ \/ vptr = "nil" /\ vat'[t] = "idle"
                 \/ vptr = "set" /\ vat'[t] = "fd"
<1> USE DEF VP!Inv, VP!VirtualTypeOK, VP!VGoto, VP!VReturn
<1>1. CASE VP!CreateOpen(t)
  <2>1. kdev = "none" /\ vptr = "none"
    BY <1>1 DEF VP!CreateOpen, VP!CreateInv
  <2>2. ~VP!WriteBegin(t, e) /\ ~VP!CloseOut(t)
    BY <2>1 DEF VP!WriteBegin, VP!CloseOut, VP!CloseAgain, VP!CloseBegin
  <2> QED  BY <1>1, <2>2 DEF VP!CreateOpen
<1>2. CASE VP!WriteBegin(t, e)
  <2>1. vat'[t] \in {"idle", "locking"} /\ (vptr = "nil" => vret'[t] = "ErrInvalid")
        /\ vptr # "none"
    BY <1>2 DEF VP!WriteBegin
  <2>2. ~VP!CreateOpen(t) /\ ~VP!CloseOut(t)
    BY <2>1 DEF VP!CreateOpen, VP!CreateInv, VP!CloseOut, VP!CloseAgain, VP!CloseBegin
  <2> QED  BY <1>2, <2>1, <2>2 DEF VP!WriteBegin
<1>3. CASE VP!CloseOut(t)
  <2>1. ~VP!CreateOpen(t) /\ ~VP!WriteBegin(t, e)
    BY <1>3 DEF VP!CreateOpen, VP!CreateInv, VP!WriteBegin, VP!CloseOut, VP!CloseAgain, VP!CloseBegin
  <2> QED  BY <1>3, <2>1 DEF VP!CloseOut, VP!CloseAgain, VP!CloseBegin
<1> QED  BY <1>1, <1>2, <1>3

LEMMA OutCallsStep ==
  ASSUME RemapInv, [Work]_workVars
  PROVE  OutCalls'
<1> USE Names3, RemapperAssumption DEF RemapInv, OutCalls, InOut, InWrite
<1>1. ASSUME UNCHANGED <<vat, rpc, cpc>> PROVE OutCalls'
  BY <1>1 DEF Made, Running
<1>2. CASE World \/ UNCHANGED workVars
  BY <1>1, <1>2 DEF World, OnSource, outVars, remapVars, workVars
<1>3. ASSUME NEW t \in Threads, CallProceeds(t) PROVE OutCalls'
  <2>1. CASE UNCHANGED outVars /\ UNCHANGED remapVars
    BY <1>1, <2>1 DEF outVars, remapVars
  <2>2. CASE VP!VProceed(t) /\ UNCHANGED <<rpc, cpc>>
    BY <2>2, OutMoves DEF VP!Creating, Made, Running
  <2> QED  BY <1>3, <2>1, <2>2, SameProceed DEF CallProceeds, OnSource, remapVars
<1>4. CASE MainGoesOn
  <2>1. UNCHANGED cpc /\ (Made => Made') /\ cpc[Main] = "no"
    BY <1>4, MainMoves DEF CloseInv, Enders
  <2>2. CASE CreateOutput
    <3>1. VP!CreateOpen(Main) /\ rpc' = "create"
      BY <2>2, SameCall DEF CreateOutput, Goto
    <3> QED  BY <2>1, <3>1, OutBegins
  <2>3. CASE GrabFails
    <3>1. VP!CloseOut(Main) /\ rpc' = "undo"
      BY <2>3, SameCall DEF GrabFails, Goto
    <3> QED  BY <2>1, <3>1, OutBegins
  <2>4. CASE Put
    <3>1. VP!WriteBegin(Main, Head(todo)) /\ rpc' = "put"
      BY <2>4, SameCall DEF Put
    <3> QED  BY <2>1, <3>1, OutBegins
  <2>5. CASE ~CreateOutput /\ ~GrabFails /\ ~Put
    <3>1. UNCHANGED outVars
      BY <1>4, <2>5 DEF MainGoesOn, Query, QueryFails, CreateFails, GrabSource, Grabbed, Undone, Read,
                    Map, ReadFails, PutFails, OnNeither, OnSource
    <3>2. vat[Main] \in {"enable", "setup", "create", "fd", "destroy", "close", "nil", "locking",
                         "write"} => rpc' = rpc
      BY <1>4, <2>5 DEF MainGoesOn, Query, QueryFails, CreateFails, GrabSource, Grabbed, Undone, Read,
                    Map, ReadFails, PutFails, Goto, Between, OutGave, CloseInv, Enders
    <3> QED  BY <2>1, <3>1, <3>2 DEF outVars
  <2> QED  BY <2>2, <2>3, <2>4, <2>5
<1>5. ASSUME NEW t \in Enders, CloseUngrab(t) \/ CloseGoesOn(t) PROVE OutCalls'
  <2> USE DEF Enders, ControlTypeOK, Closing
  <2>1. UNCHANGED rpc
    BY <1>5 DEF CloseUngrab, CloseGoesOn, CloseJoin, CloseOutput, CloseDone, CloseSource
  <2>2. CASE CloseOutput(t)
    <3>1. VP!CloseOut(t) /\ cpc' = [cpc EXCEPT ![t] = "out"]
      BY <2>2, SameCall DEF CloseOutput
    <3> QED  BY <2>1, <3>1, OutBegins DEF Made, Running
  <2>3. CASE CloseUngrab(t) \/ CloseJoin(t) \/ CloseDone(t) \/ CloseSource(t)
    <3>1. UNCHANGED vat
      BY <2>3 DEF CloseUngrab, CloseJoin, CloseDone, CloseSource, OnNeither, OnSource, outVars
    <3>2. \A u \in Enders : cpc'[u] = cpc[u] \/ cpc[u] # "out" \/ vat[u] = "idle"
      BY <2>3 DEF CloseUngrab, CloseJoin, CloseDone, CloseSource
    <3> QED  BY <2>1, <3>1, <3>2 DEF Made, Running
  <2> QED  BY <1>5, <2>2, <2>3 DEF CloseGoesOn
<1>6. CASE MacroWrites
  <2>1. VP!WriteBegin(Macro, Batch[mpos + 1]) /\ UNCHANGED <<rpc, cpc>> /\ Made
    BY <1>6, SameCall DEF MacroWrites
  <2> QED  BY <2>1, OutBegins DEF Made, Running
<1> QED  BY <1>2, <1>3, <1>4, <1>5, <1>6 DEF Work, Enders

LEMMA OutInvStep ==
  ASSUME RemapInv, [Work]_workVars
  PROVE  OutInv'
<1> USE Names3, RemapperAssumption DEF RemapInv, OutInv, InOut, InWrite
<1>0. VP!Inv'
  BY DevicesKeep
<1>1. ASSUME UNCHANGED <<outVars, rpc, cpc, once>> PROVE OutInv'
  BY <1>1 DEF outVars, Made, Running
<1>2. CASE World \/ UNCHANGED workVars
  BY <1>1, <1>2 DEF World, OnSource, remapVars, workVars
<1>3. ASSUME NEW t \in Threads, CallProceeds(t) PROVE OutInv'
  <2>1. UNCHANGED <<rpc, cpc, once>>
    BY <1>3 DEF CallProceeds, remapVars
  <2>2. CASE UNCHANGED outVars
    BY <1>1, <2>1, <2>2
  <2>3. CASE VP!VProceed(t)
    <3>1. /\ vat[t] # "idle"
          /\ \A u \in Threads \ {t} : vat'[u] = vat[u] /\ vret'[u] = vret[u]
      BY <2>3, OutMoves
    <3>2. rpc \notin {"query", "grab", "failed"}
      BY <3>1 DEF OutCalls, Made, Running, CloseInv, Enders
    <3>3. vptr # "none" => vptr' \in {vptr, "nil"}
      BY <2>3, OutEffects
    <3>4. CASE rpc = "create"
      <4>1. t = Main /\ vat[t] \in VP!Creating
        BY <3>1, <3>4 DEF OutCalls, Made, Running, CloseInv, Enders, VP!Creating
      <4>2. once = "free" /\ \A u \in Enders : cpc[u] = "no"
        BY <3>4 DEF CloseInv, Made, Running
      <4> QED  BY <2>1, <2>3, <3>4, <4>1, <4>2, OutEffects DEF Made, Running
    <3>5. CASE rpc = "undo"
      <4>1. t = Main /\ vat[t] \in InOut /\ \A u \in Threads : vat[u] # "write"
        BY <3>1, <3>5 DEF OutCalls, Made, Running, CloseInv, Enders
      <4>2. once = "free" /\ \A u \in Enders : cpc[u] = "no"
        BY <3>5 DEF CloseInv, Made, Running
      <4> QED  BY <2>1, <2>3, <3>5, <4>1, <4>2, OutEffects DEF Made, Running
    <3>6. CASE Made
      <4>1. vptr # "none"
        BY <3>6
      <4>2. ASSUME NEW u \in Enders, cpc[u] = "out", vat'[u] = "idle" PROVE vptr' = "nil"
        <5>1. CASE u = t
          <6>1. vat[t] \in InOut
            BY <3>1, <4>2, <5>1 DEF OutCalls, Enders, CloseInv
          <6> QED  BY <2>3, <4>2, <5>1, <6>1, OutEffects
        <5>2. CASE u # t
          BY <3>1, <3>3, <4>2, <5>2 DEF Enders
        <5> QED  BY <5>1, <5>2
      <4>3. once = "done" => vptr' = "nil"
        BY <3>3
      <4> QED  BY <2>1, <3>3, <3>6, <4>1, <4>2, <4>3 DEF Made, Running, VP!Inv, VP!VirtualTypeOK
    <3> QED  BY <3>2, <3>4, <3>5, <3>6 DEF Made, Running, ControlTypeOK
  <2> QED  BY <1>3, <2>2, <2>3, SameProceed DEF CallProceeds, OnSource
<1>4. CASE MainGoesOn
  <2>1. UNCHANGED <<once, cpc>> /\ cpc[Main] = "no"
    BY <1>4, MainMoves DEF CloseInv, Enders
  <2>2. CASE CreateOutput
    <3>1. VP!CreateOpen(Main) /\ rpc = "query" /\ rpc' = "create"
      BY <2>2, SameCall DEF CreateOutput, Goto
    <3>2. vptr = "none" /\ once = "free" /\ \A u \in Enders : cpc[u] = "no"
      BY <3>1 DEF VP!Inv, VP!CreateInv, CloseInv, Made, Running
    <3> QED  BY <2>1, <3>1, <3>2, OutBegins DEF Made, Running
  <2>3. CASE GrabFails
    <3>1. VP!CloseOut(Main) /\ rpc = "grab" /\ rpc' = "undo"
      BY <2>3, SameCall DEF GrabFails, Goto
    <3>2. once = "free" /\ \A u \in Enders : cpc[u] = "no"
      BY <3>1 DEF CloseInv, Made, Running
    <3> QED  BY <2>1, <3>1, <3>2, OutBegins DEF Made, Running
  <2>4. CASE Put
    <3>1. VP!WriteBegin(Main, Head(todo)) /\ rpc' = "put" /\ Made
      BY <2>4, SameCall DEF Put, Between, Made, Running
    <3> QED  BY <2>1, <3>1, OutBegins DEF Made, Running, Enders
  <2>5. CASE ~CreateOutput /\ ~GrabFails /\ ~Put
    <3>1. UNCHANGED outVars
      BY <1>4, <2>5 DEF MainGoesOn, Query, QueryFails, CreateFails, GrabSource, Grabbed, Undone, Read,
                    Map, ReadFails, PutFails, OnNeither, OnSource
    <3>2. CASE rpc' = rpc
      BY <1>1, <2>1, <3>1, <3>2
    <3>3. CASE Made' /\ Made
      BY <2>1, <3>1, <3>3 DEF outVars, Made, Running
    <3>4. CASE QueryFails
      BY <2>1, <3>1, <3>4 DEF QueryFails, Goto, outVars, VP!Inv, VP!CreateInv, Made, Running
    <3>5. CASE CreateFails
      <4>1. vret[Main] = "ErrCreate" /\ vptr = "none" /\ rpc' = "failed"
        BY <3>5 DEF CreateFails, Goto, OutGave
      <4>2. vfile \in {"none", "closed"} /\ kdev # "live"
        BY <4>1 DEF VP!Inv, VP!FailedInv, VP!CreateInv
      <4>3. \A u \in Enders : cpc[u] = "no" /\ once = "free"
        BY <3>5 DEF CreateFails, Goto, CloseInv, Made, Running
      <4> QED  BY <2>1, <3>1, <4>1, <4>2, <4>3 DEF outVars, Made, Running, Enders
    <3>6. CASE GrabSource
      BY <2>1, <3>1, <3>6 DEF GrabSource, Goto, OutGave, outVars, Made, Running
    <3>7. CASE Grabbed
      BY <2>1, <3>1, <3>7 DEF Grabbed, Goto, outVars, Made, Running
    <3>8. CASE Undone
      <4>1. vfile = "closed" /\ rpc = "undo" /\ rpc' = "failed"
        BY <3>8 DEF Undone, Goto, OutGave
      <4>2. kdev = "gone"
        BY <4>1 DEF VP!Inv, VP!GoneInv
      <4> QED  BY <2>1, <3>1, <4>1, <4>2 DEF outVars, Made, Running
    <3>9. Query => rpc' = rpc
      BY DEF Query, Goto
    <3>10. Read \/ Map \/ ReadFails \/ PutFails => Made /\ Made'
      BY DEF Read, Map, ReadFails, PutFails, Goto, Between, Made, Running
    <3> QED  BY <1>4, <2>5, <3>2, <3>3, <3>4, <3>5, <3>6, <3>7, <3>8, <3>9, <3>10 DEF MainGoesOn
  <2> QED  BY <2>2, <2>3, <2>4, <2>5
<1>5. ASSUME NEW t \in Enders, CloseUngrab(t) \/ CloseGoesOn(t) PROVE OutInv'
  <2> USE DEF Enders, ControlTypeOK, Closing
  <2>1. UNCHANGED rpc /\ Made
    BY <1>5 DEF CloseUngrab, CloseGoesOn, CloseJoin, CloseOutput, CloseDone, CloseSource, MayClose,
                CloseInv, Made, Running
  <2>2. CASE CloseOutput(t)
    <3>1. VP!CloseOut(t) /\ cpc' = [cpc EXCEPT ![t] = "out"] /\ once' = once
      BY <2>2, SameCall DEF CloseOutput
    <3> QED  BY <2>1, <3>1, OutBegins DEF Made, Running
  <2>3. CASE CloseUngrab(t) \/ CloseJoin(t) \/ CloseDone(t) \/ CloseSource(t)
    <3>1. UNCHANGED outVars
      BY <2>3 DEF CloseUngrab, CloseJoin, CloseDone, CloseSource, OnNeither, OnSource
    <3>2. \A u \in Enders : cpc'[u] = "out" => cpc[u] = "out"
      BY <2>3 DEF CloseUngrab, CloseJoin, CloseDone, CloseSource
    <3>3. once' = "done" => vptr = "nil"
      BY <2>3 DEF CloseUngrab, CloseJoin, CloseDone, CloseSource
    <3> QED  BY <2>1, <3>1, <3>2, <3>3 DEF outVars, Made, Running
  <2> QED  BY <1>5, <2>2, <2>3 DEF CloseGoesOn
<1>6. CASE MacroWrites
  <2>1. VP!WriteBegin(Macro, Batch[mpos + 1]) /\ UNCHANGED <<rpc, cpc, once>> /\ Made
    BY <1>6, SameCall DEF MacroWrites
  <2> QED  BY <2>1, OutBegins DEF Made, Running, Enders
<1> QED  BY <1>2, <1>3, <1>4, <1>5, <1>6 DEF Work, Enders
-----------------------------------------------------------------------------
(* The invariant, and what follows from it.                                *)

LEMMA RemapInvInit == RemapInit => RemapInv
<1> SUFFICES ASSUME RemapInit PROVE RemapInv
  OBVIOUS
<1> USE Names3, DeviceAssumption DEF RemapInit, DeviceOpened
<1>1. Inv
  BY DEF Inv, DeviceTypeOK, Held, DescriptorHeld, GrabHeld, PollerKept, ReturnedClosed, Holding
<1>2. VP!Inv
  <2>1. VP!VirtualInit
    BY DEF Out!VirtualInit, VP!VirtualInit, Out!Marker, VP!Marker
  <2> QED  BY <2>1, OutAssumed, VP!InvInit
<1>3. ControlTypeOK
  BY ToWriteHas DEF ControlTypeOK, Enders, Queries
<1>4. CloseInv
  BY DEF CloseInv, Enders, Made, Running
<1>5. SrcCalls
  BY DEF SrcCalls
<1>6. SrcEvents
  <2>1. <<>> \in Seq(Known)
    OBVIOUS
  <2> QED  BY <2>1 DEF SrcEvents
<1>7. GrabInv
  BY DEF GrabInv, Enders, Made, Running
<1>8. OutCalls /\ OutInv
  BY DEF OutCalls, OutInv, Enders, Made, Running, Out!VirtualInit
<1> QED  BY <1>1, <1>2, <1>3, <1>4, <1>5, <1>6, <1>7, <1>8 DEF RemapInv

\* The end of the process moves nothing, and nothing moves after it.
LEMMA WorkOnly == [RemapNext]_allVars => [Work]_workVars
BY DEF RemapNext, Alive, Exit, allVars

LEMMA RemapInvariance == RemapSafety => []RemapInv
<1>1. RemapInv /\ [RemapNext]_allVars => RemapInv'
  BY WorkOnly, DevicesKeep, ControlStep, CloseStep, SrcCallsStep, SrcEventsStep, GrabStep, OutCallsStep,
     OutInvStep DEF RemapInv
<1> QED  BY <1>1, RemapInvInit, PTL DEF RemapSafety

EndedTypeOK == ended \in BOOLEAN

\* Everything stays within its type: both devices, and where the program is.
THEOREM RemapTypeCorrect == RemapSafety => []RemapTypeOK
<1>1. RemapInv /\ EndedTypeOK => RemapTypeOK
  <2> SUFFICES ASSUME RemapInv, EndedTypeOK PROVE RemapTypeOK
    OBVIOUS
  <2>1. Out!VirtualTypeOK <=> VP!VirtualTypeOK
    BY DEF Out!VirtualTypeOK, VP!VirtualTypeOK, Out!Required, VP!Required, Out!EventTypes,
           VP!EventTypes, Out!CodeTypes, VP!CodeTypes, Out!Marker, VP!Marker
  <2> QED  BY <2>1 DEF RemapInv, Inv, VP!Inv, ControlTypeOK, Enders, EndedTypeOK, RemapTypeOK
<1>2. RemapSafety => []EndedTypeOK
  <2>1. RemapInit => EndedTypeOK
    BY DEF RemapInit, EndedTypeOK
  <2>2. EndedTypeOK /\ [RemapNext]_allVars => EndedTypeOK'
    BY DEF RemapNext, Alive, Exit, allVars, EndedTypeOK
  <2> QED  BY <2>1, <2>2, PTL DEF RemapSafety
<1> QED  BY <1>1, <1>2, RemapInvariance, PTL

\* A file that is closed stays so, and the close of the source closes it.
LEMMA SourceStaysClosed ==
  ASSUME RemapInv, [Work]_workVars
  PROVE  /\ file[Src] # "open" => file'[Src] # "open"
         /\ \A t \in Enders : CloseSource(t) => file'[Src] # "open"
<1> USE Names3 DEF RemapInv, Inv, DeviceTypeOK
<1>1. ASSUME NEW f \in Files, NEW s \in {"closing", "closed"}, file' = [file EXCEPT ![f] = s]
      PROVE  file[Src] # "open" => file'[Src] # "open"
  BY <1>1
<1>2. ASSUME NEW t \in Threads, Proceed(t) PROVE file[Src] # "open" => file'[Src] # "open"
  <2>1. on[t] \in Files
    OBVIOUS
  <2>2. UNCHANGED file \/ file' = [file EXCEPT ![on[t]] = "closed"]
    BY <1>2 DEF Proceed, ReadLock, ReadRefused, ReadTakes, ReadEnds, ReadBlocks, ReadWakes, ReadEvicted,
                Ioctl, IoctlGrab, IoctlUngrab, CloseWaited, Leave, fileVars
  <2> QED  BY <1>1, <2>1, <2>2
<1>3. ASSUME NEW t \in Threads, Close(t, Src) PROVE file'[Src] # "open"
  BY <1>3 DEF Close, CloseIdle, CloseBusy, ControlRefused, fileVars
<1>4. ASSUME NEW t \in Threads, NEW op \in Ioctls, IoctlCall(t, op) PROVE UNCHANGED file
  BY <1>4 DEF IoctlCall, Control, ControlRefused, fileVars
<1>5. \A t \in Enders : CloseSource(t) => file'[Src] # "open"
  BY <1>3, RemapperAssumption DEF CloseSource, Enders
<1>6. ASSUME World \/ MacroWrites \/ UNCHANGED workVars PROVE file[Src] # "open" => file'[Src] # "open"
  BY <1>6 DEF World, Emit, Unplug, MacroWrites, OnOutput, workVars, deviceVars, fileVars
<1>7. ASSUME NEW t \in Threads, CallProceeds(t) PROVE file[Src] # "open" => file'[Src] # "open"
  BY <1>2, <1>7 DEF CallProceeds, OnOutput, deviceVars, fileVars
<1>8. ASSUME MainGoesOn PROVE file[Src] # "open" => file'[Src] # "open"
  <2>1. CASE Query \/ GrabSource
    BY <1>4, <2>1, RemapperAssumption DEF Query, GrabSource, Ioctls
  <2>2. CASE ~Query /\ ~GrabSource
    BY <1>8, <2>2 DEF MainGoesOn, QueryFails, CreateOutput, CreateFails, Grabbed, GrabFails, Undone, Read,
              ReadOne, ReadOf, Map, ReadFails, Put, PutFails, OnNeither, OnOutput, deviceVars, fileVars
  <2> QED  BY <2>1, <2>2
<1>9. ASSUME NEW t \in Enders, CloseUngrab(t) \/ CloseGoesOn(t)
      PROVE  file[Src] # "open" => file'[Src] # "open"
  <2>1. CASE CloseUngrab(t)
    BY <1>4, <2>1, RemapperAssumption DEF CloseUngrab, Ioctls, Enders
  <2>2. CASE CloseSource(t)
    BY <1>5, <2>2
  <2>3. CASE CloseJoin(t) \/ CloseOutput(t) \/ CloseDone(t)
    BY <2>3 DEF CloseJoin, CloseOutput, CloseDone, OnNeither, OnOutput, deviceVars, fileVars
  <2> QED  BY <1>9, <2>1, <2>2, <2>3 DEF CloseGoesOn
<1> QED  BY <1>5, <1>6, <1>7, <1>8, <1>9 DEF Work, Enders

\* What Main has closed is closed, and it leaves main by one of three ways only.
EndInv ==
  /\ cpc[Main] = "gone" => file[Src] # "open"
  /\ ended => rpc \in {"failed", "error"} \/ cpc[Main] = "gone"

\* The process that ends when Run has returned nil has made both of main's deferred
\* closes, whatever Ctl was doing (examples/remap/main.go:36, 43, 57-61).
THEOREM EndIsClosed == RemapSafety => []EndsClosed
<1>1. RemapInv /\ EndInv => EndsClosed
  BY DEF RemapInv, CloseInv, Enders, EndInv, EndsClosed
<1>2. RemapInit => EndInv
  BY RemapperAssumption DEF RemapInit, EndInv
<1>3. RemapInv /\ EndInv /\ [RemapNext]_allVars => EndInv'
  <2> SUFFICES ASSUME RemapInv, EndInv, [RemapNext]_allVars PROVE EndInv'
    OBVIOUS
  <2>1. CASE Exit
    BY <2>1 DEF Exit, EndInv, workVars, deviceVars, fileVars, remapVars
  <2>2. CASE UNCHANGED allVars
    BY <2>2 DEF allVars, EndInv, workVars, deviceVars, fileVars, remapVars
  <2>3. CASE Alive /\ Work
    <3>1. ~ended'
      BY <2>3 DEF Alive
    <3>2. cpc'[Main] = "gone" => cpc[Main] = "gone" \/ CloseSource(Main)
      <4>1. MainGoesOn => UNCHANGED cpc
        BY MainMoves
      <4> QED  BY <2>3, <4>1, RemapperAssumption
              DEF RemapInv, ControlTypeOK, Work, World, CallProceeds, MacroWrites, CloseUngrab, CloseGoesOn,
                  CloseJoin, CloseOutput, CloseDone, CloseSource, Closing, Enders, remapVars
    <3> QED  BY <2>3, <3>1, <3>2, SourceStaysClosed DEF EndInv, Enders
  <2> QED  BY <2>1, <2>2, <2>3 DEF RemapNext
<1> QED  BY <1>1, <1>2, <1>3, RemapInvariance, PTL DEF RemapSafety

\* From the return of NewRemapper to the first Close the source is grabbed
\* (remapper.go:60-63).
THEOREM GrabbedUntilClose == RemapSafety => []GrabbedWhileOpen
<1>1. RemapInv => GrabbedWhileOpen
  BY DEF RemapInv, GrabInv, GrabbedWhileOpen
<1> QED  BY <1>1, RemapInvariance, PTL

\* A NewRemapper that fails, at whichever of its calls, leaves nothing behind
\* (remapper.go:83-90).
THEOREM FailuresLeaveNothing == RemapSafety => []FailureUndone
<1>1. RemapInv => FailureUndone
  BY DEF RemapInv, GrabInv, OutInv, FailureUndone
<1> QED  BY <1>1, RemapInvariance, PTL

\* Whoever returns from Close finds the device destroyed and the grab released,
\* however many close at once (remapper.go:127-136).
THEOREM TeardownIsComplete == RemapSafety => []TeardownComplete
<1>1. RemapInv => TeardownComplete
  <2> SUFFICES ASSUME RemapInv, NEW t \in Enders, cpc[t] \in {"over", "gone"}
               PROVE  kdev = "gone" /\ Freed
    BY DEF TeardownComplete, Freed, Enders
  <2>1. once = "done"
    BY DEF RemapInv, CloseInv
  <2>2. Freed /\ vptr = "nil"
    BY <2>1 DEF RemapInv, GrabInv, OutInv
  <2> QED  BY <2>2 DEF RemapInv, VP!Inv, VP!GoneInv
<1> QED  BY <1>1, RemapInvariance, PTL

\* After Close nothing is injected, though Run and Macro may be in a Write.
THEOREM QuietAfterTeardown == RemapSafety => NothingAfterClose
<1>1. RemapInv /\ [RemapNext]_allVars => [once = "done" => UNCHANGED injected]_allVars
  <2> SUFFICES ASSUME RemapInv, [Work]_workVars, once = "done" PROVE UNCHANGED injected
    BY WorkOnly
  <2>1. kdev = "gone"
    BY DEF RemapInv, OutInv, VP!Inv, VP!GoneInv
  <2>2. [VP!VirtualNext]_(VP!virtualVars)
    BY OutputSteps DEF RemapInv
  <2>3. ASSUME NEW t \in Threads, VP!VProceed(t) PROVE UNCHANGED injected
    BY <2>1, <2>3 DEF VP!VProceed, VP!Enable, VP!Setup, VP!Create, VP!CreateDone, VP!GiveUp,
         VP!WriteLock, VP!WriteDone, VP!CloseFd, VP!Destroy, VP!CloseFile, VP!SetNil
  <2>4. CASE UNCHANGED VP!virtualVars
    BY <2>4 DEF VP!virtualVars
  <2>5. CASE VP!VirtualNext
    BY <2>3, <2>5 DEF VP!VirtualNext, VP!CreateOpen, VP!WriteBegin, VP!CloseOut, VP!CloseAgain,
         VP!CloseBegin
  <2> QED  BY <2>2, <2>4, <2>5
<1> QED  BY <1>1, RemapInvariance, PTL DEF RemapSafety, NothingAfterClose
-----------------------------------------------------------------------------
(* The stream.  While the source's queue does not overflow, what is in the *)
(* queue, in Run and in its Write is what is missing of the events between *)
(* those that came out and those that were made.                           *)

\* MapFunc uses keys that the source has or WithExtraKeys adds (remapper.go:47-49).
MapsToCaps == \A n \in 1..MaxFrames : MapFn[n] \in Seq(Caps["EV_KEY"])

\* A frame is made only when the source's queue has room for it.
NoOverflow == [][frames' # frames => Len(queue[Src]) + 2 <= EvLimit]_allVars

\* What the output then gets of the source, and the kernel takes.
Wanted == [type : {"EV_KEY"}, code : Caps["EV_KEY"], frame : Nat \ {0}]
          \cup [type : {"EV_SYN"}, code : {"SYN_REPORT"}, frame : Nat \ {0}]

\* The place of an event among all that are made.
Rank(e) == IF e.kind = "KEY" THEN 2 * e.frame - 1 ELSE 2 * e.frame

\* What the first r events become.
Came(s, r) ==
  \E n \in 0..MaxFrames :
    \/ r = 2 * n /\ s = Stream!Whole[n]
    \/ r = 2 * n + 1 /\ n < MaxFrames /\ s = Stream!Whole[n] \o Stream!Mapped(n + 1)

\* a is the beginning of b.
Begins(a, b) == Len(a) <= Len(b) /\ \A i \in 1..Len(a) : a[i] = b[i]

Gets == file[Src] # "closed" /\ grab \in {None, Src}

\* Run is over, or about to be since a write has failed.
Dead == rpc \in {"eof", "error"} \/ (rpc = "put" /\ vat[Main] = "idle" /\ vret[Main] # "ok")

\* What Run has taken and has not written.
Writing == IF vat[Main] \in InWrite THEN <<vev[Main]>> ELSE <<>>
Flight ==
  IF rpc = "read" THEN IF SrcGave(Main, "ok") THEN Emitted(Head(got[Main])) ELSE <<>>
                  ELSE Writing \o todo

CameOut == FromSource(injected)

\* q follows on the first r events.
Follows(q, r) == \A i \in 1..Len(q) : q[i] # Dropped /\ Rank(q[i]) = r + i

StreamInv ==
  \E m \in 0..frames, r \in Nat :
    /\ r + Len(queue[Src]) = 2 * m
    /\ Gets => m = frames
    /\ Follows(queue[Src], r)
    /\ IF Dead THEN Begins(CameOut, Stream!Whole[frames]) ELSE Came(CameOut \o Flight, r)

\* Run reads one event at a time, and only Macro writes what is not of the source.
ClientInv ==
  /\ size[Main] = 1
  /\ vat[Macro] \in InWrite => vev[Macro].frame = 0

StreamAll == RemapInv /\ ClientInv /\ StreamInv
-----------------------------------------------------------------------------
(* FromSource, of an empty and of a longer sequence.                       *)

\* The recursion that defines it has a solution, and only one.
Filters(f, s, m) ==
  f = [n \in 0..m |-> IF n = 0 THEN <<>>
        ELSE IF s[n].frame # 0 THEN Append(f[n - 1], s[n]) ELSE f[n - 1]]

LEMMA FilterExists == ASSUME NEW s PROVE \A m \in Nat : \E f : Filters(f, s, m)
<1> DEFINE S == {m \in Nat : \E f : Filters(f, s, m)}
<1>1. 0 \in S
  <2>1. Filters([n \in 0..0 |-> <<>>], s, 0)
    BY DEF Filters
  <2> QED  BY <2>1
<1>2. ASSUME NEW m \in S PROVE m + 1 \in S
  <2>1. PICK f : Filters(f, s, m)
    OBVIOUS
  <2> DEFINE g == [n \in 0..(m + 1) |->
                     IF n = 0 THEN <<>>
                     ELSE IF s[n].frame # 0 THEN Append(f[n - 1], s[n]) ELSE f[n - 1]]
  <2>2. m \in Nat
    OBVIOUS
  <2>3. \A n \in 0..m : g[n] = f[n]
    <3>1. \A n \in 0..m : f[n] = IF n = 0 THEN <<>>
                     ELSE IF s[n].frame # 0 THEN Append(f[n - 1], s[n]) ELSE f[n - 1]
      BY <2>1 DEF Filters
    <3>2. 0..m \subseteq 0..(m + 1)
      BY <2>2
    <3> QED  BY <3>1, <3>2
  <2>4. \A n \in 0..(m + 1) : n # 0 => n - 1 \in 0..m
    OBVIOUS
  <2>5. Filters(g, s, m + 1)
    BY <2>3, <2>4 DEF Filters
  <2> HIDE DEF g
  <2> QED  BY <2>5
<1> HIDE DEF S
<1>3. Nat \subseteq S
  BY <1>1, <1>2, SetInduction
<1> QED  BY <1>3 DEF S

\* Two that filter sequences that agree, agree.
LEMMA FilterSame ==
  ASSUME NEW s, NEW u, NEW m \in Nat, NEW k \in Nat, m <= k, NEW f, NEW g,
         \A i \in 1..m : s[i] = u[i], Filters(f, s, m), Filters(g, u, k)
  PROVE  f[m] = g[m]
<1> DEFINE S == {n \in Nat : n <= m => f[n] = g[n]}
<1>0. /\ \A n \in 0..m : f[n] = IF n = 0 THEN <<>>
                     ELSE IF s[n].frame # 0 THEN Append(f[n - 1], s[n]) ELSE f[n - 1]
      /\ \A n \in 0..k : g[n] = IF n = 0 THEN <<>>
                     ELSE IF u[n].frame # 0 THEN Append(g[n - 1], u[n]) ELSE g[n - 1]
  BY DEF Filters
<1>1. 0 \in S
  BY <1>0
<1>2. ASSUME NEW n \in S, n \in Nat PROVE n + 1 \in S
  <2> SUFFICES ASSUME n + 1 <= m PROVE f[n + 1] = g[n + 1]
    BY <1>2
  <2>1. n + 1 \in 0..m /\ n + 1 \in 0..k /\ n + 1 \in 1..m /\ n + 1 # 0 /\ (n + 1) - 1 = n /\ n <= m
    BY <1>2
  <2>2. f[n] = g[n] /\ s[n + 1] = u[n + 1]
    BY <2>1
  <2> QED  BY <1>0, <2>1, <2>2
<1> HIDE DEF S
<1>3. Nat \subseteq S
  BY <1>1, <1>2, SetInduction
<1> QED  BY <1>3 DEF S

LEMMA FromSourceIs ==
  ASSUME NEW E, NEW s \in Seq(E)
  PROVE  \E f : Filters(f, s, Len(s)) /\ FromSource(s) = f[Len(s)]
<1>1. Len(s) \in Nat
  BY LenProperties
<1>2. PICK f : Filters(f, s, Len(s))
  BY <1>1, FilterExists
<1>3. Filters(CHOOSE g : Filters(g, s, Len(s)), s, Len(s))
  BY <1>2
<1> QED  BY <1>3 DEF FromSource, Filters

LEMMA FromSourceAppend ==
  ASSUME NEW E, NEW s \in Seq(E), NEW e \in E
  PROVE  FromSource(Append(s, e)) = IF e.frame # 0 THEN Append(FromSource(s), e) ELSE FromSource(s)
<1> DEFINE u == Append(s, e)
<1>1. /\ u \in Seq(E) /\ Len(u) = Len(s) + 1 /\ u[Len(u)] = e
      /\ \A i \in 1..Len(s) : s[i] = u[i]
  BY AppendProperties
<1>2. Len(s) \in Nat
  BY LenProperties
<1> HIDE DEF u
<1>3. PICK f : Filters(f, s, Len(s)) /\ FromSource(s) = f[Len(s)]
  BY FromSourceIs
<1>4. PICK g : Filters(g, u, Len(u)) /\ FromSource(u) = g[Len(u)]
  BY <1>1, FromSourceIs
<1>5. f[Len(s)] = g[Len(s)]
  BY <1>1, <1>2, <1>3, <1>4, FilterSame
<1>6. Len(u) \in 0..Len(u) /\ Len(u) # 0 /\ Len(u) - 1 = Len(s)
  BY <1>1, <1>2
<1>7. g[Len(u)] = IF u[Len(u)].frame # 0 THEN Append(g[Len(u) - 1], u[Len(u)]) ELSE g[Len(u) - 1]
  BY <1>4, <1>6 DEF Filters
<1>8. FromSource(u) = IF e.frame # 0 THEN Append(FromSource(s), e) ELSE FromSource(s)
  BY <1>1, <1>3, <1>4, <1>5, <1>6, <1>7
<1> QED  BY <1>8 DEF u

LEMMA FromSourceEmpty == FromSource(<<>>) = <<>>
<1>1. <<>> \in Seq({}) /\ Len(<<>>) = 0
  OBVIOUS
<1>2. PICK f : Filters(f, <<>>, 0) /\ FromSource(<<>>) = f[0]
  BY <1>1, FromSourceIs
<1> QED  BY <1>2 DEF Filters

LEMMA FromSourceType ==
  ASSUME NEW E, NEW s \in Seq(E)
  PROVE  FromSource(s) \in Seq(E)
<1>1. Len(s) \in Nat /\ \A i \in 1..Len(s) : s[i] \in E
  BY LenProperties, ElementOfSeq
<1>2. PICK f : Filters(f, s, Len(s)) /\ FromSource(s) = f[Len(s)]
  BY FromSourceIs
<1>3. \A n \in 0..Len(s) : f[n] = IF n = 0 THEN <<>>
                     ELSE IF s[n].frame # 0 THEN Append(f[n - 1], s[n]) ELSE f[n - 1]
  BY <1>2 DEF Filters
<1> DEFINE S == {n \in Nat : n <= Len(s) => f[n] \in Seq(E)}
<1>4. 0 \in S
  <2>1. <<>> \in Seq(E)
    OBVIOUS
  <2>2. f[0] = <<>>
    BY <1>1, <1>3
  <2> QED  BY <2>1, <2>2
<1>5. ASSUME NEW n \in S, n \in Nat PROVE n + 1 \in S
  <2> SUFFICES ASSUME n + 1 <= Len(s) PROVE f[n + 1] \in Seq(E)
    BY <1>5
  <2>1. n + 1 \in 0..Len(s) /\ n + 1 \in 1..Len(s) /\ n + 1 # 0 /\ (n + 1) - 1 = n /\ n <= Len(s)
    BY <1>1, <1>5
  <2>2. f[n] \in Seq(E) /\ s[n + 1] \in E
    BY <1>1, <2>1
  <2>3. Append(f[n], s[n + 1]) \in Seq(E)
    BY <2>2
  <2> QED  BY <1>3, <2>1, <2>2, <2>3
<1> HIDE DEF S
<1>6. Nat \subseteq S
  BY <1>4, <1>5, SetInduction
<1> QED  BY <1>1, <1>2, <1>6 DEF S
-----------------------------------------------------------------------------
(* How the stream of Whole grows.                                          *)

LEMMA WantedType ==
  ASSUME MapsToCaps, NEW n \in 1..MaxFrames
  PROVE  Stream!Mapped(n) \in Seq(Wanted) /\ Stream!FrameEnd(n) \in Wanted
<1>1. n \in Nat \ {0}
  BY DeviceAssumption
<1> DEFINE C == Caps["EV_KEY"]
<1>2. MapFn[n] \in Seq(C)
  BY DEF MapsToCaps
<1> HIDE DEF C
<1>3. /\ Len(MapFn[n]) \in Nat /\ DOMAIN MapFn[n] = 1..Len(MapFn[n])
      /\ \A j \in 1..Len(MapFn[n]) : MapFn[n][j] \in C
  BY <1>2, LenProperties, ElementOfSeq
<1>4. \A j \in 1..Len(MapFn[n]) : Stream!Key(n, MapFn[n][j]) \in Wanted
  BY <1>1, <1>3 DEF Stream!Key, Wanted, C
<1>5. Stream!Mapped(n) \in [1..Len(MapFn[n]) -> Wanted]
  BY <1>3, <1>4 DEF Stream!Mapped
<1>6. Stream!Mapped(n) \in Seq(Wanted)
  BY <1>3, <1>5, SeqDef
<1>7. Stream!FrameEnd(n) \in Wanted
  BY <1>1 DEF Stream!FrameEnd, Wanted
<1> QED  BY <1>6, <1>7

LEMMA WholeWanted ==
  ASSUME MapsToCaps
  PROVE  \A n \in 0..MaxFrames : Stream!Whole[n] \in Seq(Wanted)
<1> DEFINE S == {n \in Nat : n \in 0..MaxFrames => Stream!Whole[n] \in Seq(Wanted)}
<1>0. MaxFrames \in Nat
  BY DeviceAssumption
<1>1. 0 \in S
  <2>1. <<>> \in Seq(Wanted)
    OBVIOUS
  <2> QED  BY <2>1, WholeUnfold
<1>2. ASSUME NEW n \in S, n \in Nat PROVE n + 1 \in S
  <2> SUFFICES ASSUME n + 1 \in 0..MaxFrames PROVE Stream!Whole[n + 1] \in Seq(Wanted)
    BY <1>2
  <2>1. n \in 0..MaxFrames /\ n + 1 \in 1..MaxFrames /\ (n + 1) - 1 = n
    BY <1>0, <1>2
  <2>2. Stream!Whole[n] \in Seq(Wanted)
    BY <2>1
  <2>3. Stream!Mapped(n + 1) \in Seq(Wanted) /\ Stream!FrameEnd(n + 1) \in Wanted
    BY <2>1, WantedType
  <2>4. Stream!Whole[n + 1] = Stream!Whole[n] \o Stream!Mapped(n + 1) \o <<Stream!FrameEnd(n + 1)>>
    BY <2>1, WholeUnfold
  <2> HIDE DEF S
  <2>5. <<Stream!FrameEnd(n + 1)>> \in Seq(Wanted)
    BY <2>3
  <2> QED  BY <2>2, <2>3, <2>4, <2>5, ConcatProperties
<1> HIDE DEF S
<1>3. Nat \subseteq S
  BY <1>1, <1>2, SetInduction
<1> QED  BY <1>0, <1>3 DEF S

\* A sequence begins what it is continued to, and what that begins.
LEMMA BeginsConcat ==
  ASSUME NEW E, NEW a \in Seq(E), NEW b \in Seq(E)
  PROVE  Begins(a, a \o b)
<1>1. Len(a) \in Nat /\ Len(b) \in Nat
  BY LenProperties
<1> QED  BY <1>1, ConcatProperties DEF Begins

LEMMA BeginsThrough ==
  ASSUME NEW a, NEW b, NEW c, Len(a) \in Nat, Len(b) \in Nat, Len(c) \in Nat,
         Begins(a, b), Begins(b, c)
  PROVE  Begins(a, c)
BY DEF Begins

\* One frame more.
LEMMA WholeNext ==
  ASSUME NEW n \in 1..MaxFrames
  PROVE  /\ Stream!Whole[n - 1] \in Seq(OutEvent) /\ Stream!Whole[n] \in Seq(OutEvent)
         /\ Stream!Mapped(n) \in Seq(OutEvent) /\ <<Stream!FrameEnd(n)>> \in Seq(OutEvent)
         /\ Stream!Whole[n - 1] \o Stream!Mapped(n) \in Seq(OutEvent)
         /\ Stream!Whole[n] = (Stream!Whole[n - 1] \o Stream!Mapped(n)) \o <<Stream!FrameEnd(n)>>
         /\ Begins(Stream!Whole[n - 1], Stream!Whole[n - 1] \o Stream!Mapped(n))
         /\ Begins(Stream!Whole[n - 1] \o Stream!Mapped(n), Stream!Whole[n])
         /\ Begins(Stream!Whole[n - 1], Stream!Whole[n])
<1>1. n - 1 \in 0..MaxFrames /\ n \in 0..MaxFrames
  BY DeviceAssumption
<1>2. Stream!Whole[n - 1] \in Seq(OutEvent) /\ Stream!Whole[n] \in Seq(OutEvent)
  BY <1>1, WholeType
<1>3. Stream!Mapped(n) \in Seq(OutEvent) /\ Stream!FrameEnd(n) \in OutEvent
  BY FrameType
<1> HIDE DEF OutEvent
<1>4. <<Stream!FrameEnd(n)>> \in Seq(OutEvent)
  BY <1>3
<1>5. Stream!Whole[n - 1] \o Stream!Mapped(n) \in Seq(OutEvent)
  BY <1>2, <1>3, ConcatProperties
<1>6. Stream!Whole[n] = (Stream!Whole[n - 1] \o Stream!Mapped(n)) \o <<Stream!FrameEnd(n)>>
  BY WholeUnfold
<1>7. /\ Begins(Stream!Whole[n - 1], Stream!Whole[n - 1] \o Stream!Mapped(n))
      /\ Begins(Stream!Whole[n - 1] \o Stream!Mapped(n), Stream!Whole[n])
  BY <1>2, <1>3, <1>4, <1>5, <1>6, BeginsConcat
<1>8. /\ Len(Stream!Whole[n - 1]) \in Nat /\ Len(Stream!Whole[n]) \in Nat
      /\ Len(Stream!Whole[n - 1] \o Stream!Mapped(n)) \in Nat
  BY <1>2, <1>5, LenProperties
<1> QED  BY <1>2, <1>3, <1>4, <1>5, <1>6, <1>7, <1>8, BeginsThrough

LEMMA WholeBegins ==
  ASSUME NEW k \in 0..MaxFrames, NEW n \in 0..k
  PROVE  Begins(Stream!Whole[n], Stream!Whole[k])
<1> DEFINE S == {j \in Nat : n + j \in 0..MaxFrames => Begins(Stream!Whole[n], Stream!Whole[n + j])}
<1>0. MaxFrames \in Nat /\ n \in Nat /\ k \in Nat /\ n \in 0..MaxFrames
  BY DeviceAssumption
<1>1. 0 \in S
  <2>1. Stream!Whole[n] \in Seq(OutEvent)
    BY <1>0, WholeType
  <2>2. Len(Stream!Whole[n]) \in Nat
    BY <2>1, LenProperties
  <2> QED  BY <1>0, <2>2 DEF Begins
<1>2. ASSUME NEW j \in S, j \in Nat PROVE j + 1 \in S
  <2> SUFFICES ASSUME n + (j + 1) \in 0..MaxFrames
               PROVE  Begins(Stream!Whole[n], Stream!Whole[n + (j + 1)])
    BY <1>2
  <2>1. n + j \in 0..MaxFrames /\ n + (j + 1) \in 1..MaxFrames /\ (n + (j + 1)) - 1 = n + j
    BY <1>0, <1>2
  <2>2. Begins(Stream!Whole[n], Stream!Whole[n + j])
    BY <2>1
  <2>3. Begins(Stream!Whole[n + j], Stream!Whole[n + (j + 1)])
    BY <2>1, WholeNext
  <2>4. /\ Stream!Whole[n] \in Seq(OutEvent) /\ Stream!Whole[n + j] \in Seq(OutEvent)
        /\ Stream!Whole[n + (j + 1)] \in Seq(OutEvent)
    BY <1>0, <2>1, WholeType
  <2>5. /\ Len(Stream!Whole[n]) \in Nat /\ Len(Stream!Whole[n + j]) \in Nat
        /\ Len(Stream!Whole[n + (j + 1)]) \in Nat
    BY <2>4, LenProperties
  <2> QED  BY <2>2, <2>3, <2>5, BeginsThrough
<1> HIDE DEF S
<1>3. Nat \subseteq S
  BY <1>1, <1>2, SetInduction
<1>4. k - n \in Nat /\ n + (k - n) = k
  BY <1>0
<1> QED  BY <1>3, <1>4 DEF S

\* What the first r events become begins what all of them do.
LEMMA CameBegins ==
  ASSUME NEW k \in 0..MaxFrames, NEW r \in Nat, r <= 2 * k, NEW s, Came(s, r)
  PROVE  Begins(s, Stream!Whole[k]) /\ s \in Seq(OutEvent)
<1>0. MaxFrames \in Nat /\ k \in Nat
  BY DeviceAssumption
<1>1. PICK n \in 0..MaxFrames :
        \/ r = 2 * n /\ s = Stream!Whole[n]
        \/ r = 2 * n + 1 /\ n < MaxFrames /\ s = Stream!Whole[n] \o Stream!Mapped(n + 1)
  BY DEF Came
<1>2. CASE r = 2 * n /\ s = Stream!Whole[n]
  <2>1. n \in 0..k
    BY <1>0, <1>2
  <2> QED  BY <1>2, <2>1, WholeBegins, WholeType
<1>3. CASE r = 2 * n + 1 /\ n < MaxFrames /\ s = Stream!Whole[n] \o Stream!Mapped(n + 1)
  <2>1. n + 1 \in 0..k /\ n + 1 \in 1..MaxFrames /\ (n + 1) - 1 = n /\ n + 1 \in 0..MaxFrames
    BY <1>0, <1>3
  <2>2. Begins(s, Stream!Whole[n + 1]) /\ s \in Seq(OutEvent)
    BY <1>3, <2>1, WholeNext
  <2>3. Begins(Stream!Whole[n + 1], Stream!Whole[k])
    BY <2>1, WholeBegins
  <2>4. Stream!Whole[n + 1] \in Seq(OutEvent) /\ Stream!Whole[k] \in Seq(OutEvent)
    BY <2>1, WholeType
  <2>5. Len(s) \in Nat /\ Len(Stream!Whole[n + 1]) \in Nat /\ Len(Stream!Whole[k]) \in Nat
    BY <2>2, <2>4, LenProperties
  <2> QED  BY <2>2, <2>3, <2>5, BeginsThrough
<1> QED  BY <1>1, <1>2, <1>3

\* The next event of the source, and what it becomes.
LEMMA CameNext ==
  ASSUME NEW r \in Nat, NEW s, Came(s, r), NEW e, e # Dropped,
         e \in [frame : 1..MaxFrames, kind : {"KEY", "SYN"}], Rank(e) = r + 1
  PROVE  Came(s \o Emitted(e), r + 1)
<1>0. MaxFrames \in Nat
  BY DeviceAssumption
<1>1. PICK n \in 0..MaxFrames :
        \/ r = 2 * n /\ s = Stream!Whole[n]
        \/ r = 2 * n + 1 /\ n < MaxFrames /\ s = Stream!Whole[n] \o Stream!Mapped(n + 1)
  BY DEF Came
<1>2. e.frame \in 1..MaxFrames /\ e.kind \in {"KEY", "SYN"}
  OBVIOUS
<1>3. CASE r = 2 * n /\ s = Stream!Whole[n]
  <2>1. e.kind = "KEY" /\ e.frame = n + 1 /\ n < MaxFrames
    <3> DEFINE f == e.frame
    <3>1. n \in Nat /\ f \in Nat /\ f <= MaxFrames
      BY <1>0, <1>2
    <3>2. e.kind = "SYN" => 2 * f = 2 * n + 1
      BY <1>3 DEF Rank
    <3>3. e.kind = "KEY" => 2 * f - 1 = 2 * n + 1
      BY <1>3 DEF Rank
    <3> HIDE DEF f
    <3>4. e.kind # "SYN"
      BY <3>1, <3>2
    <3>5. e.kind = "KEY" /\ f = n + 1 /\ n < MaxFrames
      BY <1>0, <1>2, <3>1, <3>3, <3>4
    <3> QED  BY <3>5 DEF f
  <2>2. Emitted(e) = Stream!Mapped(n + 1)
    BY <2>1 DEF Emitted
  <2> QED  BY <1>3, <2>1, <2>2 DEF Came
<1>4. CASE r = 2 * n + 1 /\ n < MaxFrames /\ s = Stream!Whole[n] \o Stream!Mapped(n + 1)
  <2>1. e.kind = "SYN" /\ e.frame = n + 1 /\ n + 1 \in 1..MaxFrames /\ n + 1 \in 0..MaxFrames
        /\ (n + 1) - 1 = n /\ r + 1 = 2 * (n + 1)
    BY <1>0, <1>2, <1>4 DEF Rank
  <2>2. Emitted(e) = <<Stream!FrameEnd(n + 1)>>
    BY <2>1 DEF Emitted, Verbatim
  <2>3. s \o Emitted(e) = Stream!Whole[n + 1]
    BY <1>4, <2>1, <2>2, WholeNext
  <2> QED  BY <2>1, <2>3 DEF Came
<1> QED  BY <1>1, <1>3, <1>4
-----------------------------------------------------------------------------
(* The stream, step by step.                                               *)

\* Once the source gets no more frames it never does again.
LEMMA GetsBefore ==
  ASSUME RemapInv, [Work]_workVars, Gets'
  PROVE  Gets
<1> USE Names3, DeviceAssumption DEF RemapInv, Inv, DeviceTypeOK, Gets
<1>1. ASSUME UNCHANGED <<file, grab>> PROVE Gets
  BY <1>1
<1>2. CASE World
  BY <1>1, <1>2 DEF World, Emit, Unplug, fileVars
<1>3. ASSUME NEW t \in Threads, CallProceeds(t) PROVE Gets
  <2>1. CASE Proceed(t)
    <3>1. on[t] = Src
      BY DEF SrcCalls
    <3>2. ASSUME NEW g \in {grab, on[t], None}, NEW r, Leave(t, r, g),
                 g = on[t] => grab \in {None, Src}, g = None => grab \in {None, Src}
          PROVE  Gets
      BY <3>1, <3>2 DEF Leave, LastOne, GrabWithout
    <3>3. CASE ReadLock(t) \/ ReadBlocks(t) \/ ReadWakes(t) \/ ReadRefused(t) \/ CloseWaited(t)
      BY <1>1, <3>3 DEF ReadLock, ReadBlocks, ReadWakes, ReadRefused, CloseWaited, fileVars
    <3>4. CASE ReadTakes(t) \/ ReadEnds(t) \/ ReadEvicted(t)
      <4>1. \E r : Leave(t, r, grab)
        BY <3>4 DEF ReadTakes, ReadEnds, ReadEvicted
      <4> QED  BY <3>1, <3>2, <4>1
    <3>5. CASE Ioctl(t)
      BY <3>1, <3>2, <3>5 DEF Ioctl, IoctlGrab, IoctlUngrab
    <3> QED  BY <2>1, <3>3, <3>4, <3>5 DEF Proceed
  <2>2. CASE UNCHANGED deviceVars
    BY <1>1, <2>2 DEF deviceVars, fileVars
  <2> QED  BY <1>3, <2>1, <2>2 DEF CallProceeds, OnOutput
<1>4. ASSUME NEW t, NEW op, IoctlCall(t, op) PROVE Gets
  BY <1>1, <1>4 DEF IoctlCall, Control, ControlRefused, fileVars
<1>5. CASE Query \/ GrabSource
  BY <1>4, <1>5 DEF Query, GrabSource
<1>6. CASE MainGoesOn /\ ~Query /\ ~GrabSource
  BY <1>1, <1>6 DEF MainGoesOn, QueryFails, CreateOutput, CreateFails, Grabbed, GrabFails, Undone, Map,
                    Read, ReadOne, ReadOf, ReadFails, Put, PutFails, OnNeither, OnOutput, deviceVars,
                    fileVars
<1>7. ASSUME NEW t \in Enders, CloseUngrab(t) \/ CloseGoesOn(t) PROVE Gets
  <2>1. CASE CloseUngrab(t)
    BY <1>4, <2>1 DEF CloseUngrab
  <2>2. CASE CloseSource(t)
    BY <1>1, <2>2 DEF CloseSource, Close, CloseIdle, CloseBusy, ControlRefused, GrabWithout, fileVars
  <2>3. CASE CloseJoin(t) \/ CloseOutput(t) \/ CloseDone(t)
    BY <1>1, <2>3 DEF CloseJoin, CloseOutput, CloseDone, OnNeither, OnOutput, deviceVars, fileVars
  <2> QED  BY <1>7, <2>1, <2>2, <2>3 DEF CloseGoesOn
<1>8. CASE MacroWrites \/ UNCHANGED workVars
  BY <1>1, <1>8 DEF MacroWrites, OnOutput, workVars, deviceVars, fileVars
<1> QED  BY <1>2, <1>3, <1>5, <1>6, <1>7, <1>8 DEF Work, Enders

\* The events of the output.
OutType == ToWrite \cup {VP!Marker}

LEMMA FlightType ==
  ASSUME RemapInv
  PROVE  /\ injected \in Seq(OutType) /\ vev \in [Threads -> OutType]
         /\ CameOut \in Seq(OutType) /\ Flight \in Seq(OutType) /\ todo \in Seq(OutType)
<1> USE Names3 DEF RemapInv
<1>1. injected \in Seq(OutType) /\ vev \in [Threads -> OutType]
  BY DEF VP!Inv, VP!VirtualTypeOK, OutType
<1>2. CameOut \in Seq(OutType)
  BY <1>1, FromSourceType DEF CameOut
<1>3. ToWrite \subseteq OutType
  BY DEF OutType
<1> HIDE DEF OutType
<1>4. todo \in Seq(OutType)
  BY <1>3, SeqMonotonic DEF ControlTypeOK
<1>5. Writing \in Seq(OutType)
  <2>1. vev[Main] \in OutType
    BY <1>1
  <2>2. <<vev[Main]>> \in Seq(OutType) /\ <<>> \in Seq(OutType)
    BY <2>1
  <2> QED  BY <2>2 DEF Writing
<1>6. Writing \o todo \in Seq(OutType)
  BY <1>4, <1>5, ConcatProperties
<1>7. rpc = "read" /\ SrcGave(Main, "ok") => Emitted(Head(got[Main])) \in Seq(OutType)
  <2> SUFFICES ASSUME rpc = "read" /\ SrcGave(Main, "ok")
               PROVE  Emitted(Head(got[Main])) \in Seq(OutType)
    OBVIOUS
  <2>1. Head(got[Main]) \in Known
    BY HeadTailProperties DEF SrcEvents
  <2> QED  BY <1>3, <2>1, EmittedType, SeqMonotonic
<1>8. <<>> \in Seq(OutType)
  OBVIOUS
<1> QED  BY <1>1, <1>2, <1>4, <1>6, <1>7, <1>8 DEF Flight

\* What came out begins what is made, whether Run goes on or not.
OutBegun == Begins(CameOut, Stream!Whole[frames])

LEMMA OutBeginsWhole ==
  ASSUME RemapInv, StreamInv
  PROVE  Begins(CameOut, Stream!Whole[frames])
<1>1. PICK m \in 0..frames, r \in Nat :
        /\ r + Len(queue[Src]) = 2 * m
        /\ IF Dead THEN Begins(CameOut, Stream!Whole[frames]) ELSE Came(CameOut \o Flight, r)
  BY DEF StreamInv
<1>2. frames \in 0..MaxFrames /\ frames \in Nat /\ Len(queue[Src]) \in Nat
  BY Names3, DeviceAssumption, LenProperties DEF RemapInv, Inv, DeviceTypeOK
<1>3. r <= 2 * frames
  BY <1>1, <1>2
<1>4. CASE ~Dead
  <2>1. Begins(CameOut \o Flight, Stream!Whole[frames])
    BY <1>1, <1>2, <1>3, <1>4, CameBegins
  <2>2. CameOut \in Seq(OutType) /\ Flight \in Seq(OutType) /\ Stream!Whole[frames] \in Seq(OutEvent)
    BY <1>2, FlightType, WholeType
  <2>3. Begins(CameOut, CameOut \o Flight)
    BY <2>2, BeginsConcat
  <2>4. /\ Len(CameOut) \in Nat /\ Len(CameOut \o Flight) \in Nat
        /\ Len(Stream!Whole[frames]) \in Nat
    BY <2>2, ConcatProperties, LenProperties
  <2> QED  BY <2>1, <2>3, <2>4, BeginsThrough
<1> QED  BY <1>1, <1>4

\* A step that moves nothing of the stream, or after which Run is over.
LEMMA StreamKeeps ==
  ASSUME RemapInv, StreamInv, UNCHANGED frames, queue'[Src] = queue[Src], CameOut' = CameOut,
         Gets' => Gets, Dead => Dead', ~Dead' => Flight' = Flight
  PROVE  StreamInv'
<1>1. PICK m \in 0..frames, r \in Nat :
        /\ r + Len(queue[Src]) = 2 * m
        /\ Gets => m = frames
        /\ Follows(queue[Src], r)
        /\ IF Dead THEN Begins(CameOut, Stream!Whole[frames]) ELSE Came(CameOut \o Flight, r)
  BY DEF StreamInv
<1>2. Begins(CameOut', Stream!Whole[frames'])
  BY OutBeginsWhole
<1>3. m \in 0..frames' /\ r \in Nat
  BY <1>1
<1>4. /\ r + Len(queue'[Src]) = 2 * m
      /\ Gets' => m = frames'
      /\ Follows(queue'[Src], r)
  BY <1>1
<1>5. IF Dead' THEN Begins(CameOut', Stream!Whole[frames']) ELSE Came(CameOut' \o Flight', r)
  BY <1>1, <1>2
<1> QED  BY <1>3, <1>4, <1>5 DEF StreamInv

LEMMA SizeStep ==
  ASSUME RemapInv, ClientInv, [Work]_workVars
  PROVE  size'[Main] = 1
<1> USE Names3 DEF RemapInv, Inv, DeviceTypeOK, ClientInv
<1>1. CASE UNCHANGED size
  BY <1>1
<1>2. ASSUME NEW t \in Threads, CallProceeds(t) PROVE UNCHANGED size
  BY <1>2 DEF CallProceeds, OnOutput, deviceVars, callVars, Proceed, ReadLock, ReadRefused, ReadTakes,
              ReadEnds, ReadBlocks, ReadWakes, ReadEvicted, Ioctl, CloseWaited
<1>3. ASSUME NEW t \in Threads, NEW op, IoctlCall(t, op) PROVE size'[Main] = 1
  BY <1>3 DEF IoctlCall, Control, ControlRefused, Begin, AtOnce
<1>4. CASE Query \/ GrabSource
  BY <1>3, <1>4 DEF Query, GrabSource
<1>5. CASE Read
  BY <1>5 DEF Read, ReadOne, ReadOf, Begin
<1>6. CASE MainGoesOn /\ ~Query /\ ~GrabSource /\ ~Read
  BY <1>1, <1>6 DEF MainGoesOn, QueryFails, CreateOutput, CreateFails, Grabbed, GrabFails, Undone, Map,
                    ReadFails, Put, PutFails, OnNeither, OnOutput, deviceVars, callVars
<1>7. ASSUME NEW t \in Enders, CloseUngrab(t) \/ CloseGoesOn(t) PROVE size'[Main] = 1
  <2>1. t \in Threads
    BY DEF Enders
  <2>2. CASE CloseUngrab(t)
    BY <1>3, <2>1, <2>2 DEF CloseUngrab
  <2>3. CASE CloseSource(t)
    BY <2>1, <2>3 DEF CloseSource, Close, CloseIdle, CloseBusy, ControlRefused, Begin, AtOnce
  <2>4. CASE CloseJoin(t) \/ CloseOutput(t) \/ CloseDone(t)
    BY <1>1, <2>4 DEF CloseJoin, CloseOutput, CloseDone, OnNeither, OnOutput, deviceVars, callVars
  <2> QED  BY <1>7, <2>2, <2>3, <2>4 DEF CloseGoesOn
<1>8. CASE World \/ MacroWrites \/ UNCHANGED workVars
  BY <1>1, <1>8 DEF World, Emit, Unplug, MacroWrites, OnOutput, workVars, deviceVars, callVars
<1> QED  BY <1>1, <1>2, <1>4, <1>5, <1>6, <1>7, <1>8 DEF Work, Enders

\* How a Write goes on: the kernel takes what Main writes, unless the write
\* fails, and nothing of what the others do counts.
LEMMA WriteGoesOn ==
  ASSUME RemapInv, ClientInv, NEW t \in Threads, VP!VProceed(t)
  PROVE  /\ UNCHANGED vev
         /\ t # Main => CameOut' = CameOut
         /\ t = Main /\ vat[Main] \notin InWrite => CameOut' = CameOut /\ vat'[Main] \notin InWrite
         /\ t = Main /\ vat[Main] \in InWrite =>
              \/ vat'[Main] = "write" /\ injected' = injected
              \/ vat'[Main] = "idle" /\ vret'[Main] # "ok" /\ injected' = injected
              \/ /\ vat'[Main] = "idle" /\ vret'[Main] = "ok" /\ kdev = "live"
                 /\ VP!Accepts(vev[Main]) => injected' = Append(injected, vev[Main])
<1> USE Names3 DEF RemapInv, VP!Inv, VP!VirtualTypeOK, VP!VGoto, VP!VReturn, InWrite
<1>1. CASE VP!Enable(t) \/ VP!Setup(t) \/ VP!Create(t)
  <2>1. UNCHANGED <<injected, vev>> /\ vat[t] \notin InWrite /\ vat'[t] \notin InWrite
    BY <1>1 DEF VP!Enable, VP!Setup, VP!Create, VP!CreateDone, VP!GiveUp
  <2> QED  BY <2>1 DEF CameOut
<1>2. CASE VP!CloseFd(t) \/ VP!Destroy(t) \/ VP!CloseFile(t) \/ VP!SetNil(t)
  <2>1. UNCHANGED <<injected, vev>> /\ vat[t] \notin InWrite /\ vat'[t] \notin InWrite
    BY <1>2 DEF VP!CloseFd, VP!Destroy, VP!CloseFile, VP!SetNil
  <2> QED  BY <2>1 DEF CameOut
<1>3. CASE VP!WriteLock(t)
  <2>1. UNCHANGED <<injected, vev>> /\ vat[t] = "locking"
        /\ (vat'[t] = "write" \/ (vat'[t] = "idle" /\ vret'[t] # "ok"))
    BY <1>3 DEF VP!WriteLock
  <2> QED  BY <2>1 DEF CameOut
<1>4. CASE VP!WriteDone(t)
  <2>1. UNCHANGED vev /\ vat[t] = "write" /\ vat'[t] = "idle"
    BY <1>4 DEF VP!WriteDone
  <2>2. \/ /\ kdev = "live" /\ vret'[t] = "ok"
           /\ VP!Accepts(vev[t]) /\ injected' = Append(injected, vev[t])
        \/ /\ kdev = "live" /\ vret'[t] = "ok"
           /\ ~VP!Accepts(vev[t]) /\ injected' = injected
        \/ vret'[t] # "ok" /\ injected' = injected
    BY <1>4 DEF VP!WriteDone
  <2>3. CASE t = Main
    BY <2>1, <2>2, <2>3
  <2>4. CASE t # Main
    <3>1. t = Macro
      BY <2>1, <2>4, RemapperAssumption DEF OutCalls, InOut
    <3>2. vev[t].frame = 0
      BY <2>1, <3>1 DEF ClientInv
    <3>3. injected \in Seq(OutType) /\ vev[t] \in OutType
      BY FlightType
    <3>4. FromSource(Append(injected, vev[t])) = FromSource(injected)
      BY <3>2, <3>3, FromSourceAppend
    <3> QED  BY <2>1, <2>2, <2>4, <3>4 DEF CameOut
  <2> QED  BY <2>3, <2>4
<1> QED  BY <1>1, <1>2, <1>3, <1>4 DEF VP!VProceed

\* A call on the output that is made writes nothing yet.
LEMMA OutBeginsNothing ==
  ASSUME RemapInv, NEW t \in Threads, NEW e,
         VP!CreateOpen(t) \/ VP!WriteBegin(t, e) \/ VP!CloseOut(t)
  PROVE  /\ UNCHANGED injected
         /\ \A u \in Threads \ {t} : vev'[u] = vev[u]
         /\ ~VP!WriteBegin(t, e) => UNCHANGED vev /\ vat'[t] \notin InWrite
         /\ VP!WriteBegin(t, e) =>
              \/ vat'[t] = "locking" /\ vev'[t] = e
              \/ vat'[t] = "idle" /\ vret'[t] # "ok" /\ UNCHANGED vev
BY DEF RemapInv, VP!Inv, VP!VirtualTypeOK, VP!VGoto, VP!VReturn, VP!CreateOpen, VP!WriteBegin,
       VP!CloseOut, VP!CloseAgain, VP!CloseBegin, InWrite

LEMMA ClientStep ==
  ASSUME RemapInv, ClientInv, [Work]_workVars
  PROVE  ClientInv'
<1> USE Names3
<1>1. ASSUME vev'[Macro] = vev[Macro], vat'[Macro] \in InWrite => vat[Macro] \in InWrite
      PROVE  ClientInv'
  BY <1>1, SizeStep DEF ClientInv, InWrite
<1>2. CASE UNCHANGED outVars
  BY <1>1, <1>2 DEF outVars
<1>3. ASSUME NEW t \in Threads, CallProceeds(t) PROVE ClientInv'
  <2>1. CASE VP!VProceed(t)
    <3>1. UNCHANGED vev
      BY <2>1, WriteGoesOn
    <3>2. vat'[Macro] \in InWrite => vat[Macro] \in InWrite
      BY <2>1, OutMoves DEF RemapInv, InWrite, InOut, VP!Creating
    <3> QED  BY <1>1, <3>1, <3>2
  <2> QED  BY <1>2, <1>3, <2>1, SameProceed DEF CallProceeds, OnSource
<1>4. ASSUME NEW t \in Enders, NEW e,
             VP!CreateOpen(t) \/ VP!WriteBegin(t, e) \/ VP!CloseOut(t)
      PROVE  ClientInv'
  <2>1. t \in Threads /\ t # Macro
    BY RemapperAssumption DEF Enders
  <2>2. vev'[Macro] = vev[Macro] /\ vat'[Macro] = vat[Macro]
    BY <1>4, <2>1, OutBegins, OutBeginsNothing DEF RemapInv
  <2> QED  BY <1>1, <2>2
<1>5. CASE CreateOutput \/ GrabFails \/ Put
  BY <1>4, <1>5, SameCall DEF CreateOutput, GrabFails, Put, Enders
<1>6. CASE MainGoesOn /\ ~CreateOutput /\ ~GrabFails /\ ~Put
  BY <1>2, <1>6 DEF MainGoesOn, Query, QueryFails, CreateFails, GrabSource, Grabbed, Undone, Read, Map,
                    ReadFails, PutFails, OnNeither, OnSource
<1>7. ASSUME NEW t \in Enders, CloseUngrab(t) \/ CloseGoesOn(t) PROVE ClientInv'
  <2>1. CASE CloseOutput(t)
    BY <1>4, <2>1, SameCall DEF CloseOutput
  <2>2. CASE CloseUngrab(t) \/ CloseJoin(t) \/ CloseDone(t) \/ CloseSource(t)
    BY <1>2, <2>2 DEF CloseUngrab, CloseJoin, CloseDone, CloseSource, OnNeither, OnSource
  <2> QED  BY <1>7, <2>1, <2>2 DEF CloseGoesOn
<1>8. CASE MacroWrites
  <2> DEFINE e == Batch[mpos + 1]
             MacroEvent == [type : STRING, code : STRING, frame : {0}]
  <2>1. VP!WriteBegin(Macro, e)
    BY <1>8, SameCall DEF MacroWrites
  <2>2. mpos + 1 \in 1..Len(Batch)
    BY <1>8, ToWriteHas DEF MacroWrites, RemapInv, ControlTypeOK
  <2>3. Batch \in Seq(MacroEvent)
    BY RemapperAssumption
  <2> HIDE DEF MacroEvent
  <2>4. e \in MacroEvent
    BY <2>2, <2>3, ElementOfSeq
  <2>5. e.frame = 0
    BY <2>4 DEF MacroEvent
  <2>6. \/ vat'[Macro] = "locking" /\ vev'[Macro] = e
        \/ vat'[Macro] = "idle"
    BY <2>1, OutBeginsNothing
  <2> QED  BY <2>5, <2>6, SizeStep DEF ClientInv, InWrite
<1>9. CASE World \/ UNCHANGED workVars
  BY <1>2, <1>9 DEF World, OnSource, workVars
<1> QED  BY <1>3, <1>5, <1>6, <1>7, <1>8, <1>9 DEF Work, Enders

\* A frame is made, and the queue has room for it.
LEMMA StreamEmit ==
  ASSUME RemapInv, StreamInv, World, Emit, Len(queue[Src]) + 2 <= EvLimit
  PROVE  StreamInv'
<1> USE Names3
<1> DEFINE q == queue[Src]
<1>1. PICK m \in 0..frames, r \in Nat :
        /\ r + Len(q) = 2 * m
        /\ Gets => m = frames
        /\ Follows(q, r)
        /\ IF Dead THEN Begins(CameOut, Stream!Whole[frames]) ELSE Came(CameOut \o Flight, r)
  BY DEF StreamInv
<1>2. /\ frames \in Nat /\ frames' = frames + 1 /\ MaxFrames \in Nat
      /\ frames \in 0..frames' /\ frames' \in 0..MaxFrames
  BY DeviceAssumption DEF Emit, RemapInv, Inv, DeviceTypeOK
<1>3. q \in Seq(Known) /\ Len(q) \in Nat /\ EvLimit \in Nat
  BY LenProperties, DeviceAssumption DEF RemapInv, SrcEvents
<1>4. /\ CameOut' = CameOut /\ Flight' = Flight /\ Dead' = Dead /\ Gets' = Gets
  BY DEF World, Emit, OnSource, outVars, remapVars, fileVars, callVars, CameOut, Flight, Writing, Dead,
         Gets, SrcGave
<1>5. IF Dead' THEN Begins(CameOut', Stream!Whole[frames']) ELSE Came(CameOut' \o Flight', r)
  <2>1. Begins(CameOut, Stream!Whole[frames])
    BY OutBeginsWhole
  <2>2. Begins(Stream!Whole[frames], Stream!Whole[frames'])
    BY <1>2, WholeBegins
  <2>3. /\ Stream!Whole[frames] \in Seq(OutEvent) /\ Stream!Whole[frames'] \in Seq(OutEvent)
        /\ CameOut \in Seq(OutType)
    BY <1>2, WholeType, FlightType
  <2>4. /\ Len(CameOut) \in Nat /\ Len(Stream!Whole[frames]) \in Nat
        /\ Len(Stream!Whole[frames']) \in Nat
    BY <2>3, LenProperties
  <2>5. Begins(CameOut, Stream!Whole[frames'])
    BY <2>1, <2>2, <2>4, BeginsThrough
  <2> QED  BY <1>1, <1>4, <2>5
<1>6. CASE ~Gets
  <2>1. queue'[Src] = q
    BY <1>6 DEF Emit, Gets
  <2>2. m \in 0..frames'
    BY <1>1, <1>2
  <2> QED  BY <1>1, <1>4, <1>5, <1>6, <2>1, <2>2 DEF StreamInv
<1>7. CASE Gets
  <2> DEFINE a == Event(frames + 1, "KEY")
             b == Event(frames + 1, "SYN")
             p == queue'[Src]
  <2>1. p = PushFrame(q, frames + 1)
    BY <1>7 DEF Emit, Gets
  <2>2. PushFrame(q, frames + 1) = Append(Append(q, a), b)
    <3>1. Push(q, a) = Append(q, a)
      BY <1>3 DEF Push
    <3>2. Len(Append(q, a)) = Len(q) + 1
      BY <1>3
    <3>3. Push(Append(q, a), b) = Append(Append(q, a), b)
      BY <1>3, <3>2 DEF Push
    <3> QED  BY <3>1, <3>3 DEF PushFrame
  <2>3. /\ a # Dropped /\ Rank(a) = 2 * frames + 1
        /\ b # Dropped /\ Rank(b) = 2 * frames + 2
    BY <1>2 DEF Event, Dropped, Rank
  <2> HIDE DEF a, b, q
  <2>4. /\ Len(p) = Len(q) + 2
        /\ \A i \in 1..Len(q) : p[i] = q[i]
        /\ p[Len(q) + 1] = a /\ p[Len(q) + 2] = b
    <3> DEFINE K == Known \cup {a, b}
    <3>1. q \in Seq(K) /\ a \in K /\ b \in K
      BY <1>3, SeqMonotonic
    <3> HIDE DEF K
    <3>2. /\ Append(q, a) \in Seq(K) /\ Len(Append(q, a)) = Len(q) + 1
          /\ \A i \in 1..Len(q) : Append(q, a)[i] = q[i]
          /\ Append(q, a)[Len(q) + 1] = a
      BY <3>1, AppendProperties
    <3>3. /\ Len(p) = Len(Append(q, a)) + 1
          /\ \A i \in 1..Len(Append(q, a)) : p[i] = Append(q, a)[i]
          /\ p[Len(Append(q, a)) + 1] = b
      BY <2>1, <2>2, <3>1, <3>2, AppendProperties
    <3> QED  BY <1>3, <3>2, <3>3
  <2> HIDE DEF p
  <2>5. r + Len(q) = 2 * frames
    BY <1>1, <1>7
  <2>6. Follows(p, r)
    <3> SUFFICES ASSUME NEW i \in 1..Len(p) PROVE p[i] # Dropped /\ Rank(p[i]) = r + i
      BY DEF Follows
    <3>1. CASE i \in 1..Len(q)
      BY <1>1, <2>4, <3>1 DEF Follows
    <3>2. CASE i = Len(q) + 1
      BY <1>2, <1>3, <2>3, <2>4, <2>5, <3>2
    <3>3. CASE i = Len(q) + 2
      BY <1>2, <1>3, <2>3, <2>4, <2>5, <3>3
    <3> QED  BY <1>3, <2>4, <3>1, <3>2, <3>3
  <2>7. r + Len(p) = 2 * frames' /\ frames' \in 0..frames'
    BY <1>2, <1>3, <2>4, <2>5
  <2>8. r + Len(queue'[Src]) = 2 * frames' /\ Follows(queue'[Src], r)
    BY <2>6, <2>7 DEF p
  <2> QED  BY <1>5, <2>7, <2>8 DEF StreamInv
<1> QED  BY <1>6, <1>7

\* Run takes the event at the head of the queue.
LEMMA StreamTakes ==
  ASSUME RemapInv, ClientInv, StreamInv, [Work]_workVars, NEW t \in Threads, ReadTakes(t),
         OnSource, UNCHANGED remapVars
  PROVE  StreamInv'
<1> USE Names3
<1> DEFINE q == queue[Src]
           p == queue'[Src]
<1>1. PICK m \in 0..frames, r \in Nat :
        /\ r + Len(q) = 2 * m
        /\ Gets => m = frames
        /\ Follows(q, r)
        /\ IF Dead THEN Begins(CameOut, Stream!Whole[frames]) ELSE Came(CameOut \o Flight, r)
  BY DEF StreamInv
<1>2. t = Main /\ rpc = "read" /\ on[Main] = Src /\ at[Main] # "idle"
  BY RemapperAssumption DEF ReadTakes, RemapInv, SrcCalls, CloseInv, Reading
<1>3. q \in Seq(Known) /\ q # <<>> /\ Len(q) \in Nat \ {0}
  BY <1>2, LenProperties DEF ReadTakes, RemapInv, SrcEvents
<1> HIDE DEF q, p
<1>4. /\ got'[Main] = SubSeq(q, 1, 1) /\ p = SubSeq(q, 2, Len(q))
      /\ at'[Main] = "idle" /\ ret'[Main] = "ok"
  <2>1. (IF Len(q) <= size[Main] THEN Len(q) ELSE size[Main]) = 1
    <3>1. size[Main] = 1
      BY DEF ClientInv
    <3>2. Len(q) \in Nat \ {0}
      BY <1>3
    <3>3. \A n \in Nat \ {0} : (IF n <= 1 THEN n ELSE 1) = 1
      OBVIOUS
    <3> QED  BY <3>1, <3>2, <3>3
  <2>2. /\ got' = [got EXCEPT ![Main] = SubSeq(q, 1, 1)]
        /\ queue' = [queue EXCEPT ![Src] = SubSeq(q, 1 + 1, Len(q))]
        /\ Leave(Main, "ok", grab)
    BY <1>2, <2>1 DEF ReadTakes, q
  <2>3. /\ got \in [Threads -> Seq(Events)] /\ queue \in [Files -> Seq(Events)]
        /\ DOMAIN at = Threads /\ DOMAIN ret = Threads
    BY DEF RemapInv, Inv, DeviceTypeOK
  <2>4. got'[Main] = SubSeq(q, 1, 1) /\ p = SubSeq(q, 1 + 1, Len(q))
    BY <2>2, <2>3 DEF p
  <2>5. at'[Main] = "idle" /\ ret'[Main] = "ok"
    BY <2>2, <2>3 DEF Leave, Return
  <2> QED  BY <2>4, <2>5
<1>5. /\ Head(got'[Main]) = q[1]
      /\ Len(p) = Len(q) - 1 /\ \A i \in 1..Len(p) : p[i] = q[i + 1]
  <2>1. 1 \in 1..Len(q) /\ 1 \in 1..1
    BY <1>3
  <2>2. Head(SubSeq(q, 1, 1)) = q[1]
    BY <1>3, <2>1, HeadTailOfSubSeq
  <2>3. p = Tail(q)
    BY <1>3, <1>4, TailIsSubSeq
  <2> QED  BY <1>3, <1>4, <2>2, <2>3, HeadTailProperties
<1>6. frames' = frames /\ CameOut' = CameOut /\ rpc' = "read" /\ (Gets' => Gets)
  BY <1>2, GetsBefore DEF ReadTakes, inputVars, OnSource, outVars, remapVars, CameOut
<1>7. Flight = <<>> /\ Flight' = Emitted(q[1]) /\ ~Dead /\ ~Dead'
  BY <1>2, <1>4, <1>5, <1>6 DEF Flight, Dead, SrcGave
<1>8. CameOut \in Seq(OutType)
  BY FlightType
<1>9. Came(CameOut, r)
  BY <1>1, <1>7, <1>8, ConcatEmptySeq
<1>10. Came(CameOut \o Emitted(q[1]), r + 1)
  <2>1. 1 \in 1..Len(q)
    BY <1>3
  <2>2. q[1] \in Known /\ q[1] # Dropped /\ Rank(q[1]) = r + 1
    BY <1>1, <1>3, <2>1, ElementOfSeq DEF Follows
  <2>3. frames \in 0..MaxFrames /\ MaxFrames \in Nat
    BY DeviceAssumption DEF RemapInv, Inv, DeviceTypeOK
  <2>4. q[1] \in [frame : 1..MaxFrames, kind : {"KEY", "SYN"}]
    <3>1. q[1] \in [frame : 1..frames, kind : {"KEY", "SYN"}]
      BY <2>2 DEF Known
    <3>2. 1..frames \subseteq 1..MaxFrames
      BY <2>3
    <3> QED  BY <3>1, <3>2
  <2> QED  BY <1>9, <2>2, <2>4, CameNext
<1>11. r + 1 + Len(p) = 2 * m /\ r + 1 \in Nat
  <2>1. m \in Nat
    <3>1. frames \in Nat
      BY DeviceAssumption DEF RemapInv, Inv, DeviceTypeOK
    <3> QED  BY <1>1, <3>1
  <2>2. r \in Nat /\ r + Len(q) = 2 * m /\ Len(p) = Len(q) - 1 /\ Len(q) \in Nat
    BY <1>1, <1>3, <1>5
  <2> QED  BY <2>1, <2>2
<1>12. Follows(p, r + 1)
  <2> SUFFICES ASSUME NEW i \in 1..Len(p) PROVE p[i] # Dropped /\ Rank(p[i]) = (r + 1) + i
    BY DEF Follows
  <2>1. i + 1 \in 1..Len(q) /\ p[i] = q[i + 1]
    BY <1>3, <1>5
  <2>2. q[i + 1] # Dropped /\ Rank(q[i + 1]) = r + (i + 1)
    BY <1>1, <2>1 DEF Follows
  <2> QED  BY <2>1, <2>2
<1>13. m \in 0..frames' /\ (Gets' => m = frames')
  BY <1>1, <1>6
<1>14. IF Dead' THEN Begins(CameOut', Stream!Whole[frames']) ELSE Came(CameOut' \o Flight', r + 1)
  BY <1>6, <1>7, <1>10
<1> QED  BY <1>11, <1>12, <1>13, <1>14 DEF StreamInv, p

\* The virtual device registers what Run writes.
LEMMA WantedAccepted ==
  ASSUME VP!Inv, kdev = "live", NEW e \in Wanted
  PROVE  VP!Accepts(e) /\ e.frame # 0
<1>1. enabled = VP!Required
  BY DEF VP!Inv, VP!WholeInv
<1>2. CASE e \in [type : {"EV_SYN"}, code : {"SYN_REPORT"}, frame : Nat \ {0}]
  BY <1>2 DEF VP!Accepts
<1>3. CASE e \in [type : {"EV_KEY"}, code : Caps["EV_KEY"], frame : Nat \ {0}]
  <2>1. e.type = "EV_KEY" /\ e.code \in Caps["EV_KEY"] /\ e.frame # 0
    BY <1>3
  <2>2. "EV_KEY" \in VP!EventTypes /\ "EV_KEY" \in VP!CodeTypes
    BY DEF VP!EventTypes, VP!CodeTypes
  <2>3. <<"EV_KEY", "type">> \in VP!Required
    BY <2>1, <2>2 DEF VP!Required
  <2>4. <<"EV_KEY", e.code>> \in VP!Required
    BY <2>1, <2>2 DEF VP!Required
  <2> QED  BY <1>1, <2>1, <2>3, <2>4 DEF VP!Accepts
<1> QED  BY <1>2, <1>3 DEF Wanted

LEMMA CameWanted ==
  ASSUME MapsToCaps, NEW r, NEW s, Came(s, r)
  PROVE  s \in Seq(Wanted)
<1>1. PICK n \in 0..MaxFrames :
        \/ r = 2 * n /\ s = Stream!Whole[n]
        \/ r = 2 * n + 1 /\ n < MaxFrames /\ s = Stream!Whole[n] \o Stream!Mapped(n + 1)
  BY DEF Came
<1>2. Stream!Whole[n] \in Seq(Wanted)
  BY WholeWanted
<1>3. ASSUME n < MaxFrames PROVE Stream!Whole[n] \o Stream!Mapped(n + 1) \in Seq(Wanted)
  <2>1. n + 1 \in 1..MaxFrames
    BY <1>3, DeviceAssumption
  <2>2. Stream!Mapped(n + 1) \in Seq(Wanted)
    BY <2>1, WantedType
  <2> QED  BY <1>2, <2>2, ConcatProperties
<1> QED  BY <1>1, <1>2, <1>3

\* A Write of Run goes on, or comes to its end.
LEMMA StreamWrites ==
  ASSUME MapsToCaps, StreamAll, VP!VProceed(Main), vat[Main] \in InWrite, OnOutput,
         UNCHANGED remapVars
  PROVE  StreamInv'
<1> USE Names3 DEF StreamAll
<1> DEFINE v == vev[Main]
<1>1. PICK m \in 0..frames, r \in Nat :
        /\ r + Len(queue[Src]) = 2 * m
        /\ Gets => m = frames
        /\ Follows(queue[Src], r)
        /\ IF Dead THEN Begins(CameOut, Stream!Whole[frames]) ELSE Came(CameOut \o Flight, r)
  BY DEF StreamInv
<1>2. rpc = "put"
  BY DEF RemapInv, OutCalls, InWrite, InOut
<1>3. /\ frames' = frames /\ queue' = queue /\ Gets' = Gets /\ rpc' = "put" /\ todo' = todo
      /\ vev' = vev
  <2>1. frames' = frames /\ queue' = queue /\ file' = file /\ grab' = grab
    BY DEF OnOutput, deviceVars, inputVars, fileVars
  <2> QED  BY <1>2, <2>1, WriteGoesOn DEF remapVars, Gets
<1>4. ~Dead /\ Flight = <<v>> \o todo
  BY <1>2 DEF Dead, InWrite, Flight, Writing
<1>5. CASE vat'[Main] = "write" /\ injected' = injected
  <2>1. ~Dead' /\ Flight' = Flight /\ CameOut' = CameOut
    BY <1>2, <1>3, <1>4, <1>5 DEF Dead, Flight, Writing, InWrite, CameOut
  <2> QED  BY <1>3, <1>4, <2>1, StreamKeeps
<1>6. CASE vat'[Main] = "idle" /\ vret'[Main] # "ok" /\ injected' = injected
  <2>1. Dead' /\ CameOut' = CameOut
    BY <1>3, <1>6 DEF Dead, CameOut
  <2> QED  BY <1>3, <2>1, StreamKeeps
<1>7. CASE /\ vat'[Main] = "idle" /\ vret'[Main] = "ok" /\ kdev = "live"
           /\ VP!Accepts(v) => injected' = Append(injected, v)
  <2>1. /\ injected \in Seq(OutType) /\ v \in OutType /\ CameOut \in Seq(OutType)
        /\ todo \in Seq(OutType)
    BY FlightType
  <2>2. <<v>> \in Seq(OutType)
    BY <2>1
  <2>3. v \in Wanted
    <3> DEFINE s == CameOut \o (<<v>> \o todo)
               n == Len(CameOut) + 1
    <3>1. s \in Seq(Wanted)
      BY <1>1, <1>4, CameWanted
    <3>2. <<v>> \o todo \in Seq(OutType) /\ Len(<<v>> \o todo) = 1 + Len(todo)
          /\ (<<v>> \o todo)[1] = v
      BY <2>1, <2>2, ConcatProperties, LenProperties
    <3>3. Len(CameOut) \in Nat /\ Len(todo) \in Nat
      BY <2>1, LenProperties
    <3>4. Len(s) = Len(CameOut) + (1 + Len(todo)) /\ s[n] = v
      BY <2>1, <3>2, <3>3, ConcatProperties
    <3>5. n \in 1..Len(s)
      BY <3>3, <3>4
    <3> HIDE DEF s, n
    <3>6. s[n] \in Wanted
      BY <3>1, <3>5, ElementOfSeq
    <3> QED  BY <3>4, <3>6
  <2>4. VP!Accepts(v) /\ v.frame # 0
    BY <1>7, <2>3, WantedAccepted DEF RemapInv
  <2>5. CameOut' = Append(CameOut, v)
    BY <1>7, <2>1, <2>4, FromSourceAppend DEF CameOut
  <2>6. ~Dead' /\ Flight' = <<>> \o todo
    BY <1>3, <1>7 DEF Dead, Flight, Writing, InWrite
  <2>7. CameOut' \o Flight' = CameOut \o Flight
    <3>1. <<>> \o todo = todo /\ Append(CameOut, v) = CameOut \o <<v>>
      BY <2>1, ConcatEmptySeq, AppendIsConcat
    <3>2. (CameOut \o <<v>>) \o todo = CameOut \o (<<v>> \o todo)
      BY <2>1, <2>2, ConcatAssociative
    <3> QED  BY <1>4, <2>5, <2>6, <3>1, <3>2
  <2>8. Came(CameOut' \o Flight', r)
    BY <1>1, <1>4, <2>7
  <2>9. /\ r + Len(queue'[Src]) = 2 * m /\ Follows(queue'[Src], r)
        /\ (Gets' => m = frames') /\ m \in 0..frames'
    BY <1>1, <1>3
  <2>10. IF Dead' THEN Begins(CameOut', Stream!Whole[frames']) ELSE Came(CameOut' \o Flight', r)
    BY <2>6, <2>8
  <2> QED  BY <2>9, <2>10 DEF StreamInv
<1> QED  BY <1>5, <1>6, <1>7, WriteGoesOn

\* A call of some goroutine goes on.
LEMMA StreamCalls ==
  ASSUME MapsToCaps, StreamAll, [Work]_workVars, NEW t \in Threads, CallProceeds(t)
  PROVE  StreamInv'
<1> USE Names3 DEF StreamAll
<1>1. UNCHANGED remapVars /\ (Gets' => Gets)
  BY GetsBefore DEF CallProceeds
<1>2. rpc' = rpc /\ todo' = todo
  BY <1>1 DEF remapVars
<1>3. CASE Proceed(t) /\ OnSource
  <2>1. CASE ReadTakes(t)
    BY <1>1, <1>3, <2>1, StreamTakes
  <2>2. CASE ~ReadTakes(t)
    <3>1. /\ queue' = queue /\ got' = got /\ frames' = frames /\ CameOut' = CameOut
          /\ vat' = vat /\ vret' = vret /\ vev' = vev
      BY <1>3, <2>2, CallReadsNot, CallMoves DEF RemapInv, OnSource, outVars, CameOut
    <3>2. (Dead => Dead') /\ (Writing \o todo)' = Writing \o todo
      BY <1>2, <3>1 DEF Dead, Writing
    <3>3. rpc = "read" => (SrcGave(Main, "ok")' <=> SrcGave(Main, "ok"))
      <4>1. CASE t # Main
        BY <1>3, <4>1, CallMoves DEF RemapInv, SrcGave
      <4>2. CASE t = Main
        <5>1. at[Main] # "idle"
          BY <1>3, <4>2, CallMoves DEF RemapInv
        <5>2. rpc = "read" => at[Main] \in {"locking"} \cup Reading
          BY <5>1, RemapperAssumption DEF RemapInv, SrcCalls, CloseInv, Enders
        <5>3. rpc = "read" /\ at'[Main] = "idle" => ret'[Main] # "ok"
          BY <1>3, <2>2, <4>2, <5>2, CallReadsNot DEF RemapInv
        <5> QED  BY <5>1, <5>3 DEF SrcGave
      <4> QED  BY <4>1, <4>2
    <3>4. Flight' = Flight
      BY <1>2, <3>1, <3>2, <3>3 DEF Flight
    <3> QED  BY <1>1, <3>1, <3>2, <3>4, StreamKeeps
  <2> QED  BY <2>1, <2>2
<1>4. CASE VP!VProceed(t) /\ OnOutput
  <2>1. /\ queue' = queue /\ got' = got /\ frames' = frames /\ at' = at /\ ret' = ret /\ vev' = vev
    BY <1>4, WriteGoesOn DEF OnOutput, deviceVars, inputVars, callVars
  <2>2. CASE t = Main /\ vat[Main] \in InWrite
    BY <1>1, <1>4, <2>2, StreamWrites
  <2>3. CASE t # Main
    <3>1. CameOut' = CameOut /\ vat'[Main] = vat[Main] /\ vret'[Main] = vret[Main]
      BY <1>4, <2>3, WriteGoesOn, OutMoves DEF RemapInv
    <3>2. (Dead => Dead') /\ Flight' = Flight
      BY <1>2, <2>1, <3>1 DEF Dead, Flight, Writing, SrcGave
    <3> QED  BY <1>1, <2>1, <3>1, <3>2, StreamKeeps
  <2>4. CASE t = Main /\ vat[Main] \notin InWrite
    <3>1. CameOut' = CameOut /\ vat[Main] # "idle" /\ vat'[Main] \notin InWrite
      BY <1>4, <2>4, WriteGoesOn, OutMoves DEF RemapInv
    <3>2. (Dead => Dead') /\ Flight' = Flight
      BY <1>2, <2>1, <2>4, <3>1 DEF Dead, Flight, Writing, SrcGave
    <3> QED  BY <1>1, <2>1, <3>1, <3>2, StreamKeeps
  <2> QED  BY <2>2, <2>3, <2>4
<1> QED  BY <1>3, <1>4, SameProceed DEF CallProceeds

\* Main goes on from one call to the next.
LEMMA MainKeeps ==
  ASSUME RemapInv, MainGoesOn
  PROVE  UNCHANGED <<frames, queue, injected>>
<1> USE Names3
<1>1. ASSUME OnSource, UNCHANGED <<frames, queue>> PROVE UNCHANGED <<frames, queue, injected>>
  BY <1>1 DEF OnSource, outVars
<1>2. CASE Query \/ GrabSource
  BY <1>1, <1>2 DEF Query, GrabSource, IoctlCall, Control, ControlRefused, inputVars
<1>3. CASE Read
  BY <1>1, <1>3 DEF Read, ReadOne, ReadOf, inputVars
<1>4. CASE QueryFails \/ CreateFails \/ Grabbed \/ Undone \/ Map \/ ReadFails \/ PutFails
  <2>1. OnNeither
    BY <1>4 DEF QueryFails, CreateFails, Grabbed, Undone, Map, ReadFails, PutFails
  <2> QED  BY <1>1, <2>1 DEF OnNeither, OnOutput, deviceVars, inputVars
<1>5. CASE CreateOutput \/ GrabFails \/ Put
  <2>1. \E e : VP!CreateOpen(Main) \/ VP!WriteBegin(Main, e) \/ VP!CloseOut(Main)
    BY <1>5, SameCall DEF CreateOutput, GrabFails, Put
  <2>2. UNCHANGED injected /\ OnOutput
    BY <1>5, <2>1, OutBeginsNothing DEF CreateOutput, GrabFails, Put
  <2> QED  BY <2>2 DEF OnOutput, deviceVars, inputVars
<1> QED  BY <1>2, <1>3, <1>4, <1>5 DEF MainGoesOn

LEMMA StreamMain ==
  ASSUME MapsToCaps, StreamAll, [Work]_workVars, MainGoesOn
  PROVE  StreamInv'
<1> USE Names3 DEF StreamAll
<1>1. /\ UNCHANGED frames /\ queue'[Src] = queue[Src] /\ CameOut' = CameOut /\ (Gets' => Gets)
  BY MainKeeps, GetsBefore DEF CameOut
<1>2. SUFFICES (Dead => Dead') /\ (~Dead' => Flight' = Flight)
  BY <1>1, StreamKeeps
<1>3. todo \in Seq(OutType)
  BY FlightType
<1>4. CASE Query \/ QueryFails \/ CreateFails \/ GrabSource \/ Grabbed \/ Undone
  <2>1. /\ rpc \notin {"read", "put", "eof", "error"} /\ rpc' \notin {"read", "put", "eof", "error"}
        /\ todo' = todo /\ OnSource
    BY <1>4 DEF Query, QueryFails, CreateFails, GrabSource, Grabbed, Undone, Goto, OnNeither
  <2> QED  BY <2>1 DEF Dead, Flight, Writing, OnSource, outVars
<1>5. CASE CreateOutput \/ GrabFails
  <2>1. /\ rpc \notin {"read", "put", "eof", "error"} /\ rpc' \notin {"read", "put", "eof", "error"}
        /\ todo' = todo
    BY <1>5 DEF CreateOutput, GrabFails, Goto
  <2>2. VP!CreateOpen(Main) \/ VP!CloseOut(Main)
    BY <1>5, SameCall DEF CreateOutput, GrabFails
  <2>3. vat[Main] \notin InWrite /\ vat'[Main] \notin InWrite
    BY <2>2, OutBegins DEF RemapInv, InWrite
  <2> QED  BY <2>1, <2>3 DEF Dead, Flight, Writing
<1>6. CASE Read
  <2>1. /\ ~Dead /\ rpc # "read" /\ rpc' = "read" /\ todo = <<>> /\ vat[Main] = "idle"
    BY <1>6, RemapperAssumption DEF Read, Between, OutGave, Dead, RemapInv, OutCalls, CloseInv, Enders
  <2>2. at'[Main] = "locking"
    BY <1>6 DEF Read, ReadOne, ReadOf, Begin, RemapInv, Inv, DeviceTypeOK
  <2>3. <<>> \o todo = <<>>
    BY <1>3, <2>1, ConcatEmptySeq
  <2> QED  BY <2>1, <2>2, <2>3 DEF Flight, Writing, InWrite, SrcGave
<1>7. CASE Map
  <2>1. /\ rpc = "read" /\ rpc' = "mapped" /\ SrcGave(Main, "ok") /\ todo' = Emitted(Head(got[Main]))
        /\ vat[Main] = "idle" /\ vat' = vat
    BY <1>7, RemapperAssumption
       DEF Map, Goto, OnNeither, OnSource, outVars, RemapInv, OutCalls, CloseInv, Enders
  <2>2. ~Dead /\ Flight = Emitted(Head(got[Main])) /\ Flight' = <<>> \o todo'
    BY <2>1 DEF Dead, Flight, Writing, InWrite
  <2>3. todo' \in Seq(OutType)
    BY <2>1, <2>2, FlightType
  <2>4. <<>> \o todo' = todo'
    BY <2>3, ConcatEmptySeq
  <2> QED  BY <2>1, <2>2, <2>4
<1>8. CASE ReadFails \/ PutFails
  BY <1>8 DEF ReadFails, PutFails, Goto, Dead
<1>9. CASE Put
  <2>1. /\ ~Dead /\ rpc # "read" /\ rpc' = "put" /\ todo # <<>> /\ todo' = Tail(todo)
        /\ vat[Main] = "idle" /\ VP!WriteBegin(Main, Head(todo))
    BY <1>9, SameCall, RemapperAssumption
       DEF Put, Between, OutGave, Dead, RemapInv, OutCalls, CloseInv, Enders
  <2>2. Flight = todo
    <3>1. <<>> \o todo = todo
      BY <1>3, ConcatEmptySeq
    <3> QED  BY <2>1, <3>1 DEF Flight, Writing, InWrite
  <2>3. CASE vat'[Main] = "locking" /\ vev'[Main] = Head(todo)
    <3>1. Flight' = <<Head(todo)>> \o Tail(todo)
      BY <2>1, <2>3 DEF Flight, Writing, InWrite
    <3>2. todo = <<Head(todo)>> \o Tail(todo)
      BY <1>3, <2>1
    <3> QED  BY <2>1, <2>2, <3>1, <3>2
  <2>4. CASE vat'[Main] = "idle" /\ vret'[Main] # "ok"
    BY <2>1, <2>4 DEF Dead
  <2> QED  BY <2>1, <2>3, <2>4, OutBeginsNothing
<1> QED  BY <1>4, <1>5, <1>6, <1>7, <1>8, <1>9 DEF MainGoesOn

\* A step of the close, or of Macro, moves nothing of the stream.
LEMMA StreamAside ==
  ASSUME StreamAll, [Work]_workVars, NEW t \in Threads,
         UNCHANGED <<rpc, todo>>, t = Main => rpc \in {"eof", "error"},
         \A u \in Threads \ {t} : at'[u] = at[u] /\ ret'[u] = ret[u] /\ got'[u] = got[u],
         \A u \in Threads \ {t} : vat'[u] = vat[u] /\ vret'[u] = vret[u] /\ vev'[u] = vev[u],
         UNCHANGED <<frames, queue, injected>>
  PROVE  StreamInv'
<1> USE Names3 DEF StreamAll
<1>1. /\ UNCHANGED frames /\ queue'[Src] = queue[Src] /\ CameOut' = CameOut /\ (Gets' => Gets)
  BY GetsBefore DEF CameOut
<1>2. CASE t = Main
  BY <1>1, <1>2, StreamKeeps DEF Dead
<1>3. CASE t # Main
  <2>1. /\ at'[Main] = at[Main] /\ ret'[Main] = ret[Main] /\ got'[Main] = got[Main]
        /\ vat'[Main] = vat[Main] /\ vret'[Main] = vret[Main] /\ vev'[Main] = vev[Main]
    BY <1>3
  <2>2. (Dead => Dead') /\ Flight' = Flight
    BY <2>1 DEF Dead, Flight, Writing, SrcGave
  <2> QED  BY <1>1, <2>2, StreamKeeps
<1> QED  BY <1>2, <1>3

LEMMA StreamCloses ==
  ASSUME StreamAll, [Work]_workVars, NEW t \in Enders, CloseUngrab(t) \/ CloseGoesOn(t)
  PROVE  StreamInv'
<1> USE Names3 DEF StreamAll
<1>1. t \in Threads /\ UNCHANGED <<rpc, todo>>
  BY DEF Enders, CloseUngrab, CloseGoesOn, CloseJoin, CloseOutput, CloseDone, CloseSource, Closing
<1>2. t = Main => rpc \in {"eof", "error"}
  BY RemapperAssumption DEF Enders, RemapInv, CloseInv, CloseUngrab, CloseGoesOn, CloseJoin,
     CloseOutput, CloseDone, CloseSource, Closing, MayClose
<1>3. ASSUME OnSource
      PROVE  /\ \A u \in Threads \ {t} : vat'[u] = vat[u] /\ vret'[u] = vret[u] /\ vev'[u] = vev[u]
             /\ UNCHANGED injected
  BY <1>3 DEF OnSource, outVars
<1>4. ASSUME OnOutput
      PROVE  /\ \A u \in Threads \ {t} : at'[u] = at[u] /\ ret'[u] = ret[u] /\ got'[u] = got[u]
             /\ UNCHANGED <<frames, queue>>
  BY <1>4 DEF OnOutput, deviceVars, inputVars, callVars
<1>5. CASE CloseUngrab(t)
  <2>1. IoctlCall(t, "Ungrab") /\ once # "done" /\ OnSource
    BY <1>5 DEF CloseUngrab
  <2>2. /\ \A u \in Threads \ {t} : at'[u] = at[u] /\ ret'[u] = ret[u] /\ got'[u] = got[u]
        /\ UNCHANGED <<frames, queue>>
    BY <1>1, <2>1, IoctlBegins DEF inputVars
  <2> QED  BY <1>1, <1>2, <1>3, <2>1, <2>2, StreamAside
<1>6. CASE CloseSource(t)
  <2>1. Close(t, Src) /\ OnSource
    BY <1>6 DEF CloseSource
  <2>2. /\ \A u \in Threads \ {t} : at'[u] = at[u] /\ ret'[u] = ret[u] /\ got'[u] = got[u]
        /\ UNCHANGED <<frames, queue>>
    BY <1>1, <2>1, SourceCloses DEF inputVars
  <2> QED  BY <1>1, <1>2, <1>3, <2>1, <2>2, StreamAside
<1>7. CASE CloseJoin(t) \/ CloseDone(t)
  <2>1. OnNeither
    BY <1>7 DEF CloseJoin, CloseDone
  <2> QED  BY <1>1, <1>2, <1>3, <1>4, <2>1, StreamAside DEF OnNeither
<1>8. CASE CloseOutput(t)
  <2>1. VP!CloseOut(t) /\ OnOutput
    BY <1>8, SameCall DEF CloseOutput
  <2>2. /\ \A u \in Threads \ {t} : vat'[u] = vat[u] /\ vret'[u] = vret[u] /\ vev'[u] = vev[u]
        /\ UNCHANGED injected
    BY <1>1, <2>1, OutBegins, OutBeginsNothing DEF RemapInv
  <2> QED  BY <1>1, <1>2, <1>4, <2>1, <2>2, StreamAside
<1> QED  BY <1>5, <1>6, <1>7, <1>8 DEF CloseGoesOn

LEMMA StreamMacro ==
  ASSUME StreamAll, [Work]_workVars, MacroWrites
  PROVE  StreamInv'
<1> USE Names3 DEF StreamAll
<1>1. VP!WriteBegin(Macro, Batch[mpos + 1]) /\ OnOutput /\ UNCHANGED <<rpc, todo>>
  BY SameCall DEF MacroWrites
<1>2. /\ \A u \in Threads \ {Macro} : vat'[u] = vat[u] /\ vret'[u] = vret[u] /\ vev'[u] = vev[u]
      /\ UNCHANGED injected
  BY <1>1, OutBegins, OutBeginsNothing DEF RemapInv
<1>3. /\ \A u \in Threads \ {Macro} : at'[u] = at[u] /\ ret'[u] = ret[u] /\ got'[u] = got[u]
      /\ UNCHANGED <<frames, queue>>
  BY <1>1 DEF OnOutput, deviceVars, inputVars, callVars
<1> QED  BY <1>1, <1>2, <1>3, RemapperAssumption, StreamAside

LEMMA StreamStep ==
  ASSUME MapsToCaps, StreamAll, [Work]_workVars,
         frames' # frames => Len(queue[Src]) + 2 <= EvLimit
  PROVE  StreamInv'
<1> USE DEF StreamAll
<1>1. CASE World
  <2>1. CASE Emit
    <3>1. frames' # frames
      BY <2>1 DEF Emit, RemapInv, Inv, DeviceTypeOK
    <3> QED  BY <1>1, <2>1, <3>1, StreamEmit
  <2>2. CASE Unplug
    <3>1. /\ UNCHANGED <<frames, queue, rpc, todo>> /\ UNCHANGED <<at, ret, got>>
          /\ UNCHANGED <<vat, vret, vev, injected>>
      BY <1>1, <2>2 DEF World, Unplug, OnSource, outVars, remapVars, callVars
    <3>2. Macro \in Threads /\ Macro # Main
      BY RemapperAssumption
    <3> QED  BY <3>1, <3>2, StreamAside
  <2> QED  BY <1>1, <2>1, <2>2 DEF World
<1>2. CASE UNCHANGED workVars
  <2>1. Macro \in Threads /\ Macro # Main
    BY RemapperAssumption
  <2> QED  BY <1>2, <2>1, StreamAside DEF workVars, deviceVars, inputVars, callVars, outVars, remapVars
<1> QED  BY <1>1, <1>2, StreamCalls, StreamMain, StreamCloses, StreamMacro DEF Work, Enders

LEMMA StreamInit ==
  ASSUME RemapInit
  PROVE  StreamAll /\ frames = 0 /\ CameOut = <<>>
<1> USE Names3, DeviceAssumption DEF RemapInit, DeviceOpened
<1>1. frames = 0 /\ queue[Src] = <<>> /\ rpc = "query" /\ todo = <<>>
  OBVIOUS
<1>2. injected = <<>> /\ vat = [t \in Threads |-> "idle"]
  BY DEF Out!VirtualInit
<1>3. CameOut = <<>>
  BY <1>2, FromSourceEmpty DEF CameOut
<1>4. ~Dead /\ Flight = <<>> \o <<>>
  BY <1>1, <1>2 DEF Dead, Flight, Writing, InWrite
<1>5. <<>> \o (<<>> \o <<>>) = <<>>
  <2>1. <<>> \in Seq({})
    OBVIOUS
  <2> QED  BY <2>1, ConcatEmptySeq
<1>6. Came(CameOut \o Flight, 0)
  <2>1. 0 \in 0..MaxFrames /\ 0 = 2 * 0
    OBVIOUS
  <2>2. CameOut \o Flight = Stream!Whole[0]
    BY <1>3, <1>4, <1>5, WholeUnfold
  <2> QED  BY <2>1, <2>2 DEF Came
<1>7. StreamInv
  <2>1. 0 \in 0..frames /\ 0 \in Nat /\ 0 + Len(queue[Src]) = 2 * 0 /\ (Gets => 0 = frames)
        /\ Follows(queue[Src], 0)
    BY <1>1 DEF Follows
  <2> QED  BY <1>4, <1>6, <2>1 DEF StreamInv
<1>8. ClientInv
  BY <1>2 DEF ClientInv, InWrite
<1> QED  BY <1>1, <1>3, <1>7, <1>8, RemapInvInit DEF StreamAll

\* A step makes a frame, or puts out at most the next event of those made.
LEMMA OutStep ==
  ASSUME RemapInv, [Work]_workVars
  PROVE  \/ UNCHANGED <<frames, CameOut>>
         \/ frames' = frames + 1 /\ frames < MaxFrames /\ CameOut' = CameOut
         \/ frames' = frames /\ \E e : CameOut' = Append(CameOut, e)
<1> USE Names3
<1>1. ASSUME UNCHANGED <<frames, injected>> PROVE UNCHANGED <<frames, CameOut>>
  BY <1>1 DEF CameOut
<1>2. CASE World
  BY <1>2 DEF World, Emit, Unplug, OnSource, outVars, CameOut
<1>3. ASSUME NEW t \in Threads, CallProceeds(t), OnSource PROVE UNCHANGED <<frames, CameOut>>
  <2>1. CASE Proceed(t)
    BY <1>1, <1>3, <2>1, CallMoves DEF RemapInv, OnSource, outVars
  <2>2. CASE UNCHANGED deviceVars
    BY <1>1, <1>3, <2>2 DEF OnSource, outVars, deviceVars, inputVars
  <2> QED  BY <1>3, <2>1, <2>2 DEF CallProceeds, OnOutput
<1>4. ASSUME NEW t \in Threads, VP!VProceed(t), OnOutput
      PROVE  frames' = frames /\ (CameOut' = CameOut \/ \E e : CameOut' = Append(CameOut, e))
  <2>1. frames' = frames
    BY <1>4 DEF OnOutput, deviceVars, inputVars
  <2>2. injected' = injected \/ injected' = Append(injected, vev[t])
    BY <1>4 DEF VP!VProceed, VP!Enable, VP!Setup, VP!Create, VP!CreateDone, VP!GiveUp, VP!WriteLock,
       VP!WriteDone, VP!CloseFd, VP!Destroy, VP!CloseFile, VP!SetNil
  <2>3. injected \in Seq(OutType) /\ vev[t] \in OutType
    BY FlightType
  <2>4. injected' = Append(injected, vev[t]) =>
          CameOut' = CameOut \/ CameOut' = Append(CameOut, vev[t])
    BY <2>3, FromSourceAppend DEF CameOut
  <2> QED  BY <2>1, <2>2, <2>4 DEF CameOut
<1>5. ASSUME NEW t \in Threads, CallProceeds(t)
      PROVE  \/ UNCHANGED <<frames, CameOut>>
             \/ frames' = frames /\ \E e : CameOut' = Append(CameOut, e)
  BY <1>3, <1>4, <1>5, SameProceed DEF CallProceeds
<1>6. CASE MainGoesOn
  BY <1>1, <1>6, MainKeeps
<1>7. ASSUME NEW t \in Enders, CloseUngrab(t) \/ CloseGoesOn(t) PROVE UNCHANGED <<frames, injected>>
  <2>1. t \in Threads
    BY DEF Enders
  <2>2. CASE CloseUngrab(t)
    BY <2>1, <2>2, IoctlBegins DEF CloseUngrab, OnSource, outVars, inputVars
  <2>3. CASE CloseSource(t)
    BY <2>1, <2>3, SourceCloses DEF CloseSource, OnSource, outVars, inputVars
  <2>4. CASE CloseJoin(t) \/ CloseDone(t)
    BY <2>4 DEF CloseJoin, CloseDone, OnNeither, OnSource, OnOutput, outVars, deviceVars, inputVars
  <2>5. CASE CloseOutput(t)
    BY <2>1, <2>5, SameCall, OutBeginsNothing DEF CloseOutput, OnOutput, deviceVars, inputVars
  <2> QED  BY <1>7, <2>2, <2>3, <2>4, <2>5 DEF CloseGoesOn
<1>8. CASE MacroWrites
  <2>1. VP!WriteBegin(Macro, Batch[mpos + 1]) /\ OnOutput
    BY <1>8, SameCall DEF MacroWrites
  <2>2. UNCHANGED injected
    BY <2>1, OutBeginsNothing
  <2> QED  BY <1>1, <2>1, <2>2 DEF OnOutput, deviceVars, inputVars
<1>9. CASE UNCHANGED workVars
  BY <1>1, <1>9 DEF workVars, deviceVars, inputVars, outVars
<1> QED  BY <1>1, <1>2, <1>5, <1>6, <1>7, <1>8, <1>9 DEF Work, Enders

\* The output gives out what the source's frames become, in order, with nothing
\* left out, repeated or invented, across the macros, Close and unplugging: the
\* remapper implements RemapStream, whenever MapFunc uses the keys that the
\* output has and the queue of the source has room for what is made.
THEOREM StreamKept ==
  ASSUME MapsToCaps
  PROVE  RemapSafety /\ NoOverflow => ImplementsStream
<1>1. RemapInit => StreamAll /\ frames = 0 /\ CameOut = <<>>
  BY StreamInit
<1>2. /\ StreamAll /\ [RemapNext]_allVars
      /\ [frames' # frames => Len(queue[Src]) + 2 <= EvLimit]_allVars
      => StreamAll'
  <2>1. UNCHANGED allVars => frames' = frames
    BY DEF allVars, workVars, deviceVars, inputVars
  <2>2. RemapInv /\ [Work]_workVars => RemapInv'
    BY DevicesKeep, ControlStep, CloseStep, SrcCallsStep, SrcEventsStep, GrabStep, OutCallsStep,
       OutInvStep DEF RemapInv
  <2> QED  BY <2>1, <2>2, WorkOnly, StreamStep, ClientStep DEF StreamAll
<1>3. StreamAll => OutBegun
  BY OutBeginsWhole DEF StreamAll, OutBegun
<1>4. StreamAll /\ OutBegun' /\ [RemapNext]_allVars
      => [Stream!Make \/ Stream!Put]_(Stream!streamVars)
  <2> SUFFICES ASSUME StreamAll, OutBegun', [Work]_workVars
               PROVE  [Stream!Make \/ Stream!Put]_(Stream!streamVars)
    BY WorkOnly
  <2>1. CASE UNCHANGED <<frames, CameOut>>
    BY <2>1 DEF Stream!streamVars, CameOut
  <2>2. CASE frames' = frames + 1 /\ frames < MaxFrames /\ CameOut' = CameOut
    BY <2>2 DEF Stream!Make, CameOut
  <2>3. ASSUME frames' = frames, NEW e, CameOut' = Append(CameOut, e) PROVE Stream!Put
    <3> DEFINE w == Stream!Whole[frames]
               n == Len(CameOut) + 1
    <3>1. Begins(CameOut', w)
      BY <2>3 DEF OutBegun
    <3>2. CameOut \in Seq(OutType)
      BY FlightType DEF StreamAll
    <3>3. Len(CameOut) \in Nat
      BY <3>2, LenProperties
    <3>4. Len(CameOut') = n /\ CameOut'[n] = e
      <4> DEFINE E == OutType \cup {e}
      <4>1. CameOut \in Seq(E) /\ e \in E
        BY <3>2, SeqMonotonic
      <4> HIDE DEF E
      <4> QED  BY <2>3, <4>1, AppendProperties
    <3>5. Len(w) \in Nat
      <4>1. frames \in 0..MaxFrames
        BY DEF StreamAll, RemapInv, Inv, DeviceTypeOK
      <4>2. w \in Seq(OutEvent)
        BY <4>1, WholeType
      <4> QED  BY <4>2, LenProperties
    <3>6. n <= Len(w) /\ e = w[n]
      <4> HIDE DEF w
      <4>1. n <= Len(w) /\ CameOut'[n] = w[n]
        BY <3>1, <3>3, <3>4, <3>5 DEF Begins
      <4> QED  BY <3>4, <4>1
    <3>7. Len(CameOut) < Len(w)
      BY <3>3, <3>5, <3>6
    <3> QED  BY <2>3, <3>6, <3>7 DEF Stream!Put, CameOut
  <2> QED  BY <2>1, <2>2, <2>3, OutStep DEF StreamAll
<1> QED  BY <1>1, <1>2, <1>3, <1>4, PTL
          DEF RemapSafety, NoOverflow, ImplementsStream, Stream!StreamSafety, CameOut
-----------------------------------------------------------------------------
(* The output, within the remapper.                                        *)

\* NewRemapper, Run, Macro and Close together use the virtual device as one is
\* used by itself: it is created once, only the goroutines that may close it do,
\* and what is proved of VirtualDevice on its own holds of the remapper's.
THEOREM OutputUsedRight == RemapSafety => VP!VirtualSafety
<1>1. RemapInit => VP!VirtualInit
  BY DEF RemapInit, Out!VirtualInit, VP!VirtualInit, Out!Marker, VP!Marker
<1>2. RemapInv /\ [RemapNext]_allVars => [VP!VirtualNext]_(VP!virtualVars)
  BY WorkOnly, OutputSteps DEF RemapInv
<1> QED  BY <1>1, <1>2, RemapInvariance, PTL DEF RemapSafety, VP!VirtualSafety
=============================================================================

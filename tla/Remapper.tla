------------------------------ MODULE Remapper ------------------------------
(***************************************************************************)
(* The Remapper of remapper.go, a Device and a VirtualDevice joined, in    *)
(* the program that examples/remap is.  Main makes the remapper with       *)
(* NewRemapper, is in Run until it returns, and if that was nil closes the *)
(* remapper and the source.  Ctl does the two closes when the user asks    *)
(* for it.  Macro writes a batch of its own to Output().                   *)
(*                                                                         *)
(* The process ends when Main returns, and at once, by os.Exit, when       *)
(* NewRemapper or Run has returned an error: nothing deferred runs then,   *)
(* and the other goroutines stop where they are.  What they leave open the *)
(* kernel closes, which is not modelled.                                   *)
(*                                                                         *)
(* Each of them is a sequence of calls; rpc and cpc name the one that is   *)
(* in progress, and the calls proceed as Device and VirtualDevice say.     *)
(***************************************************************************)
EXTENDS Device

CONSTANTS
  Src,               \* the file of the source device
  Main, Ctl, Macro,  \* the goroutines
  SourceCaps,        \* the codes the source has, by type
  ExtraCaps,         \* those of WithExtraKeys and WithExtraCapabilities
  MapFn,             \* what MapFunc makes of the key of every frame
  Batch              \* what Macro writes: events of frame 0

VARIABLES
  kdev, enabled, injected, vptr, vfile, vat, vev, vfd, vret,  \* VirtualDevice
  rpc,     \* where Main is in NewRemapper and Run
  asked,   \* how many of the queries of NewRemapper were made
  todo,    \* what MapFunc returned and Run has not written
  once,    \* closeOnce: "free", "busy" or "done"
  cpc,     \* where a goroutine is in closing the remapper and the source
  mpos,    \* how much of Batch was written
  ended    \* whether the process has ended

ASSUME RemapperAssumption ==
  /\ Src \in Files
  /\ Threads = {Main, Ctl, Macro}
  /\ Main # Ctl /\ Main # Macro /\ Ctl # Macro
  /\ MapFn \in [1..MaxFrames -> Seq(STRING)]
  /\ Batch \in Seq([type : STRING, code : STRING, frame : {0}])
  /\ DOMAIN SourceCaps = {"EV_KEY", "EV_REL", "EV_MSC", "PROP"}
  /\ DOMAIN ExtraCaps = DOMAIN SourceCaps

\* What of the events comes from the source: those of Macro are of frame 0.
FromSource(s) ==
  LET f[n \in 0..Len(s)] ==
        IF n = 0 THEN <<>>
        ELSE IF s[n].frame # 0 THEN Append(f[n - 1], s[n]) ELSE f[n - 1]
  IN f[Len(s)]

Stream == INSTANCE RemapStream WITH
  made <- frames,
  out  <- FromSource(injected)

\* Mutant: the extra capabilities are not merged.
SourceCapsOnly(a, b) == a

mergeCaps(a, b) == [t \in DOMAIN a |-> a[t] \cup b[t]]

Caps == mergeCaps(SourceCaps, ExtraCaps)

ToWrite == {Stream!Whole[MaxFrames][i] : i \in DOMAIN Stream!Whole[MaxFrames]}
           \cup {Batch[i] : i \in DOMAIN Batch}
           \cup {[type |-> "EV_SYN", code |-> "SYN_DROPPED", frame |-> 0]}

Out == INSTANCE VirtualDevice WITH
  Closers   <- {Main, Ctl},
  OutEvents <- ToWrite,
  MaxInject <- Len(Stream!Whole[MaxFrames]) + Len(Batch)

outVars   == <<kdev, enabled, injected, vptr, vfile, vat, vev, vfd, vret>>
remapVars == <<rpc, asked, todo, once, cpc, mpos>>
workVars  == <<deviceVars, outVars, remapVars>>
allVars   == <<workVars, ended>>

\* Which of the two devices a step leaves alone.
OnSource == UNCHANGED outVars
OnOutput == UNCHANGED deviceVars
OnNeither == OnSource /\ OnOutput

\* The call of the goroutine on the source, on the output, has returned this.
SrcGave(t, r) == at[t] = "idle" /\ ret[t] = r
OutGave(t, r) == vat[t] = "idle" /\ vret[t] = r

Goto(from, to) == rpc = from /\ rpc' = to
-----------------------------------------------------------------------------
(* NewRemapper.                                                            *)

\* CapableCodes of three types, CapableProps and ID: an ioctl each.
Queries == 5

IoctlCall(t, op) == Control(t, Src, op) \/ ControlRefused(t, Src)

Query ==
  /\ Goto("query", "query")
  /\ asked < Queries
  /\ asked = 0 \/ SrcGave(Main, "ok")
  /\ asked' = asked + 1
  /\ IoctlCall(Main, "Query")
  /\ OnSource
  /\ UNCHANGED <<todo, once, cpc, mpos>>

QueryFails ==
  /\ Goto("query", "failed")
  /\ asked > 0
  /\ at[Main] = "idle" /\ ret[Main] # "ok"
  /\ OnNeither
  /\ UNCHANGED <<asked, todo, once, cpc, mpos>>

CreateOutput ==
  /\ Goto("query", "create")
  /\ asked = Queries /\ SrcGave(Main, "ok")
  /\ Out!CreateOpen(Main)
  /\ OnOutput
  /\ UNCHANGED <<asked, todo, once, cpc, mpos>>

CreateFails ==
  /\ Goto("create", "failed")
  /\ OutGave(Main, "ErrCreate")
  /\ OnNeither
  /\ UNCHANGED <<asked, todo, once, cpc, mpos>>

GrabSource ==
  /\ Goto("create", "grab")
  /\ OutGave(Main, "ok")
  /\ IoctlCall(Main, "Grab")
  /\ OnSource
  /\ UNCHANGED <<asked, todo, once, cpc, mpos>>

\* Mutant: the error of Grab is not looked at.
GrabIgnored ==
  /\ Goto("grab", "ready")
  /\ at[Main] = "idle"
  /\ OnNeither
  /\ UNCHANGED <<asked, todo, once, cpc, mpos>>

Grabbed ==
  /\ Goto("grab", "ready")
  /\ SrcGave(Main, "ok")
  /\ OnNeither
  /\ UNCHANGED <<asked, todo, once, cpc, mpos>>

\* Mutant: the output is not closed when the source cannot be grabbed.
GrabFailsLeaving ==
  /\ Goto("grab", "failed")
  /\ at[Main] = "idle" /\ ret[Main] # "ok"
  /\ OnNeither
  /\ UNCHANGED <<asked, todo, once, cpc, mpos>>

GrabFails ==
  /\ Goto("grab", "undo")
  /\ at[Main] = "idle" /\ ret[Main] # "ok"
  /\ Out!CloseOut(Main)
  /\ OnOutput
  /\ UNCHANGED <<asked, todo, once, cpc, mpos>>

Undone ==
  /\ Goto("undo", "failed")
  /\ OutGave(Main, "closed")
  /\ OnNeither
  /\ UNCHANGED <<asked, todo, once, cpc, mpos>>

\* NewRemapper has returned a remapper, and Run has not returned, with nil ("eof") or
\* another error.
Running == rpc \in {"ready", "read", "mapped", "put"}
Made == Running \/ rpc \in {"eof", "error"}
-----------------------------------------------------------------------------
(* Run.                                                                    *)

\* The last call has succeeded and Run is about to make another.
Between == rpc \in {"ready", "mapped"} \/ (rpc = "put" /\ OutGave(Main, "ok"))

Read ==
  /\ Between /\ todo = <<>>
  /\ rpc' = "read"
  /\ ReadOne(Main, Src)
  /\ OnSource
  /\ UNCHANGED <<asked, todo, once, cpc, mpos>>

\* The markers of the source are written as they are.
Verbatim(e) ==
  IF e = Dropped THEN [type |-> "EV_SYN", code |-> "SYN_DROPPED", frame |-> 0]
                 ELSE Stream!FrameEnd(e.frame)

\* Mutant: markers go to MapFunc like any event, and one that knows only keys
\* drops them.
EverythingMapped(e) == IF e.kind = "KEY" THEN Stream!Mapped(e.frame) ELSE <<>>

Emitted(e) == IF e.kind = "KEY" THEN Stream!Mapped(e.frame) ELSE <<Verbatim(e)>>

Map ==
  /\ Goto("read", "mapped")
  /\ SrcGave(Main, "ok")
  /\ todo' = Emitted(Head(got[Main]))
  /\ OnNeither
  /\ UNCHANGED <<asked, once, cpc, mpos>>

\* Mutant: an error that is not io.EOF is taken for a passing one.
ReadRetries ==
  /\ rpc = "read"
  /\ at[Main] = "idle" /\ ret[Main] # "ok"
  /\ rpc' = IF ret[Main] = "EOF" THEN "eof" ELSE "ready"
  /\ OnNeither
  /\ UNCHANGED <<asked, todo, once, cpc, mpos>>

\* Of io.EOF, Run makes nil.
ReadFails ==
  /\ Goto("read", IF ret[Main] = "EOF" THEN "eof" ELSE "error")
  /\ at[Main] = "idle" /\ ret[Main] # "ok"
  /\ OnNeither
  /\ UNCHANGED <<asked, todo, once, cpc, mpos>>

Put ==
  /\ Between /\ todo # <<>>
  /\ rpc' = "put"
  /\ todo' = Tail(todo)
  /\ Out!WriteBegin(Main, Head(todo))
  /\ OnOutput
  /\ UNCHANGED <<asked, once, cpc, mpos>>

PutFails ==
  /\ Goto("put", "error")
  /\ vat[Main] = "idle" /\ vret[Main] # "ok"
  /\ OnNeither
  /\ UNCHANGED <<asked, todo, once, cpc, mpos>>
-----------------------------------------------------------------------------
(* Close, and the close of the source that follows it.                     *)

Closing(t, from, to) ==
  /\ cpc[t] = from
  /\ cpc' = [cpc EXCEPT ![t] = to]
  /\ UNCHANGED <<rpc, asked, todo, mpos>>

\* Main's closes are deferred, and os.Exit does not run them.
MayClose(t) == (t = Ctl /\ Made) \/ (t = Main /\ rpc = "eof")

CloseUngrab(t) ==
  /\ Closing(t, "no", "ungrab")
  /\ MayClose(t)
  /\ once = "free"
  /\ once' = "busy"
  /\ IoctlCall(t, "Ungrab")
  /\ OnSource

\* The others wait in closeOnce for the one that closes.
CloseJoin(t) ==
  /\ Closing(t, "no", "over")
  /\ MayClose(t)
  /\ once = "done"
  /\ OnNeither
  /\ UNCHANGED once

\* Mutant: an error of Ungrab ends Close.
CloseShort(t) ==
  /\ Closing(t, "ungrab", "out")
  /\ at[t] = "idle"
  /\ \/ ret[t] = "ok" /\ Out!CloseOut(t)
     \/ ret[t] # "ok" /\ UNCHANGED outVars
  /\ OnOutput
  /\ UNCHANGED once

CloseOutput(t) ==
  /\ Closing(t, "ungrab", "out")
  /\ at[t] = "idle"
  /\ Out!CloseOut(t)
  /\ OnOutput
  /\ UNCHANGED once

\* Mutant: Close waits until Run has returned.
CloseAfterRun(t) ==
  /\ Closing(t, "out", "over")
  /\ vat[t] = "idle" /\ ~Running
  /\ once' = "done"
  /\ OnNeither

CloseDone(t) ==
  /\ Closing(t, "out", "over")
  /\ vat[t] = "idle"
  /\ once' = "done"
  /\ OnNeither

CloseSource(t) ==
  /\ Closing(t, "over", "gone")
  /\ Close(t, Src)
  /\ OnSource
  /\ UNCHANGED once
-----------------------------------------------------------------------------
(* The end of the process.                                                 *)

Alive == ~ended /\ UNCHANGED ended

\* os.Exit after an error of NewRemapper or of Run, and the end of main, which comes
\* when its deferred closes have returned; neither waits for other goroutines.
Exit ==
  /\ ~ended
  /\ rpc \in {"failed", "error"} \/ (cpc[Main] = "gone" /\ at[Main] = "idle")
  /\ ended' = TRUE
  /\ UNCHANGED workVars
-----------------------------------------------------------------------------
\* A client of Output() goes on with its batch while its writes succeed.
MacroWrites ==
  /\ Made
  /\ mpos < Len(Batch)
  /\ mpos = 0 \/ OutGave(Macro, "ok")
  /\ mpos' = mpos + 1
  /\ Out!WriteBegin(Macro, Batch[mpos + 1])
  /\ OnOutput
  /\ UNCHANGED <<rpc, asked, todo, once, cpc>>

World == (Emit \/ Unplug) /\ OnSource /\ UNCHANGED remapVars

CallProceeds(t) ==
  /\ \/ Proceed(t) /\ OnSource
     \/ Out!VProceed(t) /\ OnOutput
  /\ UNCHANGED remapVars

MainGoesOn ==
  \/ Query \/ QueryFails \/ CreateOutput \/ CreateFails
  \/ GrabSource \/ Grabbed \/ GrabFails \/ Undone
  \/ Read \/ Map \/ ReadFails \/ Put \/ PutFails

CloseGoesOn(t) == CloseJoin(t) \/ CloseOutput(t) \/ CloseDone(t) \/ CloseSource(t)

RemapInit ==
  /\ DeviceOpened
  /\ grab # Src
  /\ on = [t \in Threads |-> Src]
  /\ Out!VirtualInit
  /\ rpc = "query"
  /\ asked = 0
  /\ todo = <<>>
  /\ once = "free"
  /\ cpc = [t \in {Main, Ctl} |-> "no"]
  /\ mpos = 0
  /\ ended = FALSE

Work ==
  \/ World
  \/ \E t \in Threads : CallProceeds(t)
  \/ MainGoesOn
  \/ \E t \in {Main, Ctl} : CloseUngrab(t) \/ CloseGoesOn(t)
  \/ MacroWrites

RemapNext == (Alive /\ Work) \/ Exit

RemapSafety == RemapInit /\ [][RemapNext]_allVars

MainWorks == CallProceeds(Main) \/ MainGoesOn \/ CloseUngrab(Main) \/ CloseGoesOn(Main)
CtlWorks  == CallProceeds(Ctl) \/ (cpc[Ctl] # "no" /\ CloseGoesOn(Ctl))

\* Goroutines run, as long as the process does; the user need not ask for the close,
\* nor Macro write.
RemapSpec ==
  /\ RemapSafety
  /\ WF_allVars((Alive /\ MainWorks) \/ Exit)
  /\ WF_allVars(Alive /\ CtlWorks)
  /\ WF_allVars(Alive /\ CallProceeds(Macro))
-----------------------------------------------------------------------------
RemapTypeOK ==
  /\ DeviceTypeOK
  /\ Out!VirtualTypeOK
  /\ rpc \in {"query", "create", "grab", "undo", "failed", "ready", "read", "mapped",
              "put", "eof", "error"}
  /\ asked \in 0..Queries
  /\ todo \in Seq(ToWrite)
  /\ once \in {"free", "busy", "done"}
  /\ cpc \in [{Main, Ctl} -> {"no", "ungrab", "out", "over", "gone"}]
  /\ mpos \in 0..Len(Batch)
  /\ ended \in BOOLEAN

\* From the return of NewRemapper to the first Close of the remapper or of the
\* source, the source is grabbed (remapper.go:60-63), whoever had it before.
GrabbedWhileOpen ==
  Made /\ once = "free" /\ file[Src] = "open" => grab = Src

\* When NewRemapper fails it leaves no virtual device, no open descriptor and
\* no grab behind (remapper.go:83-90).
FailureUndone ==
  rpc = "failed" => kdev # "live" /\ vfile \in {"none", "closed"} /\ grab # Src

\* Close releases the source grab and destroys the virtual device
\* (remapper.go:127): for everyone whose Close has returned, the one that did
\* the work and the ones that waited, and whether or not Ungrab failed.
TeardownComplete ==
  \A t \in {Main, Ctl} : cpc[t] \in {"over", "gone"} =>
    kdev = "gone" /\ (plugged = "in" => grab # Src)

\* From then on nothing is injected, though Run and Macro may be in a Write.
NothingAfterClose == [][once = "done" => UNCHANGED injected]_allVars

\* What the source's events become is what RemapStream allows, if the queue of
\* the source never overflows: nothing is lost, repeated or out of order,
\* across the macros of others, Close and unplugging.
ImplementsStream == Stream!StreamSafety

\* To stop a running Run, Close the source device (remapper.go:101-102).
RunStops == file[Src] # "open" ~> ~Running

\* A process that ends because Run has returned nil has made both closes, which are
\* deferred in main; one that ends for an error may have made none.
EndsClosed == ended /\ rpc = "eof" => file[Src] # "open" /\ once = "done"

\* Ctrl-C stops it (examples/remap/main.go:12): once Ctl has begun to close, the
\* process ends, also when Run is in a read that nothing comes for, when its write
\* fails because the output is closed under it, and when Main has begun to close as
\* well; and so it does once Run has returned by itself.  Ctl's closes may be cut off by
\* that, but not those of Main.
TeardownEnds ==
  /\ cpc[Ctl] # "no" \/ rpc \in {"failed", "eof", "error"} ~> ended
  /\ []EndsClosed

\* Events of the source come out, unless the remapper or the source is closed
\* or unplugged, or is never there.
EventsComeOut ==
  \A n \in 1..MaxFrames :
    (frames >= n /\ Running)
      ~> \/ \E i \in DOMAIN injected : injected[i].type = "EV_SYN" /\ injected[i].frame = n
         \/ once # "free" \/ file[Src] # "open" \/ plugged = "out"

\* A batch that ends in a marker is delivered as one atomic packet
\* (uinput.go:150-151): no marker comes between two of its events.
BatchAtomic ==
  \A i, j \in DOMAIN injected :
    i < j /\ injected[i].frame = 0 /\ injected[j].frame = 0 =>
      \A k \in i..(j - 1) : injected[k].type # "EV_SYN"
=============================================================================

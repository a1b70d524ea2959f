------------------------------- MODULE Device -------------------------------
(***************************************************************************)
(* The Device of device.go: evdev files opened by Open, and goroutines     *)
(* that call ReadOne, Read, Grab, Ungrab, the queries, Fd and Close on     *)
(* them, several at a time.                                                *)
(*                                                                         *)
(* Two layers are external and modelled from how the code uses them.  The  *)
(* kernel: one input device, the queue it keeps for every open file, and   *)
(* the grab.  os.File: while a call is in progress it holds a reference,   *)
(* Close marks the file and turns away the goroutines parked in the        *)
(* poller, and the descriptor is closed with the last reference.           *)
(***************************************************************************)
EXTENDS Naturals, Sequences, FiniteSets

CONSTANTS
  Files,       \* the files opened on the device
  Threads,     \* goroutines
  FdFiles,     \* the files Fd may be called on
  None,        \* nobody has the grab
  BufEvents,   \* the length of the buffer given to Read
  EvLimit,     \* how many events the kernel queues for a file
  MaxFrames    \* bound on the frames the device produces

ASSUME DeviceAssumption ==
  /\ None \notin Files
  /\ FdFiles \subseteq Files
  /\ BufEvents \in Nat \ {0}
  /\ EvLimit \in Nat \ {0}
  /\ MaxFrames \in Nat

VARIABLES
  \* the kernel
  plugged,  \* "in" or "out"
  frames,   \* how many frames the device has produced
  direct,   \* the frames the rest of the system was given
  grab,     \* the file that has the grab, or None
  queue,    \* for every file, the events it has not read
  \* os.File
  file,     \* "open", "closing" with calls still in progress, "closed"
  mode,     \* "poller", or "blocking" after Fd
  \* the goroutines
  at,       \* where the call stands, "idle" between calls
  on,       \* the file it is about
  size,     \* how many events it asks for
  got,      \* the events it was given, until the next call
  ret       \* what it returned

inputVars  == <<plugged, frames, direct>>
fileVars   == <<file, mode>>
callVars   == <<at, on, size, got, ret>>
deviceVars == <<inputVars, grab, queue, fileVars, callVars>>

\* An event is known by its frame; a frame is a key followed by the marker.
Event(i, kind) == [frame |-> i, kind |-> kind]
Dropped == Event(0, "DROPPED")
Events == {Dropped} \cup [frame : Nat \ {0}, kind : {"KEY", "SYN"}]
-----------------------------------------------------------------------------
(* The input device.                                                       *)

\* A full queue is emptied: the marker of the loss and the newest event stay.
Push(q, e) == IF Len(q) < EvLimit THEN Append(q, e) ELSE <<Dropped, e>>

PushFrame(q, i) == Push(Push(q, Event(i, "KEY")), Event(i, "SYN"))

\* While a file has the grab, no other file and nobody else gets anything.
Emit ==
  /\ plugged = "in"
  /\ frames < MaxFrames
  /\ frames' = frames + 1
  /\ queue' = [f \in Files |->
                 IF file[f] # "closed" /\ grab \in {None, f}
                   THEN PushFrame(queue[f], frames + 1) ELSE queue[f]]
  /\ direct' = IF grab = None THEN direct \cup {frames + 1} ELSE direct
  /\ UNCHANGED <<plugged, grab, fileVars, callVars>>

Unplug ==
  /\ plugged = "in"
  /\ plugged' = "out"
  /\ UNCHANGED <<frames, direct, grab, queue, fileVars, callVars>>
-----------------------------------------------------------------------------
(* Calls on an os.File.                                                    *)

Holding == {"reading", "parked", "inread", "Grab", "Ungrab", "Query"}
Reading == {"reading", "parked", "inread"}

\* Mutant: an ioctl is made without a reference.
ReadersOnly(f) == {t \in Threads : on[t] = f /\ at[t] \in Reading}

\* The calls that hold a reference to the file.
Holders(f) == {t \in Threads : on[t] = f /\ at[t] \in Holding}

\* The call returns without having taken a reference.
Return(t, r) ==
  /\ at' = [at EXCEPT ![t] = "idle"]
  /\ ret' = [ret EXCEPT ![t] = r]

\* The kernel takes the grab back when the descriptor is closed.
GrabWithout(g, f) == IF g = f THEN None ELSE g

\* The call gives its reference back and returns; the last one of a file that
\* was closed meanwhile closes the descriptor.  g is who the call leaves the
\* grab to.
LastOne(t) == file[on[t]] = "closing" /\ Holders(on[t]) = {t}

Leave(t, r, g) ==
  /\ Return(t, r)
  /\ \/ /\ LastOne(t)
        /\ file' = [file EXCEPT ![on[t]] = "closed"]
        /\ grab' = GrabWithout(g, on[t])
     \/ /\ ~LastOne(t)
        /\ grab' = g
        /\ UNCHANGED file

Begin(t, f, step, n) ==
  /\ at[t] = "idle"
  /\ at' = [at EXCEPT ![t] = step]
  /\ on' = [on EXCEPT ![t] = f]
  /\ size' = [size EXCEPT ![t] = n]
  /\ got' = [got EXCEPT ![t] = <<>>]
  /\ ret' = [ret EXCEPT ![t] = "none"]

\* A call that is over at once.
AtOnce(t, f, r) ==
  /\ at[t] = "idle"
  /\ on' = [on EXCEPT ![t] = f]
  /\ size' = [size EXCEPT ![t] = 1]
  /\ got' = [got EXCEPT ![t] = <<>>]
  /\ ret' = [ret EXCEPT ![t] = r]
  /\ UNCHANGED at
-----------------------------------------------------------------------------
(* ReadOne and Read.                                                       *)

ReadOf(t, f, n) ==
  /\ Begin(t, f, "locking", n)
  /\ UNCHANGED <<inputVars, grab, queue, fileVars>>

ReadOne(t, f) == ReadOf(t, f, 1)

\* An empty buffer returns at once and is left out.
ReadMany(t, f) == ReadOf(t, f, BufEvents)

\* Reads of a file wait for each other.
ReadLock(t) ==
  /\ at[t] = "locking"
  /\ file[on[t]] = "open"
  /\ \A u \in Holders(on[t]) : at[u] \notin Reading
  /\ at' = [at EXCEPT ![t] = "reading"]
  /\ UNCHANGED <<inputVars, grab, queue, fileVars, on, size, got, ret>>

ReadRefused(t) ==
  /\ at[t] = "locking"
  /\ file[on[t]] # "open"
  /\ Return(t, "ErrClosed")
  /\ UNCHANGED <<inputVars, grab, queue, fileVars, on, size, got>>

\* Mutant: more is read than there is room for.
ReadTakesAll(t) ==
  /\ at[t] \in {"reading", "inread"}
  /\ plugged = "in"
  /\ queue[on[t]] # <<>>
  /\ got' = [got EXCEPT ![t] = queue[on[t]]]
  /\ queue' = [queue EXCEPT ![on[t]] = <<>>]
  /\ Leave(t, "ok", grab)
  /\ UNCHANGED <<inputVars, mode, on, size>>

\* read(2) has events to give: one for ReadOne, what there is for Read.
ReadTakes(t) ==
  LET q == queue[on[t]]
      n == IF Len(q) <= size[t] THEN Len(q) ELSE size[t]
  IN
  /\ at[t] \in {"reading", "inread"}
  /\ plugged = "in"
  /\ q # <<>>
  /\ got' = [got EXCEPT ![t] = SubSeq(q, 1, n)]
  /\ queue' = [queue EXCEPT ![on[t]] = SubSeq(q, n + 1, Len(q))]
  /\ Leave(t, "ok", grab)
  /\ UNCHANGED <<inputVars, mode, on, size>>

\* The device is gone: the end of the file or an error, by the kernel.
ReadEnds(t) ==
  /\ at[t] \in {"reading", "inread"}
  /\ plugged = "out"
  /\ \E r \in {"EOF", "ENODEV"} : Leave(t, r, grab)
  /\ UNCHANGED <<inputVars, queue, mode, on, size, got>>

\* Nothing to read: the goroutine parks, or, Fd having made the file blocking,
\* sits in read(2), where nothing but input gets it out.
ReadBlocks(t) ==
  /\ at[t] = "reading"
  /\ plugged = "in"
  /\ queue[on[t]] = <<>>
  /\ at' = [at EXCEPT ![t] = IF mode[on[t]] = "poller" THEN "parked" ELSE "inread"]
  /\ UNCHANGED <<inputVars, grab, queue, fileVars, on, size, got, ret>>

ReadWakes(t) ==
  /\ at[t] = "parked"
  /\ queue[on[t]] # <<>> \/ plugged = "out"
  /\ at' = [at EXCEPT ![t] = "reading"]
  /\ UNCHANGED <<inputVars, grab, queue, fileVars, on, size, got, ret>>

ReadEvicted(t) ==
  /\ at[t] = "parked"
  /\ file[on[t]] = "closing"
  /\ Leave(t, "ErrClosed", grab)
  /\ UNCHANGED <<inputVars, queue, mode, on, size, got>>
-----------------------------------------------------------------------------
(* control, and the ioctls that go through it.                             *)

Ioctls == {"Grab", "Ungrab", "Query"}

\* Mutant: the ioctl is made on the number Fd returns.
ControlWithFd(t, f, op) ==
  /\ file[f] = "open"
  /\ mode' = [mode EXCEPT ![f] = "blocking"]
  /\ Begin(t, f, op, 1)
  /\ UNCHANGED <<inputVars, grab, queue, file>>

Control(t, f, op) ==
  /\ file[f] = "open"
  /\ Begin(t, f, op, 1)
  /\ UNCHANGED <<inputVars, grab, queue, fileVars>>

ControlRefused(t, f) ==
  /\ file[f] # "open"
  /\ AtOnce(t, f, "ErrClosed")
  /\ UNCHANGED <<inputVars, grab, queue, fileVars>>

\* What the kernel answers, and who has the grab then.
IoctlGrab(t) ==
  \/ plugged = "in" /\ grab = None /\ Leave(t, "ok", on[t])
  \/ plugged = "in" /\ grab # None /\ Leave(t, "EBUSY", grab)

IoctlUngrab(t) ==
  \/ plugged = "in" /\ grab = on[t] /\ Leave(t, "ok", None)
  \/ plugged = "in" /\ grab # on[t] /\ Leave(t, "EINVAL", grab)

Ioctl(t) ==
  /\ \/ at[t] = "Grab" /\ IoctlGrab(t)
     \/ at[t] = "Ungrab" /\ IoctlUngrab(t)
     \/ at[t] = "Query" /\ plugged = "in" /\ Leave(t, "ok", grab)
     \/ at[t] \in Ioctls /\ plugged = "out" /\ Leave(t, "ENODEV", grab)
  /\ UNCHANGED <<inputVars, queue, mode, on, size, got>>
-----------------------------------------------------------------------------
(* Fd and Close.                                                           *)

Fd(t, f) ==
  /\ at[t] = "idle"
  /\ file[f] = "open"
  /\ mode' = [mode EXCEPT ![f] = "blocking"]
  /\ UNCHANGED <<inputVars, grab, queue, file, callVars>>

\* Nobody holds the file: its descriptor is closed.
CloseIdle(t, f) ==
  /\ file[f] = "open"
  /\ Holders(f) = {}
  /\ file' = [file EXCEPT ![f] = "closed"]
  /\ grab' = GrabWithout(grab, f)
  /\ AtOnce(t, f, "closed")
  /\ UNCHANGED <<inputVars, queue, mode>>

\* Calls are in progress: wait for the last of them to close the descriptor,
\* except that a blocking file is not waited for.
CloseBusy(t, f) ==
  /\ file[f] = "open"
  /\ Holders(f) # {}
  /\ file' = [file EXCEPT ![f] = "closing"]
  /\ \/ mode[f] = "poller" /\ Begin(t, f, "closing", 1)
     \/ mode[f] = "blocking" /\ AtOnce(t, f, "closed")
  /\ UNCHANGED <<inputVars, grab, queue, mode>>

CloseWaited(t) ==
  /\ at[t] = "closing"
  /\ file[on[t]] = "closed"
  /\ Return(t, "closed")
  /\ UNCHANGED <<inputVars, grab, queue, fileVars, on, size, got>>

\* A second Close, and a control of a closed file, get the same error.
Close(t, f) == CloseIdle(t, f) \/ CloseBusy(t, f) \/ ControlRefused(t, f)

\* The calls a goroutine can make, and how one it made goes on.
Call(t, f) ==
  \/ ReadOne(t, f) \/ ReadMany(t, f)
  \/ \E op \in Ioctls : Control(t, f, op)
  \/ f \in FdFiles /\ Fd(t, f)
  \/ Close(t, f)

Proceed(t) ==
  \/ ReadLock(t) \/ ReadRefused(t) \/ ReadTakes(t) \/ ReadEnds(t)
  \/ ReadBlocks(t) \/ ReadWakes(t) \/ ReadEvicted(t)
  \/ Ioctl(t)
  \/ CloseWaited(t)
-----------------------------------------------------------------------------
\* The files have been opened; another program may have grabbed the device.
DeviceOpened ==
  /\ plugged = "in"
  /\ frames = 0
  /\ direct = {}
  /\ grab \in Files \cup {None}
  /\ queue = [f \in Files |-> <<>>]
  /\ file = [f \in Files |-> "open"]
  /\ mode = [f \in Files |-> "poller"]
  /\ at = [t \in Threads |-> "idle"]
  /\ \E f \in Files : on = [t \in Threads |-> f]
  /\ size = [t \in Threads |-> 1]
  /\ got = [t \in Threads |-> <<>>]
  /\ ret = [t \in Threads |-> "none"]

DeviceInit == DeviceOpened /\ grab = None

DeviceNext ==
  \/ Emit
  \/ Unplug
  \/ \E t \in Threads : Proceed(t) \/ \E f \in Files : Call(t, f)

DeviceSafety == DeviceInit /\ [][DeviceNext]_deviceVars

\* A goroutine that can run does; nobody is obliged to call, to type or to
\* unplug the device.
DeviceSpec == DeviceSafety /\ \A t \in Threads : WF_deviceVars(Proceed(t))
-----------------------------------------------------------------------------
DeviceTypeOK ==
  /\ plugged \in {"in", "out"}
  /\ frames \in 0..MaxFrames
  /\ direct \subseteq 1..frames
  /\ grab \in Files \cup {None}
  /\ queue \in [Files -> Seq(Events)]
  /\ file \in [Files -> {"open", "closing", "closed"}]
  /\ mode \in [Files -> {"poller", "blocking"}]
  /\ at \in [Threads -> Holding \cup {"idle", "locking", "closing"}]
  /\ on \in [Threads -> Files]
  /\ size \in [Threads -> {1, BufEvents}]
  /\ got \in [Threads -> Seq(Events)]
  /\ \A t \in Threads : Len(got[t]) <= size[t]
  /\ ret \in [Threads -> {"none", "ok", "closed", "EOF", "ENODEV", "EBUSY", "EINVAL",
                          "ErrClosed"}]

\* No read and no ioctl of a Device is made on a descriptor that Close has
\* closed and the process may have been given again (device.go:61-74).
DescriptorHeld ==
  \A t \in Threads : at[t] \in Holding => file[on[t]] # "closed"

\* The grab is released by Ungrab or when the device is closed
\* (device.go:216-217): once a Close has returned, whatever calls it
\* interrupted, the file has not the grab and will not get it again.  Where Fd
\* was called that is not so: a read(2) that Close cannot interrupt keeps both
\* the descriptor and the grab.
CloseReleasesGrab ==
  \A t \in Threads :
    at[t] = "idle" /\ ret[t] = "closed" /\ on[t] \notin FdFiles => grab # on[t]

\* Close also unblocks a concurrent ReadOne (device.go:47, and the test
\* close_interrupt_test.go), and itself returns, whatever ioctls were made on
\* the file before, but for Fd (device.go:53-58).
CloseUnblocks ==
  \A t \in Threads, f \in Files \ FdFiles :
    (at[t] \in Reading \cup {"locking", "closing"} /\ on[t] = f /\ file[f] # "open")
      ~> at[t] = "idle"
=============================================================================

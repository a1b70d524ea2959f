---------------------------- MODULE DeviceProofs ----------------------------
(***************************************************************************)
(* Theorems about Device, for any files, goroutines and queue.             *)
(***************************************************************************)
EXTENDS Device, SequenceTheorems, TLAPS

\* Whoever has the grab has a descriptor.
GrabHeld == grab # None => file[grab] # "closed"

\* Where Fd may not be called, files stay in the poller.
PollerKept == \A f \in Files \ FdFiles : mode[f] = "poller"

\* There, a Close that has returned has seen the descriptor closed.
ReturnedClosed ==
  \A t \in Threads :
    at[t] = "idle" /\ ret[t] = "closed" /\ on[t] \notin FdFiles => file[on[t]] = "closed"

Held == DescriptorHeld /\ GrabHeld /\ PollerKept /\ ReturnedClosed

Inv == DeviceTypeOK /\ Held
-----------------------------------------------------------------------------
(* Types.                                                                  *)

\* What evdev queues is events.
LEMMA PushFrameType ==
  ASSUME NEW q \in Seq(Events), NEW i \in Nat \ {0}
  PROVE  PushFrame(q, i) \in Seq(Events)
<1>1. ASSUME NEW p \in Seq(Events), NEW e \in Events
      PROVE  Push(p, e) \in Seq(Events)
  <2>1. Dropped \in Events
    BY DEF Events
  <2>2. Append(p, e) \in Seq(Events) /\ <<Dropped, e>> \in Seq(Events)
    BY <2>1
  <2> QED  BY <2>2 DEF Push
<1>2. Event(i, "KEY") \in Events /\ Event(i, "SYN") \in Events
  BY DEF Events, Event
<1> QED  BY <1>1, <1>2 DEF PushFrame

LEMMA TypeInit == DeviceInit => DeviceTypeOK
BY DeviceAssumption DEF DeviceInit, DeviceOpened, DeviceTypeOK

LEMMA TypeEmit == DeviceTypeOK /\ Emit => DeviceTypeOK'
<1> SUFFICES ASSUME DeviceTypeOK, Emit PROVE DeviceTypeOK'
  OBVIOUS
<1>1. frames' \in 0..MaxFrames /\ frames + 1 \in Nat \ {0}
  BY DeviceAssumption DEF Emit, DeviceTypeOK
<1>2. queue' \in [Files -> Seq(Events)]
  BY <1>1, PushFrameType DEF Emit, DeviceTypeOK
<1>3. direct' \subseteq 1..frames'
  BY DeviceAssumption DEF Emit, DeviceTypeOK
<1> QED  BY <1>1, <1>2, <1>3 DEF Emit, DeviceTypeOK, fileVars, callVars

\* The part of the type that calls disturb.
LEMMA TypeCalls ==
  ASSUME DeviceTypeOK, NEW t \in Threads, NEW f \in Files, Call(t, f)
  PROVE  DeviceTypeOK'
<1> USE DeviceAssumption DEF DeviceTypeOK, Holding, inputVars, fileVars, callVars
<1>1. CASE ReadOne(t, f)
  BY <1>1 DEF ReadOne, ReadOf, Begin
<1>2. CASE ReadMany(t, f)
  BY <1>2 DEF ReadMany, ReadOf, Begin
<1>3. ASSUME NEW op \in Ioctls, Control(t, f, op) PROVE DeviceTypeOK'
  BY <1>3 DEF Control, Begin, Ioctls
<1>4. CASE Fd(t, f)
  BY <1>4 DEF Fd
<1>5. CASE CloseIdle(t, f)
  BY <1>5 DEF CloseIdle, AtOnce, GrabWithout
<1>6. CASE CloseBusy(t, f)
  <2>1. file' \in [Files -> {"open", "closing", "closed"}]
    BY <1>6 DEF CloseBusy
  <2>2. CASE Begin(t, f, "closing", 1)
    BY <1>6, <2>1, <2>2 DEF CloseBusy, Begin
  <2>3. CASE AtOnce(t, f, "closed")
    BY <1>6, <2>1, <2>3 DEF CloseBusy, AtOnce
  <2> QED  BY <1>6, <2>2, <2>3 DEF CloseBusy
<1>7. CASE ControlRefused(t, f)
  BY <1>7 DEF ControlRefused, AtOnce
<1> QED  BY <1>1, <1>2, <1>3, <1>4, <1>5, <1>6, <1>7 DEF Call, Close

\* Leaving a call.
LEMMA TypeLeave ==
  ASSUME DeviceTypeOK, NEW t \in Threads, NEW g \in Files \cup {None},
         NEW r \in {"ok", "EOF", "ENODEV", "EBUSY", "EINVAL", "ErrClosed"},
         Leave(t, r, g)
  PROVE  /\ grab' \in Files \cup {None}
         /\ file' \in [Files -> {"open", "closing", "closed"}]
         /\ at' \in [Threads -> Holding \cup {"idle", "locking", "closing"}]
         /\ ret' \in [Threads -> {"none", "ok", "closed", "EOF", "ENODEV", "EBUSY", "EINVAL",
                                  "ErrClosed"}]
BY DEF Leave, Return, GrabWithout, DeviceTypeOK

LEMMA TypeTakes ==
  ASSUME DeviceTypeOK, NEW t \in Threads, ReadTakes(t)
  PROVE  DeviceTypeOK'
<1> DEFINE q == queue[on[t]]
           n == IF Len(q) <= size[t] THEN Len(q) ELSE size[t]
<1>1. q \in Seq(Events) /\ size[t] \in Nat /\ n \in 0..Len(q) /\ n <= size[t]
  <2>1. q \in Seq(Events)
    BY DEF DeviceTypeOK
  <2>2. size[t] \in Nat
    BY DeviceAssumption DEF DeviceTypeOK
  <2>3. Len(q) \in Nat
    BY <2>1, LenProperties
  <2> QED  BY <2>1, <2>2, <2>3
<1>2. /\ got' = [got EXCEPT ![t] = SubSeq(q, 1, n)]
      /\ queue' = [queue EXCEPT ![on[t]] = SubSeq(q, n + 1, Len(q))]
      /\ Leave(t, "ok", grab)
      /\ UNCHANGED <<inputVars, mode, on, size>>
  BY DEF ReadTakes
<1> HIDE DEF n, q
<1>3. SubSeq(q, 1, n) \in Seq(Events) /\ Len(SubSeq(q, 1, n)) = n
  BY <1>1, SubSeqProperties
<1>4. SubSeq(q, n + 1, Len(q)) \in Seq(Events)
  BY <1>1, SubSeqProperties
<1>5. queue' \in [Files -> Seq(Events)]
  BY <1>2, <1>4 DEF DeviceTypeOK
<1>6. got' \in [Threads -> Seq(Events)] /\ \A u \in Threads : Len(got'[u]) <= size'[u]
  BY <1>1, <1>2, <1>3 DEF DeviceTypeOK
<1>7. grab \in Files \cup {None}
  BY DEF DeviceTypeOK
<1> QED  BY <1>2, <1>5, <1>6, <1>7, TypeLeave DEF DeviceTypeOK, inputVars

LEMMA TypeIoctl ==
  ASSUME DeviceTypeOK, NEW t \in Threads, Ioctl(t)
  PROVE  DeviceTypeOK'
<1>1. /\ grab' \in Files \cup {None}
      /\ file' \in [Files -> {"open", "closing", "closed"}]
      /\ at' \in [Threads -> Holding \cup {"idle", "locking", "closing"}]
      /\ ret' \in [Threads -> {"none", "ok", "closed", "EOF", "ENODEV", "EBUSY", "EINVAL",
                               "ErrClosed"}]
  BY TypeLeave DEF Ioctl, IoctlGrab, IoctlUngrab, DeviceTypeOK
<1> QED  BY <1>1 DEF Ioctl, DeviceTypeOK, inputVars

LEMMA TypeProceed ==
  ASSUME DeviceTypeOK, NEW t \in Threads, Proceed(t)
  PROVE  DeviceTypeOK'
<1> USE DEF DeviceTypeOK, inputVars, fileVars
<1>1. CASE ReadLock(t)
  BY <1>1 DEF ReadLock, Holding
<1>2. CASE ReadRefused(t)
  BY <1>2 DEF ReadRefused, Return
<1>3. CASE ReadTakes(t)
  BY <1>3, TypeTakes
<1>4. CASE ReadEnds(t)
  <2>1. PICK r \in {"EOF", "ENODEV"} : Leave(t, r, grab)
    BY <1>4 DEF ReadEnds
  <2> QED  BY <1>4, <2>1, TypeLeave DEF ReadEnds
<1>5. CASE ReadBlocks(t)
  BY <1>5 DEF ReadBlocks, Holding
<1>6. CASE ReadWakes(t)
  BY <1>6 DEF ReadWakes, Holding
<1>7. CASE ReadEvicted(t)
  BY <1>7, TypeLeave DEF ReadEvicted
<1>8. CASE Ioctl(t)
  BY <1>8, TypeIoctl
<1>9. CASE CloseWaited(t)
  BY <1>9 DEF CloseWaited, Return
<1> QED  BY <1>1, <1>2, <1>3, <1>4, <1>5, <1>6, <1>7, <1>8, <1>9 DEF Proceed

LEMMA TypeStep == DeviceTypeOK /\ [DeviceNext]_deviceVars => DeviceTypeOK'
<1> SUFFICES ASSUME DeviceTypeOK, [DeviceNext]_deviceVars PROVE DeviceTypeOK'
  OBVIOUS
<1>1. CASE Emit
  BY <1>1, TypeEmit
<1>2. CASE Unplug
  BY <1>2 DEF Unplug, DeviceTypeOK, fileVars, callVars
<1>3. ASSUME NEW t \in Threads, Proceed(t) PROVE DeviceTypeOK'
  BY <1>3, TypeProceed
<1>4. ASSUME NEW t \in Threads, NEW f \in Files, Call(t, f) PROVE DeviceTypeOK'
  BY <1>4, TypeCalls
<1>5. CASE UNCHANGED deviceVars
  BY <1>5 DEF deviceVars, inputVars, fileVars, callVars, DeviceTypeOK
<1> QED  BY <1>1, <1>2, <1>3, <1>4, <1>5 DEF DeviceNext

\* Everything stays within its type.
THEOREM DeviceTypeCorrect == DeviceSafety => []DeviceTypeOK
<1> QED  BY TypeInit, TypeStep, PTL DEF DeviceSafety
-----------------------------------------------------------------------------
(* What is held.                                                           *)

LEMMA HeldInit == DeviceInit => Held
BY DEF DeviceInit, DeviceOpened, Held, DescriptorHeld, GrabHeld, PollerKept,
       ReturnedClosed, Holding

\* Leaving a call keeps what is held: the descriptor is closed only when nobody
\* else holds the file, and takes the grab with it.
LEMMA HeldLeave ==
  ASSUME Inv, NEW t \in Threads, at[t] \in Holding,
         NEW g \in {grab, on[t], None}, NEW r, r # "closed",
         Leave(t, r, g), UNCHANGED <<mode, on>>
  PROVE  Held'
<1>1. /\ at' = [at EXCEPT ![t] = "idle"] /\ ret' = [ret EXCEPT ![t] = r]
      /\ at \in [Threads -> Holding \cup {"idle", "locking", "closing"}]
      /\ on \in [Threads -> Files]
      /\ DOMAIN ret = Threads
      /\ on' = on /\ mode' = mode /\ file \in [Files -> {"open", "closing", "closed"}]
  BY DEF Leave, Return, Inv, DeviceTypeOK
<1>2. file[on[t]] # "closed" /\ (g # None => file[g] # "closed")
  BY DEF Inv, Held, DescriptorHeld, GrabHeld
<1>3. CASE LastOne(t)
  <2>1. /\ file' = [file EXCEPT ![on[t]] = "closed"]
        /\ grab' = GrabWithout(g, on[t])
        /\ \A u \in Threads \ {t} : on[u] = on[t] => at[u] \notin Holding
    BY <1>3 DEF Leave, LastOne, Holders
  <2>2. DescriptorHeld'
    BY <1>1, <2>1 DEF Inv, Held, DescriptorHeld, Holding
  <2>3. GrabHeld'
    BY <1>1, <1>2, <2>1 DEF GrabHeld, GrabWithout
  <2>4. ReturnedClosed'
    BY <1>1, <2>1 DEF Inv, Held, ReturnedClosed
  <2> QED  BY <1>1, <2>2, <2>3, <2>4 DEF Inv, Held, PollerKept
<1>4. CASE ~LastOne(t)
  <2>1. file' = file /\ grab' = g
    BY <1>4 DEF Leave
  <2>2. DescriptorHeld'
    BY <1>1, <2>1 DEF Inv, Held, DescriptorHeld, Holding
  <2>3. ReturnedClosed'
    BY <1>1, <2>1 DEF Inv, Held, ReturnedClosed
  <2> QED  BY <1>1, <1>2, <2>1, <2>2, <2>3 DEF Inv, Held, PollerKept, GrabHeld
<1> QED  BY <1>3, <1>4

\* A call only begins to hold a file that is open.
LEMMA HeldBegin ==
  ASSUME Inv, NEW t \in Threads, NEW f \in Files, NEW step, NEW n,
         step # "idle", step \in Holding => file[f] = "open",
         Begin(t, f, step, n), UNCHANGED <<grab, file>>,
         \A h \in Files \ FdFiles : mode'[h] = mode[h]
  PROVE  Held'
<1> USE DEF Inv, Held, DeviceTypeOK, Begin
<1>1. DescriptorHeld'
  BY DEF DescriptorHeld
<1>2. ReturnedClosed'
  BY DEF ReturnedClosed
<1> QED  BY <1>1, <1>2 DEF PollerKept, GrabHeld

LEMMA HeldCalls ==
  ASSUME Inv, NEW t \in Threads, NEW f \in Files, Call(t, f)
  PROVE  Held'
<1> USE DEF Inv, Held, DeviceTypeOK
<1>1. CASE ReadOne(t, f) \/ ReadMany(t, f)
  BY <1>1, HeldBegin DEF ReadOne, ReadMany, ReadOf, Holding, fileVars
<1>2. ASSUME NEW op \in Ioctls, Control(t, f, op) PROVE Held'
  BY <1>2, HeldBegin DEF Control, Ioctls, fileVars
<1>3. CASE f \in FdFiles /\ Fd(t, f)
  BY <1>3 DEF Fd, callVars, DescriptorHeld, GrabHeld, PollerKept, ReturnedClosed
<1>4. CASE CloseIdle(t, f)
  <2>1. \A u \in Threads : on[u] = f => at[u] \notin Holding
    BY <1>4 DEF CloseIdle, Holders
  <2>2. DescriptorHeld'
    BY <1>4, <2>1 DEF CloseIdle, AtOnce, DescriptorHeld, Holding
  <2>3. GrabHeld'
    BY <1>4 DEF CloseIdle, GrabHeld, GrabWithout
  <2>4. ReturnedClosed'
    BY <1>4 DEF CloseIdle, AtOnce, ReturnedClosed
  <2> QED  BY <1>4, <2>2, <2>3, <2>4 DEF CloseIdle, PollerKept
<1>5. CASE CloseBusy(t, f)
  <2>1. /\ file[f] = "open" /\ file' = [file EXCEPT ![f] = "closing"]
        /\ grab' = grab /\ mode' = mode
    BY <1>5 DEF CloseBusy
  <2>2. GrabHeld' /\ PollerKept'
    BY <2>1 DEF GrabHeld, PollerKept
  <2>3. CASE Begin(t, f, "closing", 1)
    BY <2>1, <2>2, <2>3 DEF Begin, DescriptorHeld, ReturnedClosed, Holding
  <2>4. CASE mode[f] = "blocking" /\ AtOnce(t, f, "closed")
    <3>1. f \in FdFiles
      BY <2>4 DEF PollerKept
    <3>2. DescriptorHeld'
      BY <2>1, <2>4 DEF AtOnce, DescriptorHeld, Holding
    <3>3. ReturnedClosed'
      BY <2>1, <2>4, <3>1 DEF AtOnce, ReturnedClosed
    <3> QED  BY <2>2, <3>2, <3>3
  <2> QED  BY <1>5, <2>3, <2>4 DEF CloseBusy
<1>6. CASE ControlRefused(t, f)
  <2>1. DescriptorHeld'
    BY <1>6 DEF ControlRefused, AtOnce, DescriptorHeld, Holding, fileVars
  <2>2. ReturnedClosed'
    BY <1>6 DEF ControlRefused, AtOnce, ReturnedClosed, fileVars
  <2> QED  BY <1>6, <2>1, <2>2 DEF ControlRefused, GrabHeld, PollerKept, fileVars
<1> QED  BY <1>1, <1>2, <1>3, <1>4, <1>5, <1>6 DEF Call, Close

\* A step within a call that neither takes nor gives back a reference, or takes
\* one on an open file.
LEMMA HeldWithin ==
  ASSUME Inv, NEW t \in Threads, NEW step, step # "idle",
         step \in Holding => file[on[t]] # "closed",
         at' = [at EXCEPT ![t] = step], UNCHANGED <<grab, fileVars, on, ret>>
  PROVE  Held'
<1> USE DEF Inv, Held, DeviceTypeOK, fileVars
<1>1. DescriptorHeld'
  BY DEF DescriptorHeld
<1>2. ReturnedClosed'
  BY DEF ReturnedClosed
<1> QED  BY <1>1, <1>2 DEF PollerKept, GrabHeld

LEMMA HeldProceed ==
  ASSUME Inv, NEW t \in Threads, Proceed(t)
  PROVE  Held'
<1>0. at[t] \in Holding => file[on[t]] # "closed"
  BY DEF Inv, Held, DescriptorHeld
<1>1. CASE ReadLock(t)
  BY <1>1, HeldWithin DEF ReadLock
<1>2. CASE ReadRefused(t) \/ CloseWaited(t)
  <2>1. /\ UNCHANGED <<grab, file, mode, on>>
        /\ \E r \in {"ErrClosed", "closed"} :
              Return(t, r) /\ (r = "closed" => file[on[t]] = "closed")
    BY <1>2 DEF ReadRefused, CloseWaited, fileVars
  <2>2. DescriptorHeld'
    BY <2>1 DEF Return, Inv, Held, DeviceTypeOK, DescriptorHeld, Holding
  <2>3. ReturnedClosed'
    BY <2>1 DEF Return, Inv, Held, DeviceTypeOK, ReturnedClosed
  <2> QED  BY <2>1, <2>2, <2>3 DEF Inv, Held, GrabHeld, PollerKept
<1>3. CASE ReadTakes(t)
  BY <1>3, HeldLeave DEF ReadTakes, Holding
<1>4. CASE ReadEnds(t)
  BY <1>4, HeldLeave DEF ReadEnds, Holding
<1>5. CASE ReadBlocks(t)
  BY <1>0, <1>5, HeldWithin DEF ReadBlocks, Holding
<1>6. CASE ReadWakes(t)
  BY <1>0, <1>6, HeldWithin DEF ReadWakes, Holding
<1>7. CASE ReadEvicted(t)
  BY <1>7, HeldLeave DEF ReadEvicted, Holding
<1>8. CASE Ioctl(t)
  <2>1. PICK g \in {grab, on[t], None}, r \in {"ok", "EBUSY", "EINVAL", "ENODEV"} :
          Leave(t, r, g)
    BY <1>8 DEF Ioctl, IoctlGrab, IoctlUngrab
  <2>2. at[t] \in Holding /\ UNCHANGED <<mode, on>>
    BY <1>8 DEF Ioctl, Ioctls, Holding
  <2> QED  BY <2>1, <2>2, HeldLeave
<1> QED  BY <1>1, <1>2, <1>3, <1>4, <1>5, <1>6, <1>7, <1>8 DEF Proceed

LEMMA HeldStep == Inv /\ [DeviceNext]_deviceVars => Held'
<1> SUFFICES ASSUME Inv, [DeviceNext]_deviceVars PROVE Held'
  OBVIOUS
<1>1. CASE Emit \/ Unplug \/ UNCHANGED deviceVars
  <2>1. UNCHANGED <<grab, file, mode, at, on, ret>>
    BY <1>1 DEF Emit, Unplug, deviceVars, fileVars, callVars
  <2> QED  BY <2>1 DEF Inv, Held, DescriptorHeld, GrabHeld, PollerKept, ReturnedClosed
<1>2. ASSUME NEW t \in Threads, Proceed(t) PROVE Held'
  BY <1>2, HeldProceed
<1>3. ASSUME NEW t \in Threads, NEW f \in Files, Call(t, f) PROVE Held'
  BY <1>3, HeldCalls
<1> QED  BY <1>1, <1>2, <1>3 DEF DeviceNext

LEMMA Invariance == DeviceSafety => []Inv
<1>1. DeviceInit => Inv
  BY TypeInit, HeldInit DEF Inv
<1>2. Inv /\ [DeviceNext]_deviceVars => Inv'
  BY TypeStep, HeldStep DEF Inv
<1> QED  BY <1>1, <1>2, PTL DEF DeviceSafety

\* No read and no ioctl is made on a descriptor that was closed, however many
\* goroutines read, call ioctls and close.
THEOREM DescriptorsHeld == DeviceSafety => []DescriptorHeld
<1>1. Inv => DescriptorHeld
  BY DEF Inv, Held
<1> QED  BY <1>1, Invariance, PTL

\* A Close that has returned has given the grab back, on every file on which Fd
\* is not called.
THEOREM GrabsReleased == DeviceSafety => []CloseReleasesGrab
<1>1. Inv => CloseReleasesGrab
  BY DeviceAssumption DEF Inv, Held, DeviceTypeOK, GrabHeld, ReturnedClosed, CloseReleasesGrab
<1> QED  BY <1>1, Invariance, PTL
=============================================================================

------------------------ MODULE VirtualDeviceProofs ------------------------
(***************************************************************************)
(* Theorems about VirtualDevice, for any goroutines and capabilities.      *)
(***************************************************************************)
EXTENDS VirtualDevice, SequenceTheorems, TLAPS

Creating == {"enable", "setup", "create"}

\* CreateVirtualDevice is in one goroutine, and until it has returned nobody
\* else has the device.
CreateInv ==
  /\ \A t \in Threads :
       vat[t] \in Creating => kdev = "new" /\ vptr = "none" /\ vfile = "open"
  /\ \A t, u \in Threads : vat[t] \in Creating /\ vat[u] \in Creating => t = u
  /\ vptr = "none" => \A t \in Threads : vat[t] \in Creating \cup {"idle"}
  /\ kdev = "live" => vptr # "none"
  /\ kdev = "none" => vptr = "none" /\ vfile = "none"

\* The device is made of all that must be registered.
WholeInv ==
  /\ \A t \in Threads : vat[t] \in {"setup", "create"} => enabled = Required
  /\ kdev = "live" => enabled = Required

\* A creation that failed leaves nobody creating and no open file.
FailedInv ==
  vptr = "none" /\ (\E t \in Threads : vret[t] = "ErrCreate") =>
    vfile \in {"none", "closed"} /\ \A t \in Threads : vat[t] \notin Creating

\* The device is gone once Close is past the ioctl, and with its file.
GoneInv ==
  /\ vptr = "nil" \/ vfile = "closed" => kdev = "gone"
  /\ \A t \in Threads : vat[t] \in {"close", "nil"} => kdev = "gone"
  /\ \A t \in Threads : vat[t] = "destroy" /\ vfd[t] # "number" => kdev = "gone"

Inv == VirtualTypeOK /\ CreateInv /\ WholeInv /\ FailedInv /\ GoneInv
-----------------------------------------------------------------------------
LEMMA InvInit == VirtualInit => Inv
BY VirtualAssumption DEF VirtualInit, Inv, VirtualTypeOK, CreateInv, WholeInv, FailedInv, GoneInv,
                         Creating, Marker

LEMMA TypeCreate ==
  ASSUME VirtualTypeOK, NEW t \in Threads,
         CreateOpen(t) \/ Enable(t) \/ Setup(t) \/ Create(t)
  PROVE  VirtualTypeOK'
<1> USE DEF VirtualTypeOK, VGoto, VReturn
<1>1. CASE CreateOpen(t)
  BY <1>1 DEF CreateOpen
<1>2. CASE Enable(t)
  BY <1>2 DEF Enable, GiveUp, Missing
<1>3. CASE Setup(t)
  BY <1>3 DEF Setup, GiveUp
<1>4. CASE Create(t)
  BY <1>4 DEF Create, CreateDone, GiveUp
<1> QED  BY <1>1, <1>2, <1>3, <1>4

LEMMA TypeWrite ==
  ASSUME VirtualTypeOK, NEW t \in Threads, NEW e \in OutEvents \cup {Marker},
         WriteBegin(t, e) \/ WriteLock(t) \/ WriteDone(t)
  PROVE  VirtualTypeOK'
<1> USE DEF VirtualTypeOK, VGoto, VReturn
<1>1. CASE WriteBegin(t, e)
  BY <1>1 DEF WriteBegin
<1>2. CASE WriteLock(t)
  BY <1>2 DEF WriteLock
<1>3. CASE WriteDone(t)
  <2>1. vev[t] \in OutEvents \cup {Marker}
    OBVIOUS
  <2>2. /\ injected' \in Seq(OutEvents \cup {Marker})
        /\ Len(injected') <= MaxInject
    <3>1. CASE injected' = injected
      BY <3>1
    <3>2. CASE injected' = Append(injected, vev[t]) /\ Len(injected) < MaxInject
      BY <2>1, <3>2, AppendProperties, LenProperties, VirtualAssumption
    <3> QED  BY <1>3, <3>1, <3>2 DEF WriteDone
  <2> QED  BY <1>3, <2>2 DEF WriteDone
<1> QED  BY <1>1, <1>2, <1>3

LEMMA TypeClose ==
  ASSUME VirtualTypeOK, NEW t \in Threads,
         CloseOut(t) \/ CloseFd(t) \/ Destroy(t) \/ CloseFile(t) \/ SetNil(t)
  PROVE  VirtualTypeOK'
<1> USE DEF VirtualTypeOK, VGoto, VReturn
<1>1. CASE CloseOut(t)
  BY <1>1 DEF CloseOut, CloseAgain, CloseBegin
<1>2. CASE CloseFd(t)
  BY <1>2 DEF CloseFd
<1>3. CASE Destroy(t)
  BY <1>3 DEF Destroy
<1>4. CASE CloseFile(t)
  BY <1>4 DEF CloseFile
<1>5. CASE SetNil(t)
  BY <1>5 DEF SetNil
<1> QED  BY <1>1, <1>2, <1>3, <1>4, <1>5
-----------------------------------------------------------------------------
Others == CreateInv /\ WholeInv /\ FailedInv /\ GoneInv

\* The steps of the creation.
LEMMA InvCreate ==
  ASSUME Inv, NEW t \in Threads,
         \/ vret = [u \in Threads |-> "none"] /\ CreateOpen(t)
         \/ Enable(t) \/ Setup(t) \/ Create(t)
  PROVE  Others'
<1> USE DEF Inv, VirtualTypeOK, VGoto, VReturn, Creating
<1>1. CASE vret = [u \in Threads |-> "none"] /\ CreateOpen(t)
  BY <1>1 DEF CreateOpen, Others, CreateInv, WholeInv, FailedInv, GoneInv
<1>2. ASSUME NEW from \in Creating, GiveUp(t, from) PROVE Others'
  BY <1>2 DEF GiveUp, Others, CreateInv, WholeInv, FailedInv, GoneInv
<1>3. CASE Enable(t)
  <2>1. CASE vat[t] = "enable" /\ UNCHANGED <<kdev, injected, vptr, vfile, vat, vev, vfd, vret>>
    BY <2>1 DEF Others, CreateInv, WholeInv, FailedInv, GoneInv
  <2>2. CASE /\ Missing = {} /\ VGoto(t, "enable", "setup")
             /\ UNCHANGED <<kdev, enabled, injected, vptr, vfile, vev, vfd, vret>>
    <3>1. enabled = Required
      BY <2>2 DEF Missing
    <3> QED  BY <2>2, <3>1 DEF Others, CreateInv, WholeInv, FailedInv, GoneInv
  <2> QED  BY <1>2, <1>3, <2>1, <2>2 DEF Enable
<1>4. CASE Setup(t)
  <2>1. CASE /\ VGoto(t, "setup", "create")
             /\ UNCHANGED <<kdev, enabled, injected, vptr, vfile, vev, vfd, vret>>
    BY <2>1 DEF Others, CreateInv, WholeInv, FailedInv, GoneInv
  <2> QED  BY <1>2, <1>4, <2>1 DEF Setup
<1>5. CASE Create(t)
  <2>1. CASE CreateDone(t)
    BY <2>1 DEF CreateDone, Others, CreateInv, WholeInv, FailedInv, GoneInv
  <2> QED  BY <1>2, <1>5, <2>1 DEF Create
<1> QED  BY <1>1, <1>3, <1>4, <1>5

\* The steps of Write.
LEMMA InvWrite ==
  ASSUME Inv, NEW t \in Threads, NEW e \in OutEvents \cup {Marker},
         WriteBegin(t, e) \/ WriteLock(t) \/ WriteDone(t)
  PROVE  Others'
<1> USE DEF Inv, VirtualTypeOK, VGoto, VReturn, Creating
<1>1. CASE WriteBegin(t, e)
  BY <1>1 DEF WriteBegin, Others, CreateInv, WholeInv, FailedInv, GoneInv
<1>2. CASE WriteLock(t)
  BY <1>2 DEF WriteLock, Others, CreateInv, WholeInv, FailedInv, GoneInv
<1>3. CASE WriteDone(t)
  BY <1>3 DEF WriteDone, Others, CreateInv, WholeInv, FailedInv, GoneInv
<1> QED  BY <1>1, <1>2, <1>3

\* The steps of Close.
LEMMA InvClose ==
  ASSUME Inv, NEW t \in Threads,
         CloseOut(t) \/ CloseFd(t) \/ Destroy(t) \/ CloseFile(t) \/ SetNil(t)
  PROVE  Others'
<1> USE DEF Inv, VirtualTypeOK, VGoto, VReturn, Creating
<1>1. CASE CloseOut(t)
  BY <1>1 DEF CloseOut, CloseAgain, CloseBegin, Others, CreateInv, WholeInv, FailedInv, GoneInv
<1>2. CASE CloseFd(t)
  BY <1>2 DEF CloseFd, Others, CreateInv, WholeInv, FailedInv, GoneInv
<1>3. CASE Destroy(t)
  BY <1>3 DEF Destroy, Others, CreateInv, WholeInv, FailedInv, GoneInv
<1>4. CASE CloseFile(t)
  BY <1>4 DEF CloseFile, Others, CreateInv, WholeInv, FailedInv, GoneInv
<1>5. CASE SetNil(t)
  BY <1>5 DEF SetNil, Others, CreateInv, WholeInv, FailedInv, GoneInv
<1> QED  BY <1>1, <1>2, <1>3, <1>4, <1>5

\* What a step can be.
LEMMA Steps ==
  ASSUME VirtualNext
  PROVE  \E t \in Threads, e \in OutEvents \cup {Marker} :
           \/ vret = [u \in Threads |-> "none"] /\ CreateOpen(t)
           \/ Enable(t) \/ Setup(t) \/ Create(t)
           \/ WriteBegin(t, e) \/ WriteLock(t) \/ WriteDone(t)
           \/ CloseOut(t) /\ t \in Closers
           \/ CloseFd(t) \/ Destroy(t) \/ CloseFile(t) \/ SetNil(t)
BY DEF VirtualNext, VProceed

LEMMA InvStep == Inv /\ [VirtualNext]_virtualVars => Inv'
<1> SUFFICES ASSUME Inv, [VirtualNext]_virtualVars PROVE Inv'
  OBVIOUS
<1>1. CASE UNCHANGED virtualVars
  BY <1>1 DEF Inv, VirtualTypeOK, CreateInv, WholeInv, FailedInv, GoneInv, virtualVars, Creating
<1>2. CASE VirtualNext
  <2>1. VirtualTypeOK'
    BY <1>2, Steps, TypeCreate, TypeWrite, TypeClose DEF Inv
  <2>2. Others'
    BY <1>2, Steps, InvCreate, InvWrite, InvClose
  <2> QED  BY <2>1, <2>2 DEF Inv, Others
<1> QED  BY <1>1, <1>2

LEMMA Invariance == VirtualSafety => []Inv
<1> QED  BY InvInit, InvStep, PTL DEF VirtualSafety

\* Everything stays within its type.
THEOREM VirtualTypeCorrect == VirtualSafety => []VirtualTypeOK
<1>1. Inv => VirtualTypeOK
  BY DEF Inv
<1> QED  BY <1>1, Invariance, PTL

\* A device exists only with all that it was asked to have, and a creation that
\* failed leaves neither a device nor an open file, whichever step failed.
THEOREM CreatedWholeOrNot == VirtualSafety => [](CreatedWhole /\ FailureLeavesNothing)
<1>1. Inv => CreatedWhole /\ FailureLeavesNothing
  BY DEF Inv, CreateInv, WholeInv, FailedInv, CreatedWhole, FailureLeavesNothing
<1> QED  BY <1>1, Invariance, PTL

\* Of a creation that failed nothing stays, neither a device nor an open file,
\* whichever of its ioctls it was (uinput.go:94-107).
THEOREM FailuresUndone == VirtualSafety => []FailureLeavesNothing
<1>1. CreatedWhole /\ FailureLeavesNothing => FailureLeavesNothing
  OBVIOUS
<1> QED  BY <1>1, CreatedWholeOrNot, PTL

\* Once v.f is nil nothing is injected, though nothing synchronises writes with
\* Close, and whoever closes.
THEOREM QuietOnceClosed == VirtualSafety => QuietAfterClose
<1>1. Inv /\ [VirtualNext]_virtualVars => [vptr = "nil" => UNCHANGED injected]_virtualVars
  <2> SUFFICES ASSUME Inv, VirtualNext, vptr = "nil" PROVE UNCHANGED injected
    BY DEF virtualVars
  <2>1. kdev = "gone"
    BY DEF Inv, GoneInv
  <2>2. ASSUME NEW t \in Threads, WriteDone(t) PROVE UNCHANGED injected
    BY <2>1, <2>2 DEF WriteDone
  <2> QED
    BY <2>2 DEF VirtualNext, VProceed, CreateOpen, Enable, Setup, Create, CreateDone, GiveUp,
                WriteBegin, WriteLock, CloseOut, CloseAgain, CloseBegin, CloseFd, Destroy,
                CloseFile, SetNil
<1> QED  BY <1>1, Invariance, PTL DEF VirtualSafety, QuietAfterClose
-----------------------------------------------------------------------------
\* With one goroutine to close the device: it alone is in Close, the file is
\* open until it closes it, and it does not leave Close before v.f is nil.
OneInv ==
  /\ \A t \in Threads :
       vat[t] \in {"fd", "destroy", "close", "nil"} =>
         t \in Closers /\ (vat[t] # "nil" => vptr = "set" /\ vfile = "open")
  /\ vptr = "set" => vfile = "open" \/ \E t \in Closers : vat[t] = "nil"

\* The ioctl that destroys the device is made on a number that is still its own.
THEOREM OneCloserDestroysItsOwn ==
  ASSUME \A a, b \in Closers : a = b
  PROVE  VirtualSafety => []DestroyOnOwnFile
<1> DEFINE One == Inv /\ OneInv
<1>1. VirtualInit => One
  BY InvInit DEF VirtualInit, OneInv
<1>2. One /\ [VirtualNext]_virtualVars => One'
  <2> SUFFICES ASSUME Inv, OneInv, VirtualNext PROVE OneInv'
    BY InvStep DEF OneInv, virtualVars
  <2> USE VirtualAssumption
        DEF Inv, VirtualTypeOK, CreateInv, Creating, OneInv, VGoto, VReturn
  <2>1. PICK t \in Threads, e \in OutEvents \cup {Marker} :
           \/ vret = [u \in Threads |-> "none"] /\ CreateOpen(t)
           \/ Enable(t) \/ Setup(t) \/ Create(t)
           \/ WriteBegin(t, e) \/ WriteLock(t) \/ WriteDone(t)
           \/ CloseOut(t) /\ t \in Closers
           \/ CloseFd(t) \/ Destroy(t) \/ CloseFile(t) \/ SetNil(t)
    BY Steps
  <2>2. CASE CreateOpen(t)
    BY <2>2 DEF CreateOpen
  <2>3. CASE Enable(t) \/ Setup(t) \/ Create(t)
    BY <2>3 DEF Enable, Setup, Create, CreateDone, GiveUp
  <2>4. CASE WriteBegin(t, e) \/ WriteLock(t) \/ WriteDone(t)
    <3>1. vptr' = vptr /\ (vfile = "open" => vfile' = "open")
      BY <2>4 DEF WriteBegin, WriteLock, WriteDone
    <3>2. vat[t] \in {"idle", "locking", "write"} /\ vat'[t] \in {"idle", "locking", "write"}
      BY <2>4 DEF WriteBegin, WriteLock, WriteDone
    <3>3. \A u \in Threads \ {t} : vat'[u] = vat[u]
      BY <2>4 DEF WriteBegin, WriteLock, WriteDone
    <3> QED  BY <3>1, <3>2, <3>3
  <2>5. CASE CloseOut(t) /\ t \in Closers
    BY <2>5 DEF CloseOut, CloseAgain, CloseBegin
  <2>6. CASE CloseFd(t) \/ Destroy(t)
    BY <2>6 DEF CloseFd, Destroy
  <2>7. CASE CloseFile(t) \/ SetNil(t)
    BY <2>7 DEF CloseFile, SetNil
  <2> QED  BY <2>1, <2>2, <2>3, <2>4, <2>5, <2>6, <2>7
<1>3. One => DestroyOnOwnFile
  BY DEF OneInv, DestroyOnOwnFile
<1> QED  BY <1>1, <1>2, <1>3, PTL DEF VirtualSafety
=============================================================================

--------------------------- MODULE VirtualDevice ---------------------------
(***************************************************************************)
(* The VirtualDevice of uinput.go: CreateVirtualDevice, step by step and   *)
(* with the failure of every step; then goroutines that call Write, Sync   *)
(* and Close.  Nothing synchronises them: a Write may be in the kernel     *)
(* when Close destroys the device, and Close sets v.f to nil while others  *)
(* read it, so they find the file, the closed file or nil.                 *)
(*                                                                         *)
(* uinput is external.  injected is all it made of the events written to   *)
(* it; the system gets them packet by packet, up to the last marker.  The  *)
(* control file has been made blocking by Fd, so closing it does not wait  *)
(* for calls in progress; its descriptor is closed with the last of them,  *)
(* and the device goes with the descriptor.                                *)
(***************************************************************************)
EXTENDS Naturals, Sequences, FiniteSets

CONSTANTS
  Threads,   \* goroutines
  Closers,   \* the goroutines that may call Close
  Caps,      \* the codes of each type the device is created with
  OutEvents, \* the events that are written: records with a type and a code
  MaxInject  \* bound on the events the kernel takes

EventTypes == {"EV_KEY", "EV_REL", "EV_MSC"}
CodeTypes == EventTypes \cup {"PROP"}

ASSUME VirtualAssumption ==
  /\ Closers \subseteq Threads
  /\ DOMAIN Caps = CodeTypes
  /\ \A e \in OutEvents : {"type", "code"} \subseteq DOMAIN e
  /\ MaxInject \in Nat

VARIABLES
  \* the kernel
  kdev,     \* "none", "new" after the open, "live", "gone"
  enabled,  \* the types and codes registered
  injected, \* the events taken from writes, markers included
  \* the VirtualDevice
  vptr,     \* v.f: "none" until the device is returned, "set", "nil"
  vfile,    \* the file: "none", "open", "closing", "closed"
  \* the goroutines
  vat,      \* where the call stands
  vev,      \* the event being written
  vfd,      \* the number Close got from Fd: "none", "number", "bad"
  vret      \* what the call returned

virtualVars == <<kdev, enabled, injected, vptr, vfile, vat, vev, vfd, vret>>

Marker == [type |-> "EV_SYN", code |-> "SYN_REPORT"]

\* What must be registered: an event type that has codes, each of its codes, and
\* the properties.
Required == {<<t, "type">> : t \in {u \in EventTypes : Caps[u] # {}}}
            \cup UNION {{<<t, c>> : c \in Caps[t]} : t \in CodeTypes}

\* enable goes through the types in this order, each before its codes.
Earlier(b, c) ==
  LET Rank == [t \in CodeTypes |->
                 CASE t = "EV_KEY" -> 1 [] t = "EV_REL" -> 2 [] t = "EV_MSC" -> 3
                   [] t = "PROP" -> 4]
  IN \/ Rank[b[1]] < Rank[c[1]]
     \/ b[1] = c[1] /\ b[2] = "type" /\ c[2] # "type"

\* The kernel drops what is not registered, and every EV_SYN but SYN_REPORT.
Accepts(e) ==
  \/ e.type = "EV_SYN" /\ e.code = "SYN_REPORT"
  \/ <<e.type, "type">> \in enabled /\ <<e.type, e.code>> \in enabled
-----------------------------------------------------------------------------
VGoto(t, from, to) == vat[t] = from /\ vat' = [vat EXCEPT ![t] = to]

VReturn(t, from, r) ==
  /\ VGoto(t, from, "idle")
  /\ vret' = [vret EXCEPT ![t] = r]

(* CreateVirtualDevice.  The file is closed when a later step fails.       *)

CreateOpen(t) ==
  /\ kdev = "none"
  /\ \/ /\ VGoto(t, "idle", "enable")
        /\ vret' = [vret EXCEPT ![t] = "none"]
        /\ kdev' = "new"
        /\ vfile' = "open"
     \/ /\ VReturn(t, "idle", "ErrCreate")
        /\ UNCHANGED <<kdev, vfile>>
  /\ UNCHANGED <<enabled, injected, vptr, vev, vfd>>

GiveUp(t, from) ==
  /\ VReturn(t, from, "ErrCreate")
  /\ vfile' = "closed"
  /\ kdev' = "gone"
  /\ UNCHANGED <<enabled, injected, vptr, vev, vfd>>

\* Mutant: a type is registered even when it has no codes.
MissingAnyType == (Required \cup {<<t, "type">> : t \in EventTypes}) \ enabled

\* What is left to register, and what of it comes first.
Missing == Required \ enabled
IsNext(b) == b \in Missing /\ \A c \in Missing : ~Earlier(c, b)

\* Mutant: a code that cannot be registered is passed over.
EnableSkips(t) ==
  \/ /\ vat[t] = "enable"
     /\ \E b \in Missing : IsNext(b) /\ enabled' = enabled \cup {b}
     /\ UNCHANGED <<kdev, injected, vptr, vfile, vat, vev, vfd, vret>>
  \/ /\ VGoto(t, "enable", "setup")
     /\ UNCHANGED <<kdev, enabled, injected, vptr, vfile, vev, vfd, vret>>

Enable(t) ==
  \/ /\ vat[t] = "enable"
     /\ \E b \in Missing : IsNext(b) /\ enabled' = enabled \cup {b}
     /\ UNCHANGED <<kdev, injected, vptr, vfile, vat, vev, vfd, vret>>
  \/ /\ Missing = {}
     /\ VGoto(t, "enable", "setup")
     /\ UNCHANGED <<kdev, enabled, injected, vptr, vfile, vev, vfd, vret>>
  \/ /\ Missing # {}
     /\ GiveUp(t, "enable")

Setup(t) ==
  \/ /\ VGoto(t, "setup", "create")
     /\ UNCHANGED <<kdev, enabled, injected, vptr, vfile, vev, vfd, vret>>
  \/ GiveUp(t, "setup")

CreateDone(t) ==
  /\ VReturn(t, "create", "ok")
  /\ kdev' = "live"
  /\ vptr' = "set"
  /\ UNCHANGED <<enabled, injected, vfile, vev, vfd>>

\* Mutant: the file is left open when the device cannot be created.
CreateLeaks(t) ==
  \/ CreateDone(t)
  \/ /\ VReturn(t, "create", "ErrCreate")
     /\ UNCHANGED <<kdev, enabled, injected, vptr, vfile, vev, vfd>>

Create(t) == CreateDone(t) \/ GiveUp(t, "create")
-----------------------------------------------------------------------------
(* Write; Sync is the Write of a marker.                                   *)

\* v.f is read once; a nil file refuses.
WriteBegin(t, e) ==
  /\ vptr # "none"
  /\ \/ /\ vptr = "set"
        /\ VGoto(t, "idle", "locking")
        /\ vev' = [vev EXCEPT ![t] = e]
        /\ vret' = [vret EXCEPT ![t] = "none"]
     \/ /\ vptr = "nil"
        /\ VReturn(t, "idle", "ErrInvalid")
        /\ UNCHANGED vev
  /\ UNCHANGED <<kdev, enabled, injected, vptr, vfile, vfd>>

\* Writes of a file wait for each other, and a closed file refuses.
WriteLock(t) ==
  /\ \/ /\ vfile = "open"
        /\ \A u \in Threads : vat[u] # "write"
        /\ VGoto(t, "locking", "write")
        /\ UNCHANGED vret
     \/ /\ vfile # "open"
        /\ VReturn(t, "locking", "ErrClosed")
  /\ UNCHANGED <<kdev, enabled, injected, vptr, vfile, vev, vfd>>

\* write(2): a live device takes the event or silently drops it; what is no
\* device any more refuses it.  The write of a file that was closed meanwhile
\* is its last call.
WriteDone(t) ==
  /\ \/ /\ kdev = "live"
        /\ Accepts(vev[t]) => Len(injected) < MaxInject
        /\ injected' = IF Accepts(vev[t]) THEN Append(injected, vev[t]) ELSE injected
        /\ VReturn(t, "write", "ok")
     \/ /\ kdev # "live"
        /\ VReturn(t, "write", "EINVAL")
        /\ UNCHANGED injected
  /\ \/ /\ vfile = "closing"
        /\ vfile' = "closed"
        /\ kdev' = "gone"
     \/ /\ vfile # "closing"
        /\ UNCHANGED <<vfile, kdev>>
  /\ UNCHANGED <<enabled, vptr, vev, vfd>>
-----------------------------------------------------------------------------
(* Close.  v.f is read again by every step.                                *)

CloseAgain(t) ==
  /\ vptr = "nil"
  /\ VReturn(t, "idle", "closed")
  /\ UNCHANGED <<kdev, enabled, injected, vptr, vfile, vev, vfd>>

CloseBegin(t) ==
  /\ vptr = "set"
  /\ VGoto(t, "idle", "fd")
  /\ vret' = [vret EXCEPT ![t] = "none"]
  /\ UNCHANGED <<kdev, enabled, injected, vptr, vfile, vev, vfd>>

\* Mutant: the file is closed before the device is destroyed.
CloseFdFirst(t) ==
  /\ VGoto(t, "fd", "destroy")
  /\ vfd' = [vfd EXCEPT ![t] = "number"]
  /\ vfile' = "closed"
  /\ kdev' = "gone"
  /\ UNCHANGED <<enabled, injected, vptr, vev, vret>>

\* The number the ioctl will be made on; a nil or closed file gives -1.
CloseFd(t) ==
  /\ VGoto(t, "fd", "destroy")
  /\ vfd' = [vfd EXCEPT ![t] = IF vptr = "set" /\ vfile # "closed"
                                 THEN "number" ELSE "bad"]
  /\ UNCHANGED <<kdev, enabled, injected, vptr, vfile, vev, vret>>

\* Mutant: the device is left to the close of its file.
DestroyNot(t) ==
  /\ VGoto(t, "destroy", "close")
  /\ vfd' = [vfd EXCEPT ![t] = "none"]
  /\ UNCHANGED <<kdev, enabled, injected, vptr, vfile, vev, vret>>

\* The outcome only decides the error that Close returns.
Destroy(t) ==
  /\ VGoto(t, "destroy", "close")
  /\ kdev' = IF vfd[t] = "number" THEN "gone" ELSE kdev
  /\ vfd' = [vfd EXCEPT ![t] = "none"]
  /\ UNCHANGED <<enabled, injected, vptr, vfile, vev, vret>>

\* Nothing is done to a nil or closed file.
CloseFile(t) ==
  /\ VGoto(t, "close", "nil")
  /\ \/ /\ vptr = "set" /\ vfile = "open"
        /\ \/ /\ \E u \in Threads : vat[u] = "write"
              /\ vfile' = "closing"
              /\ UNCHANGED kdev
           \/ /\ \A u \in Threads : vat[u] # "write"
              /\ vfile' = "closed"
              /\ kdev' = "gone"
     \/ /\ vptr # "set" \/ vfile # "open"
        /\ UNCHANGED <<kdev, vfile>>
  /\ UNCHANGED <<enabled, injected, vptr, vev, vfd, vret>>

SetNil(t) ==
  /\ VReturn(t, "nil", "closed")
  /\ vptr' = "nil"
  /\ UNCHANGED <<kdev, enabled, injected, vfile, vev, vfd>>

CloseOut(t) == CloseAgain(t) \/ CloseBegin(t)

\* How a call that was made goes on.
VProceed(t) ==
  \/ Enable(t) \/ Setup(t) \/ Create(t)
  \/ WriteLock(t) \/ WriteDone(t)
  \/ CloseFd(t) \/ Destroy(t) \/ CloseFile(t) \/ SetNil(t)
-----------------------------------------------------------------------------
VirtualInit ==
  /\ kdev = "none"
  /\ enabled = {}
  /\ injected = <<>>
  /\ vptr = "none"
  /\ vfile = "none"
  /\ vat = [t \in Threads |-> "idle"]
  /\ vev = [t \in Threads |-> Marker]
  /\ vfd = [t \in Threads |-> "none"]
  /\ vret = [t \in Threads |-> "none"]

\* One device, so one creation.
VirtualNext ==
  \E t \in Threads :
    \/ vret = [u \in Threads |-> "none"] /\ CreateOpen(t)
    \/ \E e \in OutEvents \cup {Marker} : WriteBegin(t, e)
    \/ t \in Closers /\ CloseOut(t)
    \/ VProceed(t)

VirtualSafety == VirtualInit /\ [][VirtualNext]_virtualVars
-----------------------------------------------------------------------------
VirtualTypeOK ==
  /\ kdev \in {"none", "new", "live", "gone"}
  /\ enabled \subseteq Required
  /\ injected \in Seq(OutEvents \cup {Marker})
  /\ Len(injected) <= MaxInject
  /\ vptr \in {"none", "set", "nil"}
  /\ vfile \in {"none", "open", "closing", "closed"}
  /\ vat \in [Threads -> {"idle", "enable", "setup", "create", "locking", "write",
                           "fd", "destroy", "close", "nil"}]
  /\ vev \in [Threads -> OutEvents \cup {Marker}]
  /\ vfd \in [Threads -> {"none", "number", "bad"}]
  /\ vret \in [Threads -> {"none", "ok", "closed", "ErrCreate", "ErrInvalid", "ErrClosed",
                            "EINVAL"}]

\* The kernel requires every event type and code be registered before the
\* device is created (uinput.go:92-93): there is no device that lacks some of
\* what it was asked to have, whatever ioctl failed on the way.
CreatedWhole == kdev = "live" => enabled = Required

\* When CreateVirtualDevice fails, its caller has nothing to close: no
\* descriptor is open and no device exists (uinput.go:94-109).
FailureLeavesNothing ==
  \A t \in Threads :
    vret[t] = "ErrCreate" /\ vptr = "none" => vfile \in {"none", "closed"} /\ kdev # "live"

\* Close destroys the device (uinput.go:172): once v.f is nil no write injects
\* anything, not even one that Close found in the kernel.
QuietAfterClose == [][vptr = "nil" => UNCHANGED injected]_virtualVars

\* With one goroutine to close the device, UI_DEV_DESTROY is not made on a
\* number that has been closed and may be another file's (uinput.go:178).
DestroyOnOwnFile ==
  \A t \in Threads : vat[t] = "destroy" /\ vfd[t] = "number" => vfile # "closed"
=============================================================================

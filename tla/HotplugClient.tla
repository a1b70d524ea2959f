--------------------------- MODULE HotplugClient ---------------------------
(***************************************************************************)
(* A program that keeps track of the devices, the way the comment on       *)
(* Watcher (watch.go:33-42) asks for it and examples/watch/main.go does    *)
(* it: create the Watcher, then list the nodes that are there, then apply  *)
(* the notifications in a range loop over Events, and when that ends take  *)
(* the error from Errors.  Other goroutines of the program may call Close. *)
(*                                                                         *)
(* Listing is not atomic: ListDevicePaths reads the directory while it     *)
(* changes, and a name that comes or goes meanwhile may or may not be in   *)
(* the result.  Nor need it see the whole: filepath.Glob passes over a     *)
(* directory that it cannot open or read to the end (discover.go:18).      *)
(***************************************************************************)
EXTENDS Watcher

VARIABLES
  client,   \* where the program is
  touched,  \* nodes that changed while the directory was being read
  view,     \* the nodes the program takes to be there
  unlisted  \* those the listing left out, as long as it has been told nothing of them

clientVars == <<client, touched, view, unlisted>>
allVars    == <<vars, clientVars>>

ClientInit ==
  /\ Init
  /\ client = "creating"
  /\ touched = {}
  /\ view = {}
  /\ unlisted = {}

\* Mutant: the devices are listed before the Watcher is created.
CreatedTooSoon ==
  /\ client = "creating"
  /\ client' = "created"
  /\ UNCHANGED <<vars, touched, view, unlisted>>

\* NewWatcher has returned; with an error the program exits.
Created ==
  /\ client = "creating"
  /\ \/ Started /\ client' = "created"
     \/ pc = "refused" /\ client' = "stopped"
  /\ UNCHANGED <<vars, touched, view, unlisted>>

ListBegin ==
  /\ client = "created"
  /\ client' = "listing"
  /\ touched' = {}
  /\ UNCHANGED <<vars, view, unlisted>>

\* Mutant: names without the prefix are listed as well.
ListEverything ==
  /\ client = "listing"
  /\ client' = "ranging"
  /\ \E seen \in SUBSET touched : view' = (present \ touched) \cup seen
  /\ unlisted' = {}
  /\ touched' = {}
  /\ UNCHANGED vars

\* ListDevicePaths returns: what did not change meanwhile is listed as it is.
ListEnd ==
  /\ client = "listing"
  /\ client' = "ranging"
  /\ \E seen \in SUBSET touched : view' = ((present \cap Nodes) \ touched) \cup seen
  /\ unlisted' = {}
  /\ touched' = {}
  /\ UNCHANGED vars

\* It returns some of the names, and no error.
ListPart ==
  /\ "read_dir" \in Faults
  /\ client = "listing"
  /\ client' = "ranging"
  /\ view' \in SUBSET ((present \cap Nodes) \cup touched)
  /\ unlisted' = ((present \cap Nodes) \ touched) \ view'
  /\ touched' = {}
  /\ UNCHANGED vars

Apply(r, nodes) ==
  IF DeviceAction(r) = "DeviceAdded" THEN nodes \cup {r.name} ELSE nodes \ {r.name}

\* An iteration of the range loop over Events.
RangeNext ==
  /\ client = "ranging"
  /\ EmitSend
  /\ view' = Apply(Record, view)
  /\ unlisted' = unlisted \ {Record.name}
  /\ UNCHANGED <<client, touched>>

RangeEnd ==
  /\ client = "ranging"
  /\ events = "closed"
  /\ client' = "errors"
  /\ UNCHANGED <<vars, touched, view, unlisted>>

\* The receive from Errors after the loop.
TakeErr ==
  /\ client = "errors"
  /\ ReceiveErr
  /\ client' = "stopped"
  /\ UNCHANGED <<touched, view, unlisted>>

\* A change of a node while the directory is being read.
Change(n) ==
  /\ Appear(n) \/ Disappear(n)
  /\ touched' = IF client = "listing" THEN touched \cup ({n} \cap Nodes) ELSE touched
  /\ UNCHANGED <<client, view, unlisted>>

Program == Created \/ ListBegin \/ ListEnd \/ ListPart \/ RangeNext \/ RangeEnd \/ TakeErr

Background ==
  /\ \/ DirVanishes
     \/ newWatcher
     \/ LoopStep
     \/ \E c \in Closers : CallClose(c) \/ CloseStep(c)
  /\ UNCHANGED clientVars

ClientNext == Program \/ Background \/ \E n \in Names : Change(n)

ClientSafety == ClientInit /\ [][ClientNext]_allVars

\* The program's main goroutine runs too; RangeNext competes with Close only
\* in the select of emit.
ClientSpec ==
  /\ ClientSafety
  /\ WF_allVars(newWatcher /\ UNCHANGED clientVars)
  /\ WF_allVars(LoopRuns /\ UNCHANGED clientVars)
  /\ SF_allVars(Read /\ UNCHANGED clientVars)
  /\ \A c \in Closers : WF_allVars(CloseStep(c) /\ UNCHANGED clientVars)
  /\ WF_allVars(Program)
-----------------------------------------------------------------------------
ClientTypeOK ==
  /\ TypeOK
  /\ client \in {"creating", "created", "listing", "ranging", "errors", "stopped"}
  /\ touched \subseteq Nodes
  /\ view \subseteq Nodes
  /\ unlisted \subseteq Nodes

\* The records that are still on their way to the program.
Pending == {i \in (emitPos + 1)..Len(log) : Relevant(log[i])}

\* What the program can know: a node that the listing left out is not known until
\* something happens to it.
Known == (present \cap Nodes) \ unlisted

\* Creating the Watcher before listing misses nothing (watch.go:37-40): while
\* the watch lives and the kernel dropped no record, a program with nothing
\* left to receive has exactly the nodes that are there, whatever came and
\* went during startup and while it was listing.  Where the directory could not be
\* read to its end it lacks those that were left out and of which nothing has been
\* told since, and no others.
NothingMissed ==
  client = "ranging" /\ watch = "live" /\ missed = 0 /\ Pending = {} => view = Known

\* The same without the proviso on dropped records, which is what the comment
\* says: any node that races in will also arrive on Events (watch.go:39-40).
NothingEverMissed ==
  client = "ranging" /\ watch = "live" /\ emitPos = Len(log)
    => view = present \cap Nodes

\* Once the directory stays as it is, the program gets to know it, as far as it
\* could list it, or sees Events closed.
EventuallyKnown ==
  <>[](pc = "refused" \/ events = "closed" \/ missed > 0 \/ view = Known)

\* After Events is closed, check Errors (watch.go:42-43), as the last lines of
\* examples/watch/main.go do (42-45): a program of which nothing else calls Close,
\* and which stops ranging because the Watcher did, finds the error there and comes
\* to its end, whichever call failed and whatever it was doing then.
ProgramStops == client = "errors" ~> client = "stopped"
=============================================================================

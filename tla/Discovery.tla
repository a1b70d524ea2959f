----------------------------- MODULE Discovery -----------------------------
(***************************************************************************)
(* discover.go: ListDevices and ListKeyboards, while devices come and go   *)
(* and their nodes become readable or not, as when udev sets them up.      *)
(*                                                                         *)
(* The paths come from filepath.Glob, which reports no error of reading    *)
(* /dev/input: where the process may not read it, has no descriptor left   *)
(* for it, or the reading breaks off, the list is short and nobody is told *)
(* (discover.go:16-24).                                                    *)
(*                                                                         *)
(* A path is a natural number, its place in the order of paths.  An open   *)
(* file belongs to the device that was there when it was opened: it dies   *)
(* with it, whatever has the path later.                                   *)
(***************************************************************************)
EXTENDS Queries, SequencesExt

CONSTANTS
  Paths,       \* of nodes that devices can have, naturals
  Kinds,       \* of devices
  NoNode,      \* what is at a path without a node
  FdLimits,    \* how many files the process may have left to open
  MaxChanges   \* bound on the number of changes to nodes

ASSUME DiscoveryAssumption ==
  /\ IsFiniteSet(Paths) /\ Paths \subseteq Nat
  /\ \A dev \in Kinds : IsDevice(dev)
  /\ FdLimits \subseteq Nat
  /\ MaxChanges \in Nat
  /\ NoNode \notin [dev : Kinds, readable : BOOLEAN]

VARIABLES
  node,     \* what is at each path: a device, and whether its node is readable
  changes,  \* how often that changed
  limit,    \* how many files the process can have open
  files,    \* the files that were opened, as Open returned them
  listing,  \* where the call is: "idle", "glob", "open", "query", "done", "failed"
  wanted,   \* which function was called
  rest,     \* what its loop still has to go through: paths, or indices of files
  devices,  \* the list it makes: indices of files
  touched,  \* the paths where a device came or went since the call
  chmodded, \* and those whose permissions were changed
  cut       \* whether the directory could not be read, or not to its end

nodeVars == <<node, changes, limit, touched, chmodded, cut>>
listVars == <<files, listing, wanted, rest, devices>>
discoveryVars == <<nodeVars, listVars>>

\* What the queries return of each kind of device.
Answer ==
  [dev \in Kinds |->
     [keyboard |-> IsKeyboard(dev),
      types    |-> CapableTypes(dev),
      props    |-> CapableProps(dev),
      codes    |-> [t \in 0..EV_MAX |-> CapableCodes(dev, t)]]]

Nodes == [dev : Kinds, readable : BOOLEAN]
Present == {p \in Paths : node[p] # NoNode}
OpenFiles == {i \in DOMAIN files : files[i].open}

\* The environment changes something at a path.
Change(p) ==
  /\ changes < MaxChanges
  /\ changes' = changes + 1
  /\ UNCHANGED <<limit, cut, listing, wanted, rest, devices>>

Plug(p) ==
  /\ node[p] = NoNode
  /\ \E n \in Nodes : node' = [node EXCEPT ![p] = n]
  /\ touched' = touched \cup {p}
  /\ UNCHANGED <<files, chmodded>>
  /\ Change(p)

Unplug(p) ==
  /\ node[p] # NoNode
  /\ node' = [node EXCEPT ![p] = NoNode]
  /\ files' = [i \in DOMAIN files |->
                 IF files[i].path = p THEN [files[i] EXCEPT !.alive = FALSE] ELSE files[i]]
  /\ touched' = touched \cup {p}
  /\ UNCHANGED chmodded
  /\ Change(p)

Chmod(p) ==
  /\ node[p] # NoNode
  /\ node' = [node EXCEPT ![p].readable = ~@]
  /\ chmodded' = chmodded \cup {p}
  /\ UNCHANGED <<files, touched>>
  /\ Change(p)

Environment == \E p \in Paths : Plug(p) \/ Unplug(p) \/ Chmod(p)
-----------------------------------------------------------------------------
\* What Open makes of a path: an error, or a file.
OpenError(p) ==
  CASE Cardinality(OpenFiles) >= limit   -> "EMFILE"
    [] node[p] = NoNode                  -> "ENOENT"
    [] ~node[p].readable                 -> "EACCES"
    [] OTHER                             -> "none"

Opened(p) == [path |-> p, dev |-> node[p].dev, alive |-> TRUE, open |-> TRUE, grabs |-> FALSE]

\* Closing a file releases its grab.
Closed(fs, is) ==
  [i \in DOMAIN fs |-> IF i \in is THEN [fs[i] EXCEPT !.open = FALSE, !.grabs = FALSE] ELSE fs[i]]

closeAll(is) == files' = Closed(files, is)

\* The call, by a program that has not called before.
Call(which) ==
  /\ listing = "idle"
  /\ listing' = "glob"
  /\ wanted' = which
  /\ touched' = {}
  /\ chmodded' = {}
  /\ cut' = FALSE
  /\ UNCHANGED <<node, changes, limit, files, rest, devices>>

\* A set of paths, sorted.
Sorted(ps) ==
  {s \in [1..Cardinality(ps) -> ps] : \A j, k \in DOMAIN s : j < k => s[j] < s[k]}

\* What filepath.Glob can find: where devices came or went meanwhile, either may be
\* seen.  It needs a file of its own to read the directory.
Found == {(Present \ touched) \cup seen : seen \in SUBSET touched}

Readable == Cardinality(OpenFiles) < limit

\* ListDevicePaths, of a directory that is read to its end.
ListDevicePaths ==
  /\ listing = "glob" /\ Readable
  /\ listing' = "open"
  /\ \E ps \in Found : rest' \in Sorted(ps)
  /\ UNCHANGED <<nodeVars, files, wanted, devices>>

\* The stat, the opening or the reading of the directory fails: Glob returns the
\* names it has got by then, none if it could not open it, and no error.  If it had
\* all of them by then, it has done what ListDevicePaths does.
ListPathsCut ==
  /\ listing = "glob"
  /\ listing' = "open"
  /\ cut' = TRUE
  /\ \E ps \in IF Readable THEN SUBSET (Present \cup touched) \ Found ELSE {{}} :
       rest' \in Sorted(ps)
  /\ UNCHANGED <<node, changes, limit, touched, chmodded, files, wanted, devices>>

\* An iteration of the loop of ListDevices.
OpenNext ==
  /\ listing = "open" /\ rest # <<>>
  /\ OpenError(Head(rest)) = "none"
  /\ files' = Append(files, Opened(Head(rest)))
  /\ devices' = Append(devices, Len(files) + 1)
  /\ rest' = Tail(rest)
  /\ UNCHANGED <<nodeVars, listing, wanted>>

SkipNext ==
  /\ listing = "open" /\ rest # <<>>
  /\ OpenError(Head(rest)) = "EACCES"
  /\ rest' = Tail(rest)
  /\ UNCHANGED <<nodeVars, files, listing, wanted, devices>>

\* Mutant: the devices opened so far are left open.
AbortOnly ==
  /\ listing = "open" /\ rest # <<>>
  /\ OpenError(Head(rest)) \in {"EMFILE", "ENOENT"}
  /\ listing' = "failed"
  /\ devices' = <<>>
  /\ UNCHANGED <<nodeVars, files, wanted, rest>>

Abort ==
  /\ listing = "open" /\ rest # <<>>
  /\ OpenError(Head(rest)) \in {"EMFILE", "ENOENT"}
  /\ closeAll(ToSet(devices))
  /\ listing' = "failed"
  /\ devices' = <<>>
  /\ UNCHANGED <<nodeVars, wanted, rest>>

\* Mutant: the keyboards are appended to the list of all devices.
ListedAll ==
  /\ listing = "open" /\ rest = <<>>
  /\ IF wanted = "keyboards" THEN listing' = "query" /\ rest' = devices
     ELSE listing' = "done" /\ UNCHANGED rest
  /\ UNCHANGED <<nodeVars, files, wanted, devices>>

\* ListDevices returns, to ListKeyboards when that called it.
ListedDevices ==
  /\ listing = "open" /\ rest = <<>>
  /\ IF wanted = "keyboards" THEN listing' = "query" /\ rest' = devices /\ devices' = <<>>
     ELSE listing' = "done" /\ UNCHANGED <<rest, devices>>
  /\ UNCHANGED <<nodeVars, files, wanted>>

\* Mutant: a device that cannot be asked is kept.
QueryTrusts ==
  /\ listing = "query" /\ rest # <<>>
  /\ LET i == Head(rest)
     IN IF files[i].alive => Answer[files[i].dev].keyboard
        THEN devices' = Append(devices, i) /\ UNCHANGED files
        ELSE closeAll({i}) /\ UNCHANGED devices
  /\ rest' = Tail(rest)
  /\ UNCHANGED <<nodeVars, listing, wanted>>

\* An iteration of the loop of ListKeyboards; of a device that has gone there
\* is nothing but an error.
QueryNext ==
  /\ listing = "query" /\ rest # <<>>
  /\ LET i == Head(rest)
     IN IF files[i].alive /\ Answer[files[i].dev].keyboard
        THEN devices' = Append(devices, i) /\ UNCHANGED files
        ELSE closeAll({i}) /\ UNCHANGED devices
  /\ rest' = Tail(rest)
  /\ UNCHANGED <<nodeVars, listing, wanted>>

ListedKeyboards ==
  /\ listing = "query" /\ rest = <<>>
  /\ listing' = "done"
  /\ UNCHANGED <<nodeVars, files, wanted, rest, devices>>

Listing ==
  \/ ListDevicePaths \/ ListPathsCut
  \/ OpenNext \/ SkipNext \/ Abort \/ ListedDevices
  \/ QueryNext \/ ListedKeyboards

DiscoveryInit ==
  /\ node \in [Paths -> Nodes \cup {NoNode}]
  /\ changes = 0
  /\ limit \in FdLimits
  /\ files = <<>>
  /\ listing = "idle"
  /\ wanted = "nothing"
  /\ rest = <<>>
  /\ devices = <<>>
  /\ touched = {}
  /\ chmodded = {}
  /\ cut = FALSE
=============================================================================

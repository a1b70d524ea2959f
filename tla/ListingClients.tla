--------------------------- MODULE ListingClients ---------------------------
(***************************************************************************)
(* Programs that list devices and use the list: examples/lsinput, which    *)
(* asks every device what it is and what it can do; examples/monitor,      *)
(* which reads every device, or those of its arguments, in a goroutine     *)
(* each; and one that asks for the keyboards and keeps them.               *)
(***************************************************************************)
EXTENDS Discovery

CONSTANTS
  Programs,   \* "lsinput", "monitor", "monitor -grab", "keyboards"
  Arguments,  \* sequences of paths that monitor may be given
  MaxFiles    \* bound on the files a program opens

ASSUME ClientsAssumption ==
  /\ Arguments \subseteq Seq(Paths)
  /\ MaxFiles \in Nat /\ Cardinality(Paths) <= MaxFiles
  /\ \A a \in Arguments : Len(a) <= MaxFiles

VARIABLES
  program,  \* the one that runs
  args,     \* its arguments
  pc,       \* where main is
  left,     \* what its loop still has to go through, indices of files
  query,    \* lsinput: what it asks next
  shown,    \* lsinput: what it prints, for each file
  taken,    \* paths of devices that another program has grabbed
  reader,   \* monitor: where the goroutine of each file is
  wg        \* monitor: the counter of the WaitGroup

progVars == <<pc, left, query, shown, reader, wg>>
allVars  == <<discoveryVars, program, args, progVars, taken>>

Monitors == program \in {"monitor", "monitor -grab"}

\* Any error of the list ends the program, by os.Exit.
Begin ==
  /\ pc = "main"
  /\ args = <<>>
  /\ Call(IF program = "keyboards" THEN "keyboards" ELSE "devices")
  /\ pc' = "listing"
  /\ UNCHANGED <<left, query, shown, reader, wg>>

List ==
  /\ Listing
  /\ UNCHANGED progVars

\* openDevices with arguments.
OpenArgument ==
  /\ pc = "main" /\ left # <<>>
  /\ OpenError(Head(left)) = "none"
  /\ files' = Append(files, Opened(Head(left)))
  /\ devices' = Append(devices, Len(files) + 1)
  /\ left' = Tail(left)
  /\ UNCHANGED <<nodeVars, listing, wanted, rest, pc, query, shown, reader, wg>>

\* What it has opened stays open, for os.Exit.
ArgumentFails ==
  /\ pc = "main" /\ left # <<>>
  /\ OpenError(Head(left)) # "none"
  /\ pc' = "exited"
  /\ UNCHANGED <<discoveryVars, left, query, shown, reader, wg>>

ArgumentsOpened ==
  /\ pc = "main" /\ args # <<>> /\ left = <<>>
  /\ pc' = "loop"
  /\ left' = devices
  /\ UNCHANGED <<discoveryVars, query, shown, reader, wg>>

\* The list is there.
Got ==
  /\ pc = "listing"
  /\ \/ listing = "failed" /\ pc' = "exited"
     \/ listing = "done" /\ devices = <<>> /\ pc' = "exited"
     \/ listing = "done" /\ devices # <<>> /\ pc' = IF program = "keyboards" THEN "keeps" ELSE "loop"
  /\ left' = devices
  /\ UNCHANGED <<discoveryVars, query, shown, reader, wg>>
-----------------------------------------------------------------------------
(* lsinput.  Errors are passed over: what cannot be asked is empty.        *)

NoCodes == [t \in {} |-> {}]

Blank == [name |-> "", phys |-> "", uniq |-> "", id |-> "", keyboard |-> FALSE,
          types |-> {}, props |-> {}, codes |-> NoCodes]

Asking(q) == /\ pc = "loop" /\ program = "lsinput" /\ left # <<>> /\ query = q
             /\ UNCHANGED <<discoveryVars, pc, reader, wg>>

\* The file being shown, and an answer of its device, if it is there.
It == Head(left)
Ask(answer, none) == IF files[It].alive THEN answer ELSE none

Show(part, answer) == shown' = [shown EXCEPT ![It][part] = answer]

\* What Name, Phys, Uniq and ID ask for, an ioctl each.
Identity == [name |-> Subject(eviocgname(256)), phys |-> Subject(eviocgphys(256)),
             uniq |-> Subject(eviocguniq(256)), id   |-> Subject(eviocgid)]

AskIdentity(part, next) ==
  /\ Asking(part)
  /\ Show(part, Ask(Identity[part], ""))
  /\ query' = next
  /\ UNCHANGED left

AskName == AskIdentity("name", "phys")
AskPhys == AskIdentity("phys", "uniq")
AskUniq == AskIdentity("uniq", "id")
AskID   == AskIdentity("id", "keyboard")

AskKeyboard ==
  /\ Asking("keyboard")
  /\ Show("keyboard", Ask(Answer[files[It].dev].keyboard, FALSE))
  /\ query' = "types"
  /\ UNCHANGED left

AskTypes ==
  /\ Asking("types")
  /\ Show("types", Ask(Answer[files[It].dev].types, {}))
  /\ query' = "props"
  /\ UNCHANGED left

AskProps ==
  /\ Asking("props")
  /\ Show("props", Ask(Answer[files[It].dev].props, {}))
  /\ query' = "codes"
  /\ UNCHANGED left

\* The types in their order; then the next device.
AskCodes ==
  /\ Asking("codes")
  /\ LET s == shown[It]
         more == s.types \ DOMAIN s.codes
         t == Min(more)
     IN IF more = {} THEN query' = "name" /\ left' = Tail(left) /\ UNCHANGED shown
        ELSE /\ Show("codes", [u \in DOMAIN s.codes \cup {t} |->
                                 IF u = t THEN Ask(Answer[files[It].dev].codes[t], {})
                                 ELSE s.codes[u]])
             /\ UNCHANGED <<query, left>>

\* The deferred calls of Close, when the loop is over.
CloseDeferred ==
  /\ pc = "loop" /\ program = "lsinput" /\ left = <<>>
  /\ closeAll(ToSet(devices))
  /\ pc' = "end"
  /\ UNCHANGED <<nodeVars, listing, wanted, rest, devices, left, query, shown, reader, wg>>

Lsinput ==
  \/ AskName \/ AskPhys \/ AskUniq \/ AskID
  \/ AskKeyboard \/ AskTypes \/ AskProps \/ AskCodes
  \/ CloseDeferred
-----------------------------------------------------------------------------
(* monitor.                                                                *)

InLoop == pc = "loop" /\ Monitors /\ left # <<>>

GrabAsked == Grabs(eviocgrab)

\* evdev lets one file of a device have the grab.
GrabGiven(i) ==
  /\ GrabAsked
  /\ files[i].alive
  /\ files[i].path \notin taken
  /\ \A j \in DOMAIN files : files[j].alive /\ files[j].grabs => files[j].path # files[i].path

Refuse ==
  /\ InLoop /\ program = "monitor -grab" /\ ~GrabGiven(It)
  /\ closeAll({It})
  /\ left' = Tail(left)
  /\ UNCHANGED <<nodeVars, listing, wanted, rest, devices, pc, query, shown, reader, wg>>

\* Mutant: wg.Add is left to the goroutine.
StartUncounted ==
  /\ InLoop
  /\ \/ program = "monitor" /\ UNCHANGED files
     \/ program = "monitor -grab" /\ GrabGiven(It) /\ files' = [files EXCEPT ![It].grabs = TRUE]
  /\ reader' = [reader EXCEPT ![It] = "reading"]
  /\ left' = Tail(left)
  /\ UNCHANGED <<nodeVars, listing, wanted, rest, devices, pc, query, shown, wg>>

\* wg.Add and the go statement, after Grab if that was asked for.
Start ==
  /\ InLoop
  /\ \/ program = "monitor" /\ UNCHANGED files
     \/ program = "monitor -grab" /\ GrabGiven(It) /\ files' = [files EXCEPT ![It].grabs = TRUE]
  /\ wg' = wg + 1
  /\ reader' = [reader EXCEPT ![It] = "reading"]
  /\ left' = Tail(left)
  /\ UNCHANGED <<nodeVars, listing, wanted, rest, devices, pc, query, shown>>

Wait ==
  /\ pc = "loop" /\ Monitors /\ left = <<>>
  /\ wg = 0
  /\ pc' = "ungrab"
  /\ UNCHANGED <<discoveryVars, left, query, shown, reader, wg>>

\* The deferred calls of Ungrab, on files that are closed: an error each.
UngrabDeferred ==
  /\ pc = "ungrab"
  /\ files' = [i \in DOMAIN files |->
                 IF files[i].open THEN [files[i] EXCEPT !.grabs = FALSE] ELSE files[i]]
  /\ pc' = "end"
  /\ UNCHANGED <<nodeVars, listing, wanted, rest, devices, left, query, shown, reader, wg>>

\* ReadOne returns an event of a device that is there, and its goroutine reads on;
\* of one that is not, an error, which ends the loop.
ReadError(i) ==
  /\ reader[i] = "reading" /\ ~files[i].alive
  /\ reader' = [reader EXCEPT ![i] = "closing"]
  /\ UNCHANGED <<discoveryVars, pc, left, query, shown, wg>>

CloseRead(i) ==
  /\ reader[i] = "closing"
  /\ closeAll({i})
  /\ reader' = [reader EXCEPT ![i] = "closed"]
  /\ UNCHANGED <<nodeVars, listing, wanted, rest, devices, pc, left, query, shown, wg>>

\* Mutant: a goroutine forgets wg.Done.
DoneForgotten(i) ==
  /\ reader[i] = "closed"
  /\ reader' = [reader EXCEPT ![i] = "done"]
  /\ UNCHANGED <<discoveryVars, pc, left, query, shown, wg>>

Done(i) ==
  /\ reader[i] = "closed"
  /\ wg' = wg - 1
  /\ reader' = [reader EXCEPT ![i] = "done"]
  /\ UNCHANGED <<discoveryVars, pc, left, query, shown>>

Goroutine(i) == ReadError(i) \/ CloseRead(i) \/ Done(i)
-----------------------------------------------------------------------------
ClientsInit ==
  /\ DiscoveryInit
  /\ program \in Programs
  /\ args \in IF Monitors THEN Arguments \cup {<<>>} ELSE {<<>>}
  /\ pc = "main"
  /\ left = args
  /\ query = "name"
  /\ shown = [i \in 1..MaxFiles |-> Blank]
  /\ taken \in IF program = "monitor -grab" THEN SUBSET Paths ELSE {{}}
  /\ reader = [i \in 1..MaxFiles |-> "none"]
  /\ wg = 0

Main ==
  /\ \/ Begin \/ List \/ OpenArgument \/ ArgumentFails \/ ArgumentsOpened \/ Got \/ Lsinput
     \/ Refuse \/ Start \/ Wait \/ UngrabDeferred
  /\ UNCHANGED <<program, args, taken>>

Reader(i) == Goroutine(i) /\ UNCHANGED <<program, args, taken>>

ClientsNext ==
  \/ Main
  \/ \E i \in 1..MaxFiles : Reader(i)
  \/ Environment /\ UNCHANGED <<program, args, progVars, taken>>

\* Goroutines that can run do, and a read of a device that is gone returns.
ClientsSpec ==
  /\ ClientsInit /\ [][ClientsNext]_allVars
  /\ WF_allVars(Main)
  /\ \A i \in 1..MaxFiles : WF_allVars(Reader(i))
-----------------------------------------------------------------------------
ListTypeOK ==
  /\ node \in [Paths -> Nodes \cup {NoNode}]
  /\ changes \in 0..MaxChanges
  /\ Len(files) <= MaxFiles
  /\ Cardinality(OpenFiles) <= limit
  /\ listing \in {"idle", "glob", "open", "query", "done", "failed"}
  /\ IsInjective(devices) /\ ToSet(devices) \subseteq DOMAIN files
  /\ pc \in {"main", "listing", "loop", "keeps", "ungrab", "end", "exited"}
  /\ wg \in 0..MaxFiles

\* A call gives the caller every file it leaves open, and none when it fails
\* (discover.go:26-31, 52-53), though it stops half-way, or drops some devices and
\* keeps others; and a program that ends by itself has closed what it was given.
NothingLeft ==
  /\ listing = "failed" => OpenFiles = {}
  /\ listing = "done" /\ pc \in {"listing", "keeps"} => OpenFiles = ToSet(devices)
  /\ pc = "end" => OpenFiles = {} /\ \A i \in DOMAIN files : ~files[i].grabs

Keyboard(dev) == {KEY_A, KEY_Z, KEY_SPACE} \subseteq dev.codes[EV_KEY]

\* Whatever comes and goes during a call, every device that was there and readable
\* all along is listed, if the directory could be read, in the order of the paths,
\* and of all devices only what looks like a keyboard if keyboards were asked for,
\* even if it died while being asked (discover.go:26-31, 52-53).  A call that could
\* not read it lists less, and it succeeds.  The call fails only if a device came or
\* went, or if there are too many files.
ListComplete ==
  LET steady == {p \in Present \ (touched \cup chmodded) : node[p].readable}
      asked(dev) == wanted = "keyboards" => Keyboard(dev)
      listed == [k \in DOMAIN devices |-> files[devices[k]].path]
  IN
  /\ listing = "done" =>
       /\ cut \/ {p \in steady : asked(node[p].dev)} \subseteq ToSet(listed)
       /\ \A i \in ToSet(devices) : asked(files[i].dev)
       /\ \A j, k \in DOMAIN listed : j < k => listed[j] < listed[k]
  /\ listing = "failed" =>
       touched # {} \/ Cardinality(steady \cup chmodded) >= limit

\* What lsinput has shown of a device is what that device has, through the numbers
\* of requests, the masks and their bytes, at the edges of each, and of one that
\* went meanwhile no more than that.  EV_SYN is left to ShownOfType.
ShownRight ==
  \A i \in DOMAIN files :
    LET s == shown[i]
        dev == files[i].dev
        truth == [name |-> "name", phys |-> "phys", uniq |-> "uniq", id |-> "id",
                  keyboard |-> Keyboard(dev), types |-> dev.types, props |-> dev.props]
        has(t) == IF t \in DOMAIN dev.codes THEN dev.codes[t] ELSE {}
    IN program = "lsinput" =>
       /\ \A part \in DOMAIN truth : s[part] \in {truth[part], Blank[part]}
       /\ \A t \in DOMAIN s.codes \ {EV_SYN} : s.codes[t] \in {has(t), {}}
       /\ pc = "loop" /\ files[i].alive /\ i \notin ToSet(left) =>
            /\ \A part \in DOMAIN truth : s[part] = truth[part]
            /\ DOMAIN s.codes = dev.types
            /\ \A t \in dev.types \ {EV_SYN} : s.codes[t] = has(t)

\* CapableCodes returns the codes the device supports for the given event type
\* (device.go:148-149), and CapableTypes has EV_SYN among the types: what is shown
\* as codes of EV_SYN are such codes.
ShownOfType ==
  \A i \in DOMAIN files :
    EV_SYN \in DOMAIN shown[i].codes => shown[i].codes[EV_SYN] \subseteq 0..SYN_MAX

\* monitor reads a device until that errors or disappears (examples/monitor/
\* main.go:83-84): it neither ends nor closes a file while a device it has is there,
\* and is not refused, however the goroutines end and main gets ahead of them.
WaitsForAll ==
  Monitors => \A i \in ToSet(devices) :
    files[i].alive /\ pc \in {"loop", "ungrab", "end"} =>
      \/ pc = "loop" /\ i \in ToSet(left)
      \/ pc = "loop" /\ reader[i] = "reading" /\ files[i].open
      \/ program = "monitor -grab" /\ reader[i] = "none" /\ ~files[i].open

\* Every program ends, or keeps its keyboards, but for monitor, which ends once
\* its devices have gone, one after the other or before it has begun to read them.
ProgramEnds ==
  (Monitors => \A i \in ToSet(devices) : ~files[i].alive)
    ~> \/ pc \in {"end", "exited", "keeps"}
       \/ Monitors /\ \E i \in ToSet(devices) : files[i].alive
=============================================================================

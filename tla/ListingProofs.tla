--------------------------- MODULE ListingProofs ---------------------------
(***************************************************************************)
(* Theorems about the programs of ListingClients, for all paths, kinds of  *)
(* devices, arguments and limits: what stays open, whom monitor waits for, *)
(* what is on the list, and what lsinput shows of it.                      *)
(***************************************************************************)
EXTENDS ListingClients, QueriesProofs, FiniteSetTheorems

FileType == [path : Paths, dev : Kinds, alive : BOOLEAN, open : BOOLEAN, grabs : BOOLEAN]

\* The goroutines that wg counts, and those of them whose file is open.
Counted == {i \in 1..MaxFiles : reader[i] \in {"reading", "closing", "closed"}}
Busy    == {i \in 1..MaxFiles : reader[i] \in {"reading", "closing"}}

AtWork == pc \in {"loop", "ungrab", "end"}

TypeInv ==
  /\ node \in [Paths -> Nodes \cup {NoNode}]
  /\ touched \subseteq Paths
  /\ files \in Seq(FileType)
  /\ devices \in Seq(Nat) /\ IsInjective(devices) /\ ToSet(devices) \subseteq DOMAIN files
  /\ reader \in [1..MaxFiles -> {"none", "reading", "closing", "closed", "done"}]
  /\ listing \in {"idle", "glob", "open", "query", "done", "failed"}
  /\ pc \in {"main", "listing", "loop", "keeps", "ungrab", "end", "exited"}
  /\ args \in Seq(Paths) /\ (args # <<>> => Monitors)

\* What the loops go through, and that it fits.
LoopInv ==
  /\ Len(files) <= MaxFiles
  /\ listing = "open" => rest \in Seq(Paths) /\ Len(files) + Len(rest) <= MaxFiles
  /\ listing = "query" => /\ rest \in Seq(Nat) /\ IsInjective(rest)
                          /\ ToSet(rest) \subseteq DOMAIN files
                          /\ ToSet(rest) \cap ToSet(devices) = {}
  /\ pc = "main" => left \in Seq(Paths) /\ Len(files) + Len(left) <= MaxFiles
  /\ pc = "loop" => /\ left \in Seq(Nat) /\ IsInjective(left)
                    /\ ToSet(left) \subseteq ToSet(devices)

\* Where main and the call that it makes are.
PhaseInv ==
  /\ pc = "main" => listing = "idle"
  /\ pc = "main" /\ args = <<>> => files = <<>> /\ devices = <<>> /\ left = <<>>
  /\ listing \in {"glob", "open", "query"} => pc = "listing"
  /\ pc = "listing" => listing # "idle"
  /\ listing = "glob" => files = <<>> /\ devices = <<>>
  /\ listing = "failed" => pc \in {"listing", "exited"}
  /\ pc = "ungrab" => Monitors

\* Which files are open, wherever main is.
OpenInv ==
  /\ pc = "main" \/ listing = "open" => OpenFiles = ToSet(devices)
  /\ listing = "query" => OpenFiles = ToSet(devices) \cup ToSet(rest)
  /\ listing = "done" /\ pc \in {"listing", "keeps"} => OpenFiles = ToSet(devices)
  /\ listing = "failed" \/ pc \in {"ungrab", "end"} => OpenFiles = {}
  /\ pc = "loop" /\ Monitors => OpenFiles = ToSet(left) \cup Busy
  /\ pc = "loop" /\ ~Monitors => OpenFiles = ToSet(devices)
  /\ \A i \in DOMAIN files : files[i].grabs => files[i].open

\* What monitor's goroutines do, and that main has counted them.
ReaderInv ==
  /\ ~Monitors \/ ~AtWork => reader = [i \in 1..MaxFiles |-> "none"]
  /\ wg = Cardinality(Counted)
  /\ pc \in {"ungrab", "end"} => Counted = {}
  /\ pc = "loop" => \A i \in ToSet(left) : reader[i] = "none"
  /\ \A i \in 1..MaxFiles :
       /\ reader[i] # "none" => i \in DOMAIN files
       /\ reader[i] \in {"closing", "closed", "done"} => ~files[i].alive
  /\ AtWork /\ Monitors =>
       \A i \in ToSet(devices) :
         \/ reader[i] # "none"
         \/ pc = "loop" /\ i \in ToSet(left)
         \/ program = "monitor -grab" /\ ~files[i].open

Inv == TypeInv /\ LoopInv /\ PhaseInv /\ OpenInv /\ ReaderInv
-----------------------------------------------------------------------------
LEMMA EmptyList ==
  \A s : s = <<>> => Len(s) = 0 /\ DOMAIN s = {} /\ ToSet(s) = {} /\ IsInjective(s)
<1> SUFFICES ASSUME NEW s, s = <<>>
             PROVE  Len(s) = 0 /\ DOMAIN s = {} /\ ToSet(s) = {} /\ IsInjective(s)
  OBVIOUS
<1>1. Len(s) = 0
  OBVIOUS
<1>2. DOMAIN s = {}
  OBVIOUS
<1>3. ToSet(s) = {}
  BY <1>2, Zenon DEF ToSet
<1>4. IsInjective(s)
  BY <1>2, Zenon DEF IsInjective
<1> QED  BY <1>1, <1>2, <1>3, <1>4

LEMMA AppendSet ==
  ASSUME NEW S, NEW s \in Seq(S), NEW x \in S
  PROVE  /\ Append(s, x) \in Seq(S) /\ Len(Append(s, x)) = Len(s) + 1
         /\ ToSet(Append(s, x)) = ToSet(s) \cup {x}
         /\ IsInjective(s) /\ x \notin ToSet(s) => IsInjective(Append(s, x))
<1>1. DOMAIN Append(s, x) = 1..(Len(s) + 1) /\ Append(s, x)[Len(s) + 1] = x
  OBVIOUS
<1>2. \A i \in 1..Len(s) : Append(s, x)[i] = s[i]
  OBVIOUS
<1>3. ToSet(Append(s, x)) = ToSet(s) \cup {x}
  BY <1>1, <1>2 DEF ToSet
<1>4. IsInjective(s) /\ x \notin ToSet(s) => IsInjective(Append(s, x))
  BY <1>1, <1>2 DEF ToSet, IsInjective
<1> QED  BY <1>3, <1>4

LEMMA TailSet ==
  ASSUME NEW S, NEW s \in Seq(S), s # <<>>
  PROVE  /\ Tail(s) \in Seq(S) /\ Head(s) \in S /\ Len(s) = Len(Tail(s)) + 1
         /\ ToSet(s) = {Head(s)} \cup ToSet(Tail(s))
         /\ IsInjective(s) => IsInjective(Tail(s)) /\ Head(s) \notin ToSet(Tail(s))
<1>1. /\ Len(s) \in Nat \ {0} /\ Head(s) = s[1] /\ DOMAIN Tail(s) = 1..(Len(s) - 1)
      /\ Len(Tail(s)) = Len(s) - 1 /\ Tail(s) \in Seq(S) /\ Head(s) \in S
  OBVIOUS
<1>2. \A i \in 1..(Len(s) - 1) : Tail(s)[i] = s[i + 1]
  OBVIOUS
<1>3. ToSet(s) = {Head(s)} \cup ToSet(Tail(s))
  <2>1. \A i \in DOMAIN s : i = 1 \/ (i - 1 \in DOMAIN Tail(s) /\ s[i] = Tail(s)[i - 1])
    BY <1>1, <1>2
  <2>2. \A i \in DOMAIN Tail(s) : i + 1 \in DOMAIN s /\ s[i + 1] = Tail(s)[i]
    BY <1>1, <1>2
  <2>3. 1 \in DOMAIN s
    BY <1>1
  <2> QED  BY <1>1, <2>1, <2>2, <2>3 DEF ToSet
<1>4. IsInjective(s) => IsInjective(Tail(s)) /\ Head(s) \notin ToSet(Tail(s))
  BY <1>1, <1>2 DEF ToSet, IsInjective
<1> QED  BY <1>1, <1>3, <1>4

\* Closing files changes nothing else about them.
LEMMA ClosedFiles ==
  ASSUME NEW fs \in Seq(FileType), NEW is
  PROVE  /\ Closed(fs, is) \in Seq(FileType)
         /\ Len(Closed(fs, is)) = Len(fs) /\ DOMAIN Closed(fs, is) = DOMAIN fs
         /\ \A i \in DOMAIN fs :
              /\ Closed(fs, is)[i].open <=> fs[i].open /\ i \notin is
              /\ Closed(fs, is)[i].grabs <=> fs[i].grabs /\ i \notin is
              /\ Closed(fs, is)[i].alive <=> fs[i].alive
<1>1. DOMAIN fs = 1..Len(fs) /\ Len(fs) \in Nat /\ \A i \in DOMAIN fs : fs[i] \in FileType
  OBVIOUS
<1>2. \A i \in DOMAIN fs : [fs[i] EXCEPT !.open = FALSE, !.grabs = FALSE] \in FileType
  BY <1>1 DEF FileType
<1>3. Closed(fs, is) \in [1..Len(fs) -> FileType]
  BY <1>1, <1>2 DEF Closed
<1>4. Closed(fs, is) \in Seq(FileType) /\ Len(Closed(fs, is)) = Len(fs)
  BY <1>1, <1>3
<1>5. ASSUME NEW i \in DOMAIN fs
      PROVE  /\ Closed(fs, is)[i].open <=> fs[i].open /\ i \notin is
             /\ Closed(fs, is)[i].grabs <=> fs[i].grabs /\ i \notin is
             /\ Closed(fs, is)[i].alive <=> fs[i].alive
  BY <1>1 DEF Closed, FileType
<1> QED  BY <1>1, <1>3, <1>4, <1>5
-----------------------------------------------------------------------------
Steady == UNCHANGED <<program, args, taken>>

\* With no goroutine started there is nothing to count.
LEMMA NoneCounted ==
  reader = [i \in 1..MaxFiles |-> "none"] => Counted = {} /\ Busy = {} /\ Cardinality(Counted) = 0
<1>1. reader = [i \in 1..MaxFiles |-> "none"] => Counted = {} /\ Busy = {}
  BY DEF Counted, Busy
<1> QED  BY <1>1, FS_EmptySet

LEMMA InitKeeps == ClientsInit => Inv
<1> SUFFICES ASSUME ClientsInit PROVE Inv
  OBVIOUS
<1>1. /\ node \in [Paths -> Nodes \cup {NoNode}] /\ touched = {} /\ files = <<>> /\ devices = <<>>
      /\ listing = "idle" /\ pc = "main" /\ left = args /\ wg = 0
      /\ reader = [i \in 1..MaxFiles |-> "none"]
  BY DEF ClientsInit, DiscoveryInit
<1>2. args \in Seq(Paths) /\ (args # <<>> => Monitors) /\ Len(args) \in Nat /\ Len(args) <= MaxFiles
  <2>1. args = <<>> \/ (Monitors /\ args \in Arguments)
    BY DEF ClientsInit
  <2>2. CASE args = <<>>
    <3>1. Len(args) = 0 /\ args \in Seq(Paths)
      BY <2>2
    <3> QED  BY <2>2, <3>1, ClientsAssumption
  <2>3. CASE Monitors /\ args \in Arguments
    BY <2>3, ClientsAssumption
  <2> QED  BY <2>1, <2>2, <2>3
<1>3. /\ ToSet(files) = {} /\ Len(files) = 0 /\ DOMAIN files = {} /\ files \in Seq(FileType)
      /\ ToSet(devices) = {} /\ IsInjective(devices) /\ devices \in Seq(Nat)
  <2>1. files \in Seq(FileType) /\ devices \in Seq(Nat)
    BY <1>1
  <2>2. ToSet(files) = {} /\ Len(files) = 0 /\ DOMAIN files = {}
    BY <1>1, EmptyList
  <2>3. ToSet(devices) = {} /\ IsInjective(devices)
    BY <1>1, EmptyList
  <2> QED  BY <2>1, <2>2, <2>3
<1>4. TypeInv
  BY <1>1, <1>2, <1>3 DEF TypeInv
<1>5. LoopInv
  <2>1. Len(files) + Len(left) <= MaxFiles /\ Len(files) <= MaxFiles
    BY <1>1, <1>2, <1>3, ClientsAssumption
  <2> QED  BY <1>1, <1>2, <2>1 DEF LoopInv
<1>6. PhaseInv
  BY <1>1 DEF PhaseInv
<1>7. OpenInv
  BY <1>1, <1>3 DEF OpenInv, OpenFiles
<1>8. ReaderInv
  <2>1. Counted = {} /\ Cardinality(Counted) = 0
    BY <1>1, NoneCounted
  <2> QED  BY <1>1, <1>3, <2>1 DEF ReaderInv, AtWork
<1> QED  BY <1>4, <1>5, <1>6, <1>7, <1>8 DEF Inv

\* What happens to nodes leaves every file open or closed as it was.
LEMMA EnvironmentKeeps ==
  Inv /\ Environment /\ UNCHANGED <<program, args, progVars, taken>> => Inv'
<1> SUFFICES ASSUME Inv, NEW p \in Paths, Plug(p) \/ Unplug(p) \/ Chmod(p),
                    UNCHANGED <<program, args, progVars, taken>>
             PROVE  Inv'
  BY DEF Environment
<1> USE DEF progVars
<1>1. TypeInv
  BY DEF Inv
<1>2. UNCHANGED <<listing, rest, devices>>
  BY DEF Plug, Unplug, Chmod, Change
<1>3. node' \in [Paths -> Nodes \cup {NoNode}] /\ touched' \subseteq Paths
  <2>1. CASE Plug(p)
    BY <1>1, <2>1 DEF Plug, TypeInv
  <2>2. CASE Unplug(p)
    BY <1>1, <2>2 DEF Unplug, TypeInv
  <2>3. CASE Chmod(p)
    <3>1. node[p] \in Nodes
      BY <1>1, <2>3 DEF Chmod, TypeInv
    <3>2. [node[p] EXCEPT !.readable = ~@] \in Nodes
      BY <3>1 DEF Nodes
    <3> QED  BY <1>1, <2>3, <3>2 DEF Chmod, TypeInv
  <2> QED  BY <2>1, <2>2, <2>3
<1>4. /\ files' \in Seq(FileType) /\ Len(files') = Len(files) /\ DOMAIN files' = DOMAIN files
      /\ \A i \in DOMAIN files : /\ files'[i].open <=> files[i].open
                                 /\ files'[i].grabs <=> files[i].grabs
                                 /\ files'[i].alive => files[i].alive
  <2>1. CASE Plug(p) \/ Chmod(p)
    BY <1>1, <2>1 DEF Plug, Chmod, TypeInv
  <2>2. CASE Unplug(p)
    <3>1. DOMAIN files = 1..Len(files) /\ Len(files) \in Nat /\ \A i \in DOMAIN files : files[i] \in FileType
      BY <1>1 DEF TypeInv
    <3>2. \A i \in DOMAIN files : [files[i] EXCEPT !.alive = FALSE] \in FileType
      BY <3>1 DEF FileType
    <3>3. files' \in [1..Len(files) -> FileType]
      BY <2>2, <3>1, <3>2 DEF Unplug
    <3>4. files' \in Seq(FileType) /\ Len(files') = Len(files)
      BY <3>1, <3>3
    <3>5. \A i \in DOMAIN files : /\ files'[i].open <=> files[i].open
                                  /\ files'[i].grabs <=> files[i].grabs
                                  /\ files'[i].alive => files[i].alive
      BY <2>2, <3>1 DEF Unplug, FileType
    <3> QED  BY <3>1, <3>3, <3>4, <3>5
  <2> QED  BY <2>1, <2>2
<1>5. OpenFiles' = OpenFiles /\ Counted' = Counted /\ Busy' = Busy
  BY <1>4 DEF OpenFiles, Counted, Busy
<1>6. TypeInv'
  BY <1>1, <1>2, <1>3, <1>4 DEF TypeInv, Monitors
<1>7. LoopInv'
  BY <1>2, <1>4 DEF Inv, LoopInv
<1>8. PhaseInv'
  <2>1. files = <<>> => files' = <<>>
    BY <1>1, <1>4 DEF TypeInv
  <2> QED  BY <1>2, <2>1 DEF Inv, PhaseInv, Monitors
<1>9. OpenInv'
  BY <1>2, <1>4, <1>5 DEF Inv, OpenInv, Monitors
<1>10. ReaderInv'
  BY <1>2, <1>4, <1>5, <1>1 DEF Inv, ReaderInv, TypeInv, Monitors, AtWork
<1> QED  BY <1>6, <1>7, <1>8, <1>9, <1>10 DEF Inv
-----------------------------------------------------------------------------
\* Open appends a file that is open, and whose index is not yet in the list.
LEMMA OpenedOne ==
  ASSUME TypeInv, NEW p \in Paths, OpenError(p) = "none",
         files' = Append(files, Opened(p)), devices' = Append(devices, Len(files) + 1)
  PROVE  /\ files' \in Seq(FileType) /\ Len(files') = Len(files) + 1
         /\ DOMAIN files' = 1..(Len(files) + 1) /\ DOMAIN files = 1..Len(files)
         /\ devices' \in Seq(Nat) /\ IsInjective(devices') /\ ToSet(devices') \subseteq DOMAIN files'
         /\ OpenFiles = ToSet(devices) => OpenFiles' = ToSet(devices')
         /\ (\A i \in DOMAIN files : files[i].grabs => files[i].open)
              => \A i \in DOMAIN files' : files'[i].grabs => files'[i].open
<1> DEFINE n == Len(files) + 1
<1>1. node[p] \in Nodes
  <2>1. node[p] # NoNode
    BY DEF OpenError
  <2> QED  BY <2>1 DEF TypeInv
<1>2. Opened(p) \in FileType /\ Opened(p).open /\ ~Opened(p).grabs
  BY <1>1 DEF Opened, FileType, Nodes
<1>3. /\ files' \in Seq(FileType) /\ Len(files') = n /\ files'[n] = Opened(p)
      /\ DOMAIN files' = 1..n /\ DOMAIN files = 1..Len(files) /\ n \in Nat
      /\ \A i \in DOMAIN files : files'[i] = files[i]
  BY <1>2 DEF TypeInv
<1>4. n \notin ToSet(devices) /\ devices \in Seq(Nat) /\ IsInjective(devices)
  BY <1>3 DEF TypeInv
<1>5. devices' \in Seq(Nat) /\ IsInjective(devices') /\ ToSet(devices') = ToSet(devices) \cup {n}
  BY <1>3, <1>4, AppendSet
<1>6. ToSet(devices') \subseteq DOMAIN files'
  BY <1>3, <1>5 DEF TypeInv
<1>7. OpenFiles' = OpenFiles \cup {n}
  BY <1>2, <1>3 DEF OpenFiles
<1>8. ASSUME \A i \in DOMAIN files : files[i].grabs => files[i].open, NEW i \in DOMAIN files'
      PROVE  files'[i].grabs => files'[i].open
  BY <1>2, <1>3, <1>8
<1> QED  BY <1>3, <1>5, <1>6, <1>7, <1>8

LEMMA ClosedSome ==
  ASSUME TypeInv, NEW is, closeAll(is)
  PROVE  /\ files' \in Seq(FileType) /\ Len(files') = Len(files) /\ DOMAIN files' = DOMAIN files
         /\ OpenFiles' = OpenFiles \ is
         /\ \A i \in DOMAIN files : /\ files'[i].open => files[i].open
                                    /\ files'[i].alive <=> files[i].alive
                                    /\ i \in is => ~files'[i].open
         /\ (\A i \in DOMAIN files : files[i].grabs => files[i].open)
              => \A i \in DOMAIN files' : files'[i].grabs => files'[i].open
<1>1. /\ files' \in Seq(FileType) /\ Len(files') = Len(files) /\ DOMAIN files' = DOMAIN files
      /\ \A i \in DOMAIN files :
           /\ files'[i].open <=> files[i].open /\ i \notin is
           /\ files'[i].grabs <=> files[i].grabs /\ i \notin is
           /\ files'[i].alive <=> files[i].alive
  BY ClosedFiles DEF TypeInv, closeAll
<1>2. OpenFiles' = OpenFiles \ is
  BY <1>1 DEF OpenFiles
<1> QED  BY <1>1, <1>2

\* A step before any goroutine is started.
LEMMA QuietReaders ==
  ASSUME ReaderInv, TypeInv', LoopInv', UNCHANGED <<reader, wg, program>>,
         reader = [i \in 1..MaxFiles |-> "none"],
         ~Monitors \/ ~AtWork' \/ (pc' = "loop" /\ left' = devices')
  PROVE  ReaderInv'
<1>1. Counted = {} /\ Counted' = Counted
  BY NoneCounted DEF Counted
<1>2. \A i \in 1..MaxFiles : reader'[i] = "none"
  OBVIOUS
<1>3. wg' = Cardinality(Counted')
  BY <1>1 DEF ReaderInv
<1>4. pc' = "loop" => \A i \in ToSet(left') : reader'[i] = "none"
  <2>1. DOMAIN files' \subseteq 1..MaxFiles
    BY ClientsAssumption DEF TypeInv, LoopInv
  <2>2. pc' = "loop" => ToSet(left') \subseteq 1..MaxFiles
    BY <2>1 DEF TypeInv, LoopInv
  <2> QED  BY <1>2, <2>2
<1>5. /\ ~Monitors' \/ ~AtWork' => reader' = [i \in 1..MaxFiles |-> "none"]
      /\ pc' \in {"ungrab", "end"} => Counted' = {}
  BY <1>1
<1>6. ASSUME AtWork', Monitors', NEW i \in ToSet(devices')
      PROVE  pc' = "loop" /\ i \in ToSet(left')
  BY <1>6 DEF Monitors
<1> QED  BY <1>2, <1>3, <1>4, <1>5, <1>6 DEF ReaderInv
-----------------------------------------------------------------------------
(* The call.                                                               *)

\* What every step of the call leaves alone.
Called == UNCHANGED <<node, touched, progVars, program, args>>

LEMMA CallFrame ==
  ASSUME Inv, Called, listing \in {"glob", "open", "query"}, TypeInv', LoopInv',
         listing' \in {"open", "query", "done", "failed"}
  PROVE  PhaseInv' /\ ReaderInv'
<1>1. pc = "listing" /\ pc' = "listing" /\ args' = args /\ UNCHANGED <<reader, wg, program>>
  BY DEF Inv, PhaseInv, Called, progVars
<1>2. PhaseInv'
  BY <1>1 DEF PhaseInv
<1>3. reader = [i \in 1..MaxFiles |-> "none"] /\ ~AtWork'
  BY <1>1 DEF Inv, ReaderInv, AtWork
<1>4. ReaderInv'
  BY <1>1, <1>3, QuietReaders DEF Inv
<1> QED  BY <1>2, <1>4

\* What the call goes through, whether the directory was read to its end or not.
LEMMA GlobGives ==
  ASSUME Inv, ListDevicePaths \/ ListPathsCut
  PROVE  /\ listing = "glob" /\ listing' = "open"
         /\ UNCHANGED <<node, touched, chmodded, limit, files, wanted, devices>>
         /\ \E ps \in SUBSET (Present \cup touched) :
              /\ rest' \in Sorted(ps)
              /\ ~cut' => Present \ touched \subseteq ps
<1>1. CASE ListDevicePaths
  <2>1. PICK ps \in Found : rest' \in Sorted(ps)
    BY <1>1 DEF ListDevicePaths
  <2>2. ps \in SUBSET (Present \cup touched) /\ Present \ touched \subseteq ps
    BY <2>1 DEF Found
  <2> QED  BY <1>1, <2>1, <2>2 DEF ListDevicePaths, nodeVars
<1>2. CASE ListPathsCut
  <2>1. PICK ps \in SUBSET (Present \cup touched) : rest' \in Sorted(ps)
    BY <1>2 DEF ListPathsCut
  <2> QED  BY <1>2, <2>1 DEF ListPathsCut
<1> QED  BY <1>1, <1>2

LEMMA GlobKeeps == Inv /\ (ListDevicePaths \/ ListPathsCut) /\ Called => Inv'
<1> SUFFICES ASSUME Inv, ListDevicePaths \/ ListPathsCut, Called PROVE Inv'
  OBVIOUS
<1>1. /\ listing = "glob" /\ listing' = "open" /\ UNCHANGED <<node, touched, files, devices, reader, program, args, pc>>
      /\ pc = "listing" /\ files = <<>> /\ devices = <<>>
  BY GlobGives DEF Called, progVars, Inv, PhaseInv
<1>2. PICK ps \in SUBSET (Present \cup touched) : rest' \in Sorted(ps)
  BY GlobGives
<1>3. ps \in SUBSET Paths
  BY DEF Present, Inv, TypeInv
<1>4. Cardinality(ps) \in Nat /\ Cardinality(ps) <= Cardinality(Paths) /\ Cardinality(Paths) \in Nat
  BY <1>3, DiscoveryAssumption, FS_Subset, FS_CardinalityType
<1>5. rest' \in Seq(Paths) /\ Len(rest') = Cardinality(ps)
  <2> DEFINE c == Cardinality(ps)
  <2>1. rest' \in [1..c -> ps]
    BY <1>2 DEF Sorted
  <2>2. c \in Nat
    BY <1>4
  <2> HIDE DEF c
  <2>3. rest' \in [1..c -> Paths]
    BY <1>3, <2>1
  <2>4. rest' \in Seq(Paths) /\ Len(rest') = c
    BY <2>2, <2>3
  <2> QED  BY <2>4 DEF c
<1>6. Len(files) = 0 /\ DOMAIN files = {} /\ ToSet(devices) = {}
  BY <1>1, EmptyList
<1>7. TypeInv'
  BY <1>1 DEF Inv, TypeInv, Monitors
<1>8. LoopInv'
  <2>1. Len(files') + Len(rest') <= MaxFiles
    BY <1>1, <1>4, <1>5, <1>6, ClientsAssumption
  <2> QED  BY <1>1, <1>5, <2>1 DEF Inv, LoopInv
<1>9. PhaseInv' /\ ReaderInv'
  BY <1>1, <1>7, <1>8, CallFrame
<1>10. OpenInv'
  BY <1>1, <1>6 DEF OpenInv, OpenFiles
<1> QED  BY <1>7, <1>8, <1>9, <1>10 DEF Inv

LEMMA OpenKeeps == Inv /\ OpenNext /\ Called => Inv'
<1> SUFFICES ASSUME Inv, OpenNext, Called PROVE Inv'
  OBVIOUS
<1>1. /\ listing = "open" /\ listing' = "open" /\ UNCHANGED <<node, touched, reader, program, args, pc>>
      /\ pc = "listing" /\ rest # <<>> /\ rest' = Tail(rest) /\ rest \in Seq(Paths) /\ TypeInv
  BY DEF OpenNext, nodeVars, Called, progVars, Inv, PhaseInv, LoopInv
<1>2. Head(rest) \in Paths /\ Tail(rest) \in Seq(Paths) /\ Len(rest) = Len(Tail(rest)) + 1
  BY <1>1, TailSet
<1>3. /\ files' \in Seq(FileType) /\ Len(files') = Len(files) + 1
      /\ devices' \in Seq(Nat) /\ IsInjective(devices') /\ ToSet(devices') \subseteq DOMAIN files'
      /\ OpenFiles = ToSet(devices) => OpenFiles' = ToSet(devices')
      /\ (\A i \in DOMAIN files : files[i].grabs => files[i].open)
           => \A i \in DOMAIN files' : files'[i].grabs => files'[i].open
  BY <1>1, <1>2, OpenedOne DEF OpenNext
<1>4. TypeInv'
  BY <1>1, <1>3 DEF TypeInv, Monitors
<1>5. LoopInv'
  <2>1. /\ Len(files) + Len(rest) <= MaxFiles
        /\ Len(files) \in Nat /\ Len(rest) \in Nat /\ Len(Tail(rest)) \in Nat
    BY <1>1, <1>2 DEF Inv, LoopInv, TypeInv
  <2>2. Len(files') + Len(rest') <= MaxFiles /\ Len(files') <= MaxFiles
    BY <1>1, <1>2, <1>3, <2>1, ClientsAssumption
  <2> QED  BY <1>1, <1>2, <2>2 DEF LoopInv
<1>6. PhaseInv' /\ ReaderInv'
  BY <1>1, <1>4, <1>5, CallFrame
<1>7. OpenInv'
  BY <1>1, <1>3 DEF Inv, OpenInv
<1> QED  BY <1>4, <1>5, <1>6, <1>7 DEF Inv

LEMMA SkipKeeps == Inv /\ SkipNext /\ Called => Inv'
<1> SUFFICES ASSUME Inv, SkipNext, Called PROVE Inv'
  OBVIOUS
<1>1. /\ listing = "open" /\ listing' = "open" /\ UNCHANGED <<node, touched, files, devices, reader, program, args, pc>>
      /\ pc = "listing" /\ rest # <<>> /\ rest' = Tail(rest) /\ rest \in Seq(Paths)
  BY DEF SkipNext, nodeVars, Called, progVars, Inv, PhaseInv, LoopInv
<1>2. Tail(rest) \in Seq(Paths) /\ Len(rest) = Len(Tail(rest)) + 1
  BY <1>1, TailSet
<1>3. TypeInv'
  BY <1>1 DEF Inv, TypeInv, Monitors
<1>4. LoopInv'
  <2>1. Len(files) + Len(rest) <= MaxFiles /\ Len(files) \in Nat /\ Len(Tail(rest)) \in Nat
    BY <1>1, <1>2 DEF Inv, LoopInv, TypeInv
  <2>2. Len(files') + Len(rest') <= MaxFiles
    BY <1>1, <1>2, <2>1, ClientsAssumption
  <2> QED  BY <1>1, <1>2, <2>2 DEF Inv, LoopInv
<1>5. PhaseInv' /\ ReaderInv'
  BY <1>1, <1>3, <1>4, CallFrame
<1>6. OpenInv'
  BY <1>1 DEF Inv, OpenInv, OpenFiles
<1> QED  BY <1>3, <1>4, <1>5, <1>6 DEF Inv

LEMMA AbortKeeps == Inv /\ Abort /\ Called => Inv'
<1> SUFFICES ASSUME Inv, Abort, Called PROVE Inv'
  OBVIOUS
<1>1. /\ listing = "open" /\ listing' = "failed" /\ UNCHANGED <<node, touched, reader, program, args, pc>>
      /\ pc = "listing" /\ devices' = <<>> /\ closeAll(ToSet(devices)) /\ TypeInv
  BY DEF Abort, nodeVars, Called, progVars, Inv, PhaseInv
<1>2. /\ files' \in Seq(FileType) /\ Len(files') = Len(files)
      /\ OpenFiles' = OpenFiles \ ToSet(devices)
      /\ (\A i \in DOMAIN files : files[i].grabs => files[i].open)
           => \A i \in DOMAIN files' : files'[i].grabs => files'[i].open
  BY <1>1, ClosedSome
<1>3. OpenFiles' = {}
  BY <1>1, <1>2 DEF Inv, OpenInv
<1>4. TypeInv'
  <2>1. ToSet(devices') = {} /\ IsInjective(devices') /\ devices' \in Seq(Nat)
    BY <1>1, EmptyList
  <2> QED  BY <1>1, <1>2, <2>1 DEF TypeInv, Monitors
<1>5. LoopInv'
  BY <1>1, <1>2 DEF Inv, LoopInv
<1>6. PhaseInv' /\ ReaderInv'
  BY <1>1, <1>4, <1>5, CallFrame
<1>7. OpenInv'
  BY <1>1, <1>2, <1>3 DEF Inv, OpenInv
<1> QED  BY <1>4, <1>5, <1>6, <1>7 DEF Inv

LEMMA ListedKeeps == Inv /\ ListedDevices /\ Called => Inv'
<1> SUFFICES ASSUME Inv, ListedDevices, Called PROVE Inv'
  OBVIOUS
<1>1. /\ listing = "open" /\ UNCHANGED <<node, touched, files, reader, program, args, pc>>
      /\ pc = "listing" /\ TypeInv /\ OpenFiles = ToSet(devices) /\ OpenFiles' = OpenFiles
  BY DEF ListedDevices, nodeVars, Called, progVars, Inv, PhaseInv, OpenInv, OpenFiles
<1>2. \/ listing' = "query" /\ rest' = devices /\ devices' = <<>>
      \/ listing' = "done" /\ devices' = devices
  BY DEF ListedDevices
<1>3. <<>> \in Seq(Nat) /\ ToSet(<<>>) = {} /\ IsInjective(<<>>)
  BY EmptyList
<1>4. TypeInv'
  BY <1>1, <1>2, <1>3 DEF TypeInv, Monitors
<1>5. LoopInv'
  BY <1>1, <1>2, <1>3 DEF Inv, LoopInv, TypeInv
<1>6. PhaseInv' /\ ReaderInv'
  BY <1>1, <1>2, <1>4, <1>5, CallFrame
<1>7. OpenInv'
  BY <1>1, <1>2, <1>3 DEF Inv, OpenInv
<1> QED  BY <1>4, <1>5, <1>6, <1>7 DEF Inv

LEMMA QueryKeeps == Inv /\ QueryNext /\ Called => Inv'
<1> SUFFICES ASSUME Inv, QueryNext, Called PROVE Inv'
  OBVIOUS
<1> DEFINE i == Head(rest)
<1>1. /\ listing = "query" /\ listing' = "query" /\ UNCHANGED <<node, touched, reader, program, args, pc>>
      /\ pc = "listing" /\ rest # <<>> /\ rest' = Tail(rest) /\ TypeInv
      /\ rest \in Seq(Nat) /\ IsInjective(rest) /\ ToSet(rest) \subseteq DOMAIN files
      /\ ToSet(rest) \cap ToSet(devices) = {} /\ OpenFiles = ToSet(devices) \cup ToSet(rest)
  BY DEF QueryNext, nodeVars, Called, progVars, Inv, PhaseInv, LoopInv, OpenInv
<1>2. /\ Tail(rest) \in Seq(Nat) /\ i \in Nat /\ ToSet(rest) = {i} \cup ToSet(Tail(rest))
      /\ IsInjective(Tail(rest)) /\ i \notin ToSet(Tail(rest))
  BY <1>1, TailSet
<1>3. /\ devices' \in Seq(Nat) /\ IsInjective(devices') /\ ToSet(devices') \subseteq DOMAIN files
      /\ ToSet(devices') \cap ToSet(rest') = {}
      /\ files' \in Seq(FileType) /\ Len(files') = Len(files) /\ DOMAIN files' = DOMAIN files
      /\ OpenFiles' = ToSet(devices') \cup ToSet(rest')
      /\ \A j \in DOMAIN files' : files'[j].grabs => files'[j].open
  <2>1. \A j \in DOMAIN files : files[j].grabs => files[j].open
    BY DEF Inv, OpenInv
  <2>2. CASE devices' = Append(devices, i) /\ UNCHANGED files
    <3>1. /\ devices' \in Seq(Nat) /\ ToSet(devices') = ToSet(devices) \cup {i}
          /\ IsInjective(devices')
      BY <1>1, <1>2, <2>2, AppendSet DEF TypeInv
    <3>2. OpenFiles' = OpenFiles
      BY <2>2 DEF OpenFiles
    <3> QED  BY <1>1, <1>2, <2>1, <2>2, <3>1, <3>2 DEF TypeInv
  <2>3. CASE closeAll({i}) /\ UNCHANGED devices
    <3>1. /\ files' \in Seq(FileType) /\ Len(files') = Len(files) /\ DOMAIN files' = DOMAIN files
          /\ OpenFiles' = OpenFiles \ {i}
          /\ \A j \in DOMAIN files' : files'[j].grabs => files'[j].open
      BY <1>1, <2>1, <2>3, ClosedSome
    <3> QED  BY <1>1, <1>2, <2>3, <3>1 DEF TypeInv
  <2> QED  BY <2>2, <2>3 DEF QueryNext
<1>4. TypeInv'
  BY <1>1, <1>3 DEF TypeInv, Monitors
<1>5. LoopInv'
  BY <1>1, <1>2, <1>3 DEF Inv, LoopInv
<1>6. PhaseInv' /\ ReaderInv'
  BY <1>1, <1>4, <1>5, CallFrame
<1>7. OpenInv'
  BY <1>1, <1>3 DEF OpenInv
<1> QED  BY <1>4, <1>5, <1>6, <1>7 DEF Inv

LEMMA KeyboardsKeeps == Inv /\ ListedKeyboards /\ Called => Inv'
<1> SUFFICES ASSUME Inv, ListedKeyboards, Called PROVE Inv'
  OBVIOUS
<1>1. /\ listing = "query" /\ listing' = "done" /\ UNCHANGED <<node, touched, files, devices, reader, program, args, pc>>
      /\ pc = "listing" /\ rest = <<>>
  BY DEF ListedKeyboards, nodeVars, Called, progVars, Inv, PhaseInv
<1>2. OpenFiles' = ToSet(devices')
  <2>1. ToSet(rest) = {}
    BY <1>1, EmptyList
  <2> QED  BY <1>1, <2>1 DEF Inv, OpenInv, OpenFiles
<1>3. TypeInv'
  BY <1>1 DEF Inv, TypeInv, Monitors
<1>4. LoopInv'
  BY <1>1 DEF Inv, LoopInv
<1>5. PhaseInv' /\ ReaderInv'
  BY <1>1, <1>3, <1>4, CallFrame
<1>6. OpenInv'
  BY <1>1, <1>2 DEF Inv, OpenInv
<1> QED  BY <1>3, <1>4, <1>5, <1>6 DEF Inv

LEMMA ListKeeps == Inv /\ List /\ Steady => Inv'
<1> SUFFICES ASSUME Inv, List, Steady PROVE Inv'
  OBVIOUS
<1>1. Called
  BY DEF List, Listing, Called, Steady, nodeVars, ListDevicePaths, ListPathsCut,
         OpenNext, SkipNext, Abort,
         ListedDevices, QueryNext, ListedKeyboards
<1> QED  BY <1>1, GlobKeeps, OpenKeeps, SkipKeeps, AbortKeeps, ListedKeeps, QueryKeeps,
            KeyboardsKeeps DEF List, Listing
-----------------------------------------------------------------------------
(* main.                                                                   *)

\* A step of main that neither opens nor closes a file.
LEMMA SameFiles ==
  UNCHANGED <<files, devices, reader>> =>
    OpenFiles' = OpenFiles /\ Busy' = Busy /\ Counted' = Counted
BY DEF OpenFiles, Busy, Counted

\* Nothing has been started yet.
LEMMA BeforeLoop ==
  ASSUME Inv, pc \notin {"loop", "ungrab", "end"}
  PROVE  reader = [i \in 1..MaxFiles |-> "none"] /\ Busy = {}
BY NoneCounted DEF Inv, ReaderInv, AtWork

LEMMA BeginKeeps == Inv /\ Begin /\ Steady => Inv'
<1> SUFFICES ASSUME Inv, Begin, Steady PROVE Inv'
  OBVIOUS
<1>1. /\ pc = "main" /\ pc' = "listing" /\ listing' = "glob" /\ touched' = {}
      /\ UNCHANGED <<node, files, rest, devices, left, reader, wg, program, args>>
      /\ files = <<>> /\ devices = <<>>
  BY DEF Begin, Call, Steady, Inv, PhaseInv
<1>2. reader = [i \in 1..MaxFiles |-> "none"] /\ Busy = {}
  BY <1>1, BeforeLoop
<1>3. TypeInv'
  BY <1>1 DEF Inv, TypeInv, Monitors
<1>4. LoopInv'
  BY <1>1 DEF Inv, LoopInv
<1>5. PhaseInv'
  BY <1>1 DEF PhaseInv
<1>6. OpenInv'
  BY <1>1, SameFiles DEF Inv, OpenInv
<1>7. ReaderInv'
  BY <1>1, <1>2, <1>3, <1>4, QuietReaders DEF Inv, AtWork
<1> QED  BY <1>3, <1>4, <1>5, <1>6, <1>7 DEF Inv

LEMMA OpenArgumentKeeps == Inv /\ OpenArgument /\ Steady => Inv'
<1> SUFFICES ASSUME Inv, OpenArgument, Steady PROVE Inv'
  OBVIOUS
<1>1. /\ pc = "main" /\ pc' = "main" /\ left # <<>> /\ left' = Tail(left)
      /\ UNCHANGED <<node, touched, listing, rest, reader, wg, program, args>>
      /\ listing = "idle" /\ args # <<>> /\ left \in Seq(Paths) /\ TypeInv
  BY DEF OpenArgument, Steady, nodeVars, Inv, PhaseInv, LoopInv
<1>2. Head(left) \in Paths /\ Tail(left) \in Seq(Paths) /\ Len(left) = Len(Tail(left)) + 1
  BY <1>1, TailSet
<1>3. /\ files' \in Seq(FileType) /\ Len(files') = Len(files) + 1
      /\ devices' \in Seq(Nat) /\ IsInjective(devices') /\ ToSet(devices') \subseteq DOMAIN files'
      /\ OpenFiles = ToSet(devices) => OpenFiles' = ToSet(devices')
      /\ (\A i \in DOMAIN files : files[i].grabs => files[i].open)
           => \A i \in DOMAIN files' : files'[i].grabs => files'[i].open
  BY <1>1, <1>2, OpenedOne DEF OpenArgument
<1>4. TypeInv'
  BY <1>1, <1>3 DEF TypeInv, Monitors
<1>5. LoopInv'
  <2>1. /\ Len(files) + Len(left) <= MaxFiles
        /\ Len(files) \in Nat /\ Len(Tail(left)) \in Nat
    BY <1>1, <1>2 DEF Inv, LoopInv, TypeInv
  <2>2. Len(files') + Len(left') <= MaxFiles /\ Len(files') <= MaxFiles
    BY <1>1, <1>2, <1>3, <2>1, ClientsAssumption
  <2> QED  BY <1>1, <1>2, <2>2 DEF LoopInv
<1>6. PhaseInv'
  BY <1>1 DEF PhaseInv
<1>7. OpenInv'
  BY <1>1, <1>3 DEF Inv, OpenInv
<1>8. ReaderInv'
  BY <1>1, <1>4, <1>5, BeforeLoop, QuietReaders DEF Inv, AtWork
<1> QED  BY <1>4, <1>5, <1>6, <1>7, <1>8 DEF Inv

LEMMA ArgumentFailsKeeps == Inv /\ ArgumentFails /\ Steady => Inv'
<1> SUFFICES ASSUME Inv, ArgumentFails, Steady PROVE Inv'
  OBVIOUS
<1>1. /\ pc = "main" /\ pc' = "exited" /\ listing = "idle"
      /\ UNCHANGED <<node, touched, listing, rest, files, devices, left, reader, wg, program, args>>
  BY DEF ArgumentFails, Steady, discoveryVars, nodeVars, listVars, Inv, PhaseInv
<1>2. TypeInv'
  BY <1>1 DEF Inv, TypeInv, Monitors
<1>3. LoopInv'
  BY <1>1 DEF Inv, LoopInv
<1>4. PhaseInv'
  BY <1>1 DEF PhaseInv
<1>5. OpenInv'
  BY <1>1, SameFiles DEF Inv, OpenInv
<1>6. ReaderInv'
  BY <1>1, <1>2, <1>3, BeforeLoop, QuietReaders DEF Inv, AtWork
<1> QED  BY <1>2, <1>3, <1>4, <1>5, <1>6 DEF Inv

LEMMA ArgumentsOpenedKeeps == Inv /\ ArgumentsOpened /\ Steady => Inv'
<1> SUFFICES ASSUME Inv, ArgumentsOpened, Steady PROVE Inv'
  OBVIOUS
<1>1. /\ pc = "main" /\ pc' = "loop" /\ listing = "idle" /\ left' = devices /\ args # <<>>
      /\ UNCHANGED <<node, touched, listing, rest, files, devices, reader, wg, program, args>>
      /\ Monitors /\ Monitors'
  BY DEF ArgumentsOpened, Steady, discoveryVars, nodeVars, listVars, Inv, PhaseInv, TypeInv, Monitors
<1>2. reader = [i \in 1..MaxFiles |-> "none"] /\ Busy = {}
  BY <1>1, BeforeLoop
<1>3. TypeInv'
  BY <1>1 DEF Inv, TypeInv
<1>4. LoopInv'
  BY <1>1 DEF Inv, LoopInv, TypeInv
<1>5. PhaseInv'
  BY <1>1 DEF PhaseInv
<1>6. OpenInv'
  BY <1>1, <1>2, SameFiles DEF Inv, OpenInv
<1>7. ReaderInv'
  BY <1>1, <1>2, <1>3, <1>4, QuietReaders DEF Inv
<1> QED  BY <1>3, <1>4, <1>5, <1>6, <1>7 DEF Inv

LEMMA GotKeeps == Inv /\ Got /\ Steady => Inv'
<1> SUFFICES ASSUME Inv, Got, Steady PROVE Inv'
  OBVIOUS
<1>1. /\ pc = "listing" /\ pc' \in {"exited", "loop", "keeps"} /\ left' = devices
      /\ listing = "done" \/ (listing = "failed" /\ pc' = "exited")
      /\ UNCHANGED <<node, touched, listing, rest, files, devices, reader, wg, program, args>>
  <2>1. UNCHANGED <<node, touched, listing, rest, files, devices, reader, wg, program, args>>
    BY DEF Got, Steady, discoveryVars, nodeVars, listVars
  <2>2. /\ pc = "listing" /\ left' = devices
        /\ \/ listing = "failed" /\ pc' = "exited"
           \/ listing = "done" /\ devices = <<>> /\ pc' = "exited"
           \/ /\ listing = "done"
              /\ pc' = IF program = "keyboards" THEN "keeps" ELSE "loop"
    BY DEF Got
  <2>3. pc' \in {"exited", "loop", "keeps"}
    BY <2>2
  <2> QED  BY <2>1, <2>2, <2>3
<1>2. reader = [i \in 1..MaxFiles |-> "none"] /\ Busy = {}
  BY <1>1, BeforeLoop
<1>3. TypeInv'
  BY <1>1 DEF Inv, TypeInv, Monitors
<1>4. LoopInv'
  BY <1>1 DEF Inv, LoopInv, TypeInv
<1>5. PhaseInv'
  BY <1>1 DEF PhaseInv
<1>6. OpenInv'
  BY <1>1, <1>2, SameFiles DEF Inv, OpenInv
<1>7. ReaderInv'
  BY <1>1, <1>2, <1>3, <1>4, QuietReaders DEF Inv, AtWork
<1> QED  BY <1>3, <1>4, <1>5, <1>6, <1>7 DEF Inv
-----------------------------------------------------------------------------
(* lsinput starts no goroutine.                                            *)

AskWho == AskName \/ AskPhys \/ AskUniq \/ AskID

LEMMA AskKeeps ==
  Inv /\ (AskWho \/ AskKeyboard \/ AskTypes \/ AskProps \/ AskCodes) /\ Steady => Inv'
<1> SUFFICES ASSUME Inv, AskWho \/ AskKeyboard \/ AskTypes \/ AskProps \/ AskCodes, Steady
             PROVE  Inv'
  OBVIOUS
<1>1. /\ pc = "loop" /\ pc' = "loop" /\ program = "lsinput" /\ left # <<>>
      /\ left' = left \/ left' = Tail(left)
      /\ UNCHANGED <<node, touched, listing, rest, files, devices, reader, wg, program, args>>
  <2>1. \E q : Asking(q)
    BY DEF AskWho, AskName, AskPhys, AskUniq, AskID, AskIdentity, AskKeyboard, AskTypes,
           AskProps, AskCodes
  <2>2. left' = left \/ left' = Tail(left)
    <3>1. AskWho \/ AskKeyboard \/ AskTypes \/ AskProps => left' = left
      BY DEF AskWho, AskName, AskPhys, AskUniq, AskID, AskIdentity, AskKeyboard, AskTypes,
             AskProps
    <3>2. AskCodes => left' = left \/ left' = Tail(left)
      BY Zenon DEF AskCodes
    <3> QED  BY <3>1, <3>2
  <2> QED  BY <2>1, <2>2 DEF Asking, Steady, discoveryVars, nodeVars, listVars
<1>2. ~Monitors /\ reader = [i \in 1..MaxFiles |-> "none"]
  BY <1>1 DEF Monitors, Inv, ReaderInv
<1>3. TypeInv'
  BY <1>1 DEF Inv, TypeInv, Monitors
<1>4. LoopInv'
  <2>1. left \in Seq(Nat) /\ IsInjective(left) /\ ToSet(left) \subseteq ToSet(devices)
    BY <1>1 DEF Inv, LoopInv
  <2>2. left' \in Seq(Nat) /\ IsInjective(left') /\ ToSet(left') \subseteq ToSet(devices)
    <3>1. /\ Tail(left) \in Seq(Nat) /\ IsInjective(Tail(left))
          /\ ToSet(left) = {Head(left)} \cup ToSet(Tail(left))
      BY <1>1, <2>1, TailSet
    <3>2. CASE left' = left
      BY <2>1, <3>2
    <3>3. CASE left' = Tail(left)
      BY <1>1, <2>1, <3>1, <3>3
    <3> QED  BY <1>1, <3>2, <3>3
  <2> QED  BY <1>1, <2>2 DEF Inv, LoopInv
<1>5. PhaseInv'
  BY <1>1 DEF Inv, PhaseInv
<1>6. OpenInv'
  BY <1>1, <1>2, SameFiles DEF Inv, OpenInv, Monitors
<1>7. ReaderInv'
  BY <1>1, <1>2, <1>3, <1>4, QuietReaders DEF Inv
<1> QED  BY <1>3, <1>4, <1>5, <1>6, <1>7 DEF Inv

LEMMA CloseDeferredKeeps == Inv /\ CloseDeferred /\ Steady => Inv'
<1> SUFFICES ASSUME Inv, CloseDeferred, Steady PROVE Inv'
  OBVIOUS
<1>1. /\ pc = "loop" /\ pc' = "end" /\ program = "lsinput" /\ closeAll(ToSet(devices)) /\ TypeInv
      /\ UNCHANGED <<node, touched, listing, rest, devices, left, reader, wg, program, args>>
  BY DEF CloseDeferred, Steady, nodeVars, Inv
<1>2. ~Monitors /\ reader = [i \in 1..MaxFiles |-> "none"] /\ OpenFiles = ToSet(devices)
  BY <1>1 DEF Monitors, Inv, ReaderInv, OpenInv
<1>3. /\ files' \in Seq(FileType) /\ Len(files') = Len(files) /\ DOMAIN files' = DOMAIN files
      /\ OpenFiles' = {}
      /\ \A i \in DOMAIN files' : files'[i].grabs => files'[i].open
  <2>1. \A i \in DOMAIN files : files[i].grabs => files[i].open
    BY DEF Inv, OpenInv
  <2> QED  BY <1>1, <1>2, <2>1, ClosedSome
<1>4. TypeInv'
  BY <1>1, <1>3 DEF TypeInv, Monitors
<1>5. LoopInv'
  BY <1>1, <1>3 DEF Inv, LoopInv
<1>6. PhaseInv'
  BY <1>1 DEF Inv, PhaseInv
<1>7. OpenInv'
  BY <1>1, <1>2, <1>3 DEF Inv, OpenInv, PhaseInv
<1>8. ReaderInv'
  BY <1>1, <1>2, <1>4, <1>5, QuietReaders DEF Inv
<1> QED  BY <1>4, <1>5, <1>6, <1>7, <1>8 DEF Inv
-----------------------------------------------------------------------------
(* monitor.                                                                *)

LEMMA CountedFinite ==
  ASSUME Inv
  PROVE  /\ IsFiniteSet(Counted) /\ wg = Cardinality(Counted)
         /\ DOMAIN files \subseteq 1..MaxFiles /\ DOMAIN files = 1..Len(files)
<1>1. IsFiniteSet(1..MaxFiles)
  BY ClientsAssumption, FS_Interval
<1>2. IsFiniteSet(Counted)
  BY <1>1, FS_Subset DEF Counted
<1>3. DOMAIN files \subseteq 1..MaxFiles /\ DOMAIN files = 1..Len(files)
  BY ClientsAssumption DEF Inv, TypeInv, LoopInv
<1> QED  BY <1>2, <1>3 DEF Inv, ReaderInv

\* What main turns to in its loop is open, and not yet read.
LEMMA InLoopFacts ==
  ASSUME Inv, InLoop
  PROVE  /\ It \in ToSet(left) /\ It \in DOMAIN files /\ It \in 1..MaxFiles
         /\ Tail(left) \in Seq(Nat) /\ IsInjective(Tail(left))
         /\ ToSet(left) = {It} \cup ToSet(Tail(left)) /\ It \notin ToSet(Tail(left))
         /\ ToSet(left) \subseteq ToSet(devices) /\ ToSet(devices) \subseteq DOMAIN files
         /\ reader[It] = "none" /\ It \in OpenFiles /\ It \notin Busy /\ It \notin Counted
<1>1. left \in Seq(Nat) /\ IsInjective(left) /\ left # <<>> /\ ToSet(left) \subseteq ToSet(devices)
  BY DEF InLoop, Inv, LoopInv
<1>2. /\ Tail(left) \in Seq(Nat) /\ IsInjective(Tail(left))
      /\ ToSet(left) = {It} \cup ToSet(Tail(left)) /\ It \notin ToSet(Tail(left))
  BY <1>1, TailSet DEF It
<1>3. ToSet(devices) \subseteq DOMAIN files /\ DOMAIN files \subseteq 1..MaxFiles
  BY CountedFinite DEF Inv, TypeInv
<1>4. It \in ToSet(left) /\ reader[It] = "none" /\ It \in OpenFiles
  BY <1>2 DEF InLoop, Inv, ReaderInv, OpenInv
<1>5. It \notin Busy /\ It \notin Counted
  BY <1>4 DEF Busy, Counted
<1> QED  BY <1>1, <1>2, <1>3, <1>4, <1>5

LEMMA RefuseKeeps == Inv /\ Refuse /\ Steady => Inv'
<1> SUFFICES ASSUME Inv, Refuse, Steady PROVE Inv'
  OBVIOUS
<1>1. /\ pc = "loop" /\ pc' = "loop" /\ Monitors /\ Monitors' /\ program = "monitor -grab"
      /\ InLoop /\ closeAll({It}) /\ left' = Tail(left) /\ TypeInv
      /\ UNCHANGED <<node, touched, listing, rest, devices, reader, wg, program, args>>
  BY DEF Refuse, InLoop, Steady, nodeVars, Inv, Monitors
<1>2. /\ files' \in Seq(FileType) /\ Len(files') = Len(files) /\ DOMAIN files' = DOMAIN files
      /\ OpenFiles' = OpenFiles \ {It}
      /\ \A i \in DOMAIN files : /\ files'[i].open => files[i].open
                                 /\ files'[i].alive <=> files[i].alive
                                 /\ i \in {It} => ~files'[i].open
      /\ \A i \in DOMAIN files' : files'[i].grabs => files'[i].open
  <2>1. \A i \in DOMAIN files : files[i].grabs => files[i].open
    BY DEF Inv, OpenInv
  <2> QED  BY <1>1, <2>1, ClosedSome
<1>3. Busy' = Busy /\ Counted' = Counted
  BY <1>1 DEF Busy, Counted
<1>4. TypeInv'
  BY <1>1, <1>2 DEF TypeInv, Monitors
<1>5. LoopInv'
  BY <1>1, <1>2, InLoopFacts DEF Inv, LoopInv
<1>6. PhaseInv'
  BY <1>1 DEF Inv, PhaseInv
<1>7. OpenInv'
  <2>1. OpenFiles = ToSet(left) \cup Busy
    BY <1>1 DEF Inv, OpenInv
  <2>2. OpenFiles' = ToSet(left') \cup Busy'
    BY <1>1, <1>2, <1>3, <2>1, InLoopFacts
  <2>3. listing' \notin {"open", "query", "failed"}
    BY <1>1 DEF Inv, PhaseInv
  <2> QED  BY <1>1, <1>2, <2>2, <2>3 DEF OpenInv
<1>8. ReaderInv'
  <2>1. \A i \in ToSet(left') : reader'[i] = "none"
    BY <1>1, InLoopFacts DEF Inv, ReaderInv
  <2>2. ASSUME NEW i \in 1..MaxFiles
        PROVE  /\ reader'[i] # "none" => i \in DOMAIN files'
               /\ reader'[i] \in {"closing", "closed", "done"} => ~files'[i].alive
    BY <1>1, <1>2 DEF Inv, ReaderInv
  <2>3. ASSUME NEW i \in ToSet(devices')
        PROVE  \/ reader'[i] # "none"
               \/ pc' = "loop" /\ i \in ToSet(left')
               \/ program' = "monitor -grab" /\ ~files'[i].open
    <3>1. i \in DOMAIN files
      BY <1>1, <2>3 DEF TypeInv
    <3>2. \/ reader[i] # "none"
          \/ i \in ToSet(left)
          \/ ~files[i].open
      BY <1>1, <2>3 DEF Inv, ReaderInv, AtWork
    <3> QED  BY <1>1, <1>2, <3>1, <3>2, InLoopFacts
  <2>4. wg' = Cardinality(Counted') /\ AtWork'
    BY <1>1, <1>3 DEF Inv, ReaderInv, AtWork
  <2> QED  BY <1>1, <2>1, <2>2, <2>3, <2>4 DEF ReaderInv
<1> QED  BY <1>4, <1>5, <1>6, <1>7, <1>8 DEF Inv

LEMMA StartKeeps == Inv /\ Start /\ Steady => Inv'
<1> SUFFICES ASSUME Inv, Start, Steady PROVE Inv'
  OBVIOUS
<1>1. /\ pc = "loop" /\ pc' = "loop" /\ Monitors /\ Monitors' /\ InLoop
      /\ left' = Tail(left) /\ wg' = wg + 1 /\ reader' = [reader EXCEPT ![It] = "reading"]
      /\ TypeInv /\ reader \in [1..MaxFiles -> {"none", "reading", "closing", "closed", "done"}]
      /\ UNCHANGED <<node, touched, listing, rest, devices, program, args>>
  BY DEF Start, InLoop, Steady, nodeVars, Inv, TypeInv, Monitors
<1>2. /\ files' \in Seq(FileType) /\ Len(files') = Len(files) /\ DOMAIN files' = DOMAIN files
      /\ \A i \in DOMAIN files : /\ files'[i].open <=> files[i].open
                                 /\ files'[i].alive <=> files[i].alive
                                 /\ files'[i].grabs => files'[i].open
  <2>1. \A i \in DOMAIN files : files[i].grabs => files[i].open
    BY DEF Inv, OpenInv
  <2>2. CASE UNCHANGED files
    BY <1>1, <2>1, <2>2 DEF TypeInv
  <2>3. CASE files' = [files EXCEPT ![It].grabs = TRUE]
    <3>1. It \in DOMAIN files /\ files[It].open /\ files[It] \in FileType
      BY <1>1, InLoopFacts DEF OpenFiles, TypeInv
    <3>2. [files[It] EXCEPT !.grabs = TRUE] \in FileType
      BY <3>1 DEF FileType
    <3>3. files' = [files EXCEPT ![It] = [files[It] EXCEPT !.grabs = TRUE]]
      BY <2>3
    <3>4. files' \in Seq(FileType) /\ Len(files') = Len(files) /\ DOMAIN files' = DOMAIN files
      BY <1>1, <3>1, <3>2, <3>3 DEF TypeInv
    <3>5. \A i \in DOMAIN files : files'[i] = IF i = It THEN [files[It] EXCEPT !.grabs = TRUE] ELSE files[i]
      BY <1>1, <3>1, <3>3 DEF TypeInv
    <3>6. LET f == [files[It] EXCEPT !.grabs = TRUE]
          IN (f.open <=> files[It].open) /\ (f.alive <=> files[It].alive)
      BY <3>1 DEF FileType
    <3> QED  BY <2>1, <3>1, <3>4, <3>5, <3>6
  <2> QED  BY <2>2, <2>3 DEF Start
<1>3. Busy' = Busy \cup {It} /\ Counted' = Counted \cup {It}
  BY <1>1, InLoopFacts DEF Busy, Counted
<1>4. OpenFiles' = OpenFiles
  BY <1>2 DEF OpenFiles
<1>5. TypeInv'
  BY <1>1, <1>2 DEF TypeInv, Monitors
<1>6. LoopInv'
  BY <1>1, <1>2, InLoopFacts DEF Inv, LoopInv
<1>7. PhaseInv'
  BY <1>1 DEF Inv, PhaseInv
<1>8. OpenInv'
  <2>1. OpenFiles = ToSet(left) \cup Busy
    BY <1>1 DEF Inv, OpenInv
  <2>2. OpenFiles' = ToSet(left') \cup Busy'
    BY <1>1, <1>3, <1>4, <2>1, InLoopFacts
  <2>3. listing' \notin {"open", "query", "failed"}
    BY <1>1 DEF Inv, PhaseInv
  <2> QED  BY <1>1, <1>2, <2>2, <2>3 DEF OpenInv
<1>9. ReaderInv'
  <2>1. \A i \in ToSet(left') : reader'[i] = "none"
    <3>1. \A i \in ToSet(left') : i # It /\ i \in 1..MaxFiles /\ reader[i] = "none"
      BY <1>1, InLoopFacts, CountedFinite DEF Inv, ReaderInv
    <3> QED  BY <1>1, <3>1
  <2>2. ASSUME NEW i \in 1..MaxFiles
        PROVE  /\ reader'[i] # "none" => i \in DOMAIN files'
               /\ reader'[i] \in {"closing", "closed", "done"} => ~files'[i].alive
    <3>1. CASE i = It
      BY <1>1, <1>2, <3>1, InLoopFacts
    <3>2. CASE i # It
      BY <1>1, <1>2, <3>2 DEF Inv, ReaderInv
    <3> QED  BY <3>1, <3>2
  <2>3. ASSUME NEW i \in ToSet(devices')
        PROVE  \/ reader'[i] # "none"
               \/ pc' = "loop" /\ i \in ToSet(left')
               \/ program' = "monitor -grab" /\ ~files'[i].open
    <3>1. i \in DOMAIN files /\ i \in 1..MaxFiles
      BY <1>1, <2>3, CountedFinite DEF TypeInv
    <3>2. \/ reader[i] # "none"
          \/ i \in ToSet(left)
          \/ program = "monitor -grab" /\ ~files[i].open
      BY <1>1, <2>3 DEF Inv, ReaderInv, AtWork
    <3> QED  BY <1>1, <1>2, <3>1, <3>2, InLoopFacts
  <2>4. wg' = Cardinality(Counted')
    BY <1>1, <1>3, CountedFinite, InLoopFacts, FS_AddElement
  <2>5. AtWork'
    BY <1>1 DEF AtWork
  <2> QED  BY <1>1, <2>1, <2>2, <2>3, <2>4, <2>5 DEF ReaderInv
<1> QED  BY <1>5, <1>6, <1>7, <1>8, <1>9 DEF Inv

\* wg is zero once every goroutine is done, and then every file is closed.
LEMMA WaitKeeps == Inv /\ Wait /\ Steady => Inv'
<1> SUFFICES ASSUME Inv, Wait, Steady PROVE Inv'
  OBVIOUS
<1>1. /\ pc = "loop" /\ pc' = "ungrab" /\ Monitors /\ Monitors' /\ left = <<>> /\ wg = 0
      /\ UNCHANGED <<node, touched, listing, rest, files, devices, left, reader, wg, program, args>>
  BY DEF Wait, Steady, discoveryVars, nodeVars, listVars, Monitors
<1>2. Counted = {} /\ Counted' = {} /\ Busy = {}
  <2>1. Counted = {}
    BY <1>1, CountedFinite, FS_EmptySet
  <2> QED  BY <1>1, <2>1 DEF Counted, Busy
<1>3. OpenFiles = {} /\ OpenFiles' = {} /\ ToSet(left) = {}
  <2>1. ToSet(left) = {}
    BY <1>1, EmptyList
  <2>2. OpenFiles = {}
    BY <1>1, <1>2, <2>1 DEF Inv, OpenInv
  <2> QED  BY <1>1, <2>1, <2>2 DEF OpenFiles
<1>4. TypeInv'
  BY <1>1 DEF Inv, TypeInv, Monitors
<1>5. LoopInv'
  BY <1>1 DEF Inv, LoopInv
<1>6. PhaseInv'
  BY <1>1 DEF Inv, PhaseInv
<1>7. OpenInv'
  BY <1>1, <1>3 DEF Inv, OpenInv, PhaseInv
<1>8. ReaderInv'
  <2>1. wg' = Cardinality(Counted')
    BY <1>1, <1>2 DEF Inv, ReaderInv
  <2>2. \A i \in ToSet(devices') : reader'[i] # "none" \/ (program' = "monitor -grab" /\ ~files'[i].open)
    BY <1>1, <1>3 DEF Inv, ReaderInv, AtWork
  <2> QED  BY <1>1, <1>2, <2>1, <2>2 DEF Inv, ReaderInv, AtWork
<1> QED  BY <1>4, <1>5, <1>6, <1>7, <1>8 DEF Inv

LEMMA UngrabKeeps == Inv /\ UngrabDeferred /\ Steady => Inv'
<1> SUFFICES ASSUME Inv, UngrabDeferred, Steady PROVE Inv'
  OBVIOUS
<1>1. /\ pc = "ungrab" /\ pc' = "end" /\ Monitors /\ Monitors' /\ OpenFiles = {} /\ TypeInv
      /\ UNCHANGED <<node, touched, listing, rest, devices, left, reader, wg, program, args>>
  BY DEF UngrabDeferred, Steady, nodeVars, Inv, PhaseInv, OpenInv, Monitors
<1>2. files' = files
  <2>1. \A i \in DOMAIN files : ~files[i].open
    BY <1>1 DEF OpenFiles
  <2>2. files' = [i \in DOMAIN files |-> files[i]]
    BY <2>1 DEF UngrabDeferred
  <2>3. DOMAIN files = 1..Len(files) /\ files \in [1..Len(files) -> FileType]
    BY <1>1 DEF TypeInv
  <2> QED  BY <2>2, <2>3
<1>3. OpenFiles' = {} /\ Counted' = Counted
  BY <1>1, <1>2, SameFiles
<1>4. TypeInv'
  BY <1>1, <1>2 DEF Inv, TypeInv, Monitors
<1>5. LoopInv'
  BY <1>1, <1>2 DEF Inv, LoopInv
<1>6. PhaseInv'
  BY <1>1 DEF Inv, PhaseInv
<1>7. OpenInv'
  BY <1>1, <1>2, <1>3 DEF Inv, OpenInv, PhaseInv
<1>8. ReaderInv'
  BY <1>1, <1>2, <1>3 DEF Inv, ReaderInv, AtWork
<1> QED  BY <1>4, <1>5, <1>6, <1>7, <1>8 DEF Inv
-----------------------------------------------------------------------------
(* The goroutines of monitor.                                              *)

\* One that is counted runs while main is in its loop, on a file that main has
\* gone through.
LEMMA Running ==
  ASSUME Inv, NEW i \in 1..MaxFiles, reader[i] \in {"reading", "closing", "closed"}
  PROVE  /\ Monitors /\ pc = "loop" /\ listing \notin {"open", "query", "failed"}
         /\ i \in DOMAIN files /\ i \notin ToSet(left) /\ i \in Counted
<1>1. i \in Counted
  BY DEF Counted
<1>2. Monitors /\ AtWork
  BY DEF Inv, ReaderInv
<1>3. pc = "loop"
  BY <1>1, <1>2 DEF Inv, ReaderInv, AtWork
<1> QED  BY <1>1, <1>2, <1>3 DEF Inv, ReaderInv, PhaseInv

LEMMA ReadErrorKeeps ==
  ASSUME Inv, NEW i \in 1..MaxFiles, ReadError(i), Steady
  PROVE  Inv'
<1>1. /\ reader[i] = "reading" /\ ~files[i].alive /\ reader' = [reader EXCEPT ![i] = "closing"]
      /\ reader \in [1..MaxFiles -> {"none", "reading", "closing", "closed", "done"}]
      /\ Monitors /\ Monitors' /\ pc = "loop" /\ listing \notin {"open", "query", "failed"}
      /\ i \in DOMAIN files /\ i \notin ToSet(left)
      /\ UNCHANGED <<node, touched, listing, rest, files, devices, pc, left, wg, program, args>>
  BY Running DEF ReadError, Steady, discoveryVars, nodeVars, listVars, Monitors, Inv, TypeInv
<1>2. Busy' = Busy /\ Counted' = Counted /\ OpenFiles' = OpenFiles
  BY <1>1 DEF Busy, Counted, OpenFiles
<1>3. TypeInv'
  BY <1>1 DEF Inv, TypeInv, Monitors
<1>4. LoopInv'
  BY <1>1 DEF Inv, LoopInv
<1>5. PhaseInv'
  BY <1>1 DEF Inv, PhaseInv
<1>6. OpenInv'
  BY <1>1, <1>2 DEF Inv, OpenInv
<1>7. ReaderInv'
  <2>1. \A j \in 1..MaxFiles : j # i => reader'[j] = reader[j]
    BY <1>1
  <2>2. reader'[i] = "closing"
    BY <1>1
  <2>3. ToSet(left') \subseteq 1..MaxFiles /\ ToSet(devices') \subseteq 1..MaxFiles
    BY <1>1, CountedFinite DEF Inv, LoopInv, TypeInv
  <2>4. \A j \in ToSet(left') : reader'[j] = "none"
    BY <1>1, <2>1, <2>3 DEF Inv, ReaderInv
  <2>5. ASSUME NEW j \in 1..MaxFiles
        PROVE  /\ reader'[j] # "none" => j \in DOMAIN files'
               /\ reader'[j] \in {"closing", "closed", "done"} => ~files'[j].alive
    BY <1>1, <2>1, <2>2 DEF Inv, ReaderInv
  <2>6. ASSUME NEW j \in ToSet(devices')
        PROVE  \/ reader'[j] # "none"
               \/ pc' = "loop" /\ j \in ToSet(left')
               \/ program' = "monitor -grab" /\ ~files'[j].open
    BY <1>1, <2>1, <2>2, <2>3 DEF Inv, ReaderInv, AtWork
  <2>7. wg' = Cardinality(Counted') /\ AtWork'
    BY <1>1, <1>2 DEF Inv, ReaderInv, AtWork
  <2> QED  BY <1>1, <2>4, <2>5, <2>6, <2>7 DEF ReaderInv
<1> QED  BY <1>3, <1>4, <1>5, <1>6, <1>7 DEF Inv

LEMMA CloseReadKeeps ==
  ASSUME Inv, NEW i \in 1..MaxFiles, CloseRead(i), Steady
  PROVE  Inv'
<1>1. /\ reader[i] = "closing" /\ closeAll({i}) /\ reader' = [reader EXCEPT ![i] = "closed"]
      /\ reader \in [1..MaxFiles -> {"none", "reading", "closing", "closed", "done"}]
      /\ Monitors /\ Monitors' /\ pc = "loop" /\ listing \notin {"open", "query", "failed"}
      /\ i \in DOMAIN files /\ i \notin ToSet(left) /\ TypeInv
      /\ UNCHANGED <<node, touched, listing, rest, devices, pc, left, wg, program, args>>
  BY Running DEF CloseRead, Steady, nodeVars, Monitors, Inv, TypeInv
<1>2. /\ files' \in Seq(FileType) /\ Len(files') = Len(files) /\ DOMAIN files' = DOMAIN files
      /\ OpenFiles' = OpenFiles \ {i}
      /\ \A j \in DOMAIN files : /\ files'[j].open => files[j].open
                                 /\ files'[j].alive <=> files[j].alive
      /\ \A j \in DOMAIN files' : files'[j].grabs => files'[j].open
  <2>1. \A j \in DOMAIN files : files[j].grabs => files[j].open
    BY DEF Inv, OpenInv
  <2> QED  BY <1>1, <2>1, ClosedSome
<1>3. Busy' = Busy \ {i} /\ Counted' = Counted
  BY <1>1 DEF Busy, Counted
<1>4. TypeInv'
  BY <1>1, <1>2 DEF TypeInv, Monitors
<1>5. LoopInv'
  BY <1>1, <1>2 DEF Inv, LoopInv
<1>6. PhaseInv'
  BY <1>1 DEF Inv, PhaseInv
<1>7. OpenInv'
  <2>1. OpenFiles' = ToSet(left') \cup Busy'
    BY <1>1, <1>2, <1>3 DEF Inv, OpenInv
  <2> QED  BY <1>1, <1>2, <2>1 DEF OpenInv
<1>8. ReaderInv'
  <2>1. \A j \in 1..MaxFiles : j # i => reader'[j] = reader[j]
    BY <1>1
  <2>2. reader'[i] = "closed"
    BY <1>1
  <2>3. ToSet(left') \subseteq 1..MaxFiles /\ ToSet(devices') \subseteq 1..MaxFiles
        /\ ToSet(devices') \subseteq DOMAIN files
    BY <1>1, CountedFinite DEF Inv, LoopInv, TypeInv
  <2>4. \A j \in ToSet(left') : reader'[j] = "none"
    BY <1>1, <2>1, <2>3 DEF Inv, ReaderInv
  <2>5. ASSUME NEW j \in 1..MaxFiles
        PROVE  /\ reader'[j] # "none" => j \in DOMAIN files'
               /\ reader'[j] \in {"closing", "closed", "done"} => ~files'[j].alive
    <3>1. CASE j = i
      BY <1>1, <1>2, <3>1 DEF Inv, ReaderInv
    <3>2. CASE j # i
      BY <1>2, <2>1, <3>2 DEF Inv, ReaderInv
    <3> QED  BY <3>1, <3>2
  <2>6. ASSUME NEW j \in ToSet(devices')
        PROVE  \/ reader'[j] # "none"
               \/ pc' = "loop" /\ j \in ToSet(left')
               \/ program' = "monitor -grab" /\ ~files'[j].open
    <3>1. \/ reader[j] # "none"
          \/ pc = "loop" /\ j \in ToSet(left)
          \/ program = "monitor -grab" /\ ~files[j].open
      BY <1>1, <2>6 DEF Inv, ReaderInv, AtWork
    <3> QED  BY <1>1, <1>2, <2>1, <2>2, <2>3, <3>1
  <2>7. wg' = Cardinality(Counted') /\ AtWork'
    BY <1>1, <1>3 DEF Inv, ReaderInv, AtWork
  <2> QED  BY <1>1, <2>4, <2>5, <2>6, <2>7 DEF ReaderInv
<1> QED  BY <1>4, <1>5, <1>6, <1>7, <1>8 DEF Inv

LEMMA DoneKeeps ==
  ASSUME Inv, NEW i \in 1..MaxFiles, Done(i), Steady
  PROVE  Inv'
<1>1. /\ reader[i] = "closed" /\ wg' = wg - 1 /\ reader' = [reader EXCEPT ![i] = "done"]
      /\ reader \in [1..MaxFiles -> {"none", "reading", "closing", "closed", "done"}]
      /\ Monitors /\ Monitors' /\ pc = "loop" /\ listing \notin {"open", "query", "failed"}
      /\ i \in DOMAIN files /\ i \notin ToSet(left) /\ i \in Counted
      /\ UNCHANGED <<node, touched, listing, rest, files, devices, pc, left, program, args>>
  BY Running DEF Done, Steady, discoveryVars, nodeVars, listVars, Monitors, Inv, TypeInv
<1>2. Busy' = Busy /\ Counted' = Counted \ {i} /\ OpenFiles' = OpenFiles
  BY <1>1 DEF Busy, Counted, OpenFiles
<1>3. TypeInv'
  BY <1>1 DEF Inv, TypeInv, Monitors
<1>4. LoopInv'
  BY <1>1 DEF Inv, LoopInv
<1>5. PhaseInv'
  BY <1>1 DEF Inv, PhaseInv
<1>6. OpenInv'
  BY <1>1, <1>2 DEF Inv, OpenInv
<1>7. ReaderInv'
  <2>1. \A j \in 1..MaxFiles : j # i => reader'[j] = reader[j]
    BY <1>1
  <2>2. reader'[i] = "done"
    BY <1>1
  <2>3. ToSet(left') \subseteq 1..MaxFiles /\ ToSet(devices') \subseteq 1..MaxFiles
    BY <1>1, CountedFinite DEF Inv, LoopInv, TypeInv
  <2>4. \A j \in ToSet(left') : reader'[j] = "none"
    BY <1>1, <2>1, <2>3 DEF Inv, ReaderInv
  <2>5. ASSUME NEW j \in 1..MaxFiles
        PROVE  /\ reader'[j] # "none" => j \in DOMAIN files'
               /\ reader'[j] \in {"closing", "closed", "done"} => ~files'[j].alive
    BY <1>1, <2>1, <2>2 DEF Inv, ReaderInv
  <2>6. ASSUME NEW j \in ToSet(devices')
        PROVE  \/ reader'[j] # "none"
               \/ pc' = "loop" /\ j \in ToSet(left')
               \/ program' = "monitor -grab" /\ ~files'[j].open
    BY <1>1, <2>1, <2>2, <2>3 DEF Inv, ReaderInv, AtWork
  <2>7. wg' = Cardinality(Counted')
    BY <1>1, <1>2, CountedFinite, FS_RemoveElement
  <2>8. AtWork'
    BY <1>1 DEF AtWork
  <2> QED  BY <1>1, <2>4, <2>5, <2>6, <2>7, <2>8 DEF ReaderInv
<1> QED  BY <1>3, <1>4, <1>5, <1>6, <1>7 DEF Inv
-----------------------------------------------------------------------------
LEMMA NextKeeps == Inv /\ [ClientsNext]_allVars => Inv'
<1> SUFFICES ASSUME Inv, [ClientsNext]_allVars PROVE Inv'
  OBVIOUS
<1>1. CASE Main
  <2>1. Steady
    BY <1>1 DEF Main, Steady
  <2> QED
    BY <1>1, <2>1, BeginKeeps, ListKeeps, OpenArgumentKeeps, ArgumentFailsKeeps,
       ArgumentsOpenedKeeps, GotKeeps, AskKeeps, CloseDeferredKeeps, RefuseKeeps,
       StartKeeps, WaitKeeps, UngrabKeeps DEF Main, Lsinput, AskWho
<1>2. ASSUME NEW i \in 1..MaxFiles, Reader(i)
      PROVE  Inv'
  BY <1>2, ReadErrorKeeps, CloseReadKeeps, DoneKeeps DEF Reader, Goroutine, Steady
<1>3. CASE Environment /\ UNCHANGED <<program, args, progVars, taken>>
  BY <1>3, EnvironmentKeeps
<1>4. CASE UNCHANGED allVars
  <2> USE <1>4 DEF allVars, discoveryVars, nodeVars, listVars, progVars
  <2>1. TypeInv'
    BY DEF Inv, TypeInv, Monitors
  <2>2. LoopInv'
    BY DEF Inv, LoopInv
  <2>3. PhaseInv'
    BY DEF Inv, PhaseInv, Monitors
  <2>4. OpenInv'
    BY DEF Inv, OpenInv, OpenFiles, Busy, Monitors
  <2>5. ReaderInv'
    BY DEF Inv, ReaderInv, AtWork, Counted, Monitors
  <2> QED  BY <2>1, <2>2, <2>3, <2>4, <2>5 DEF Inv
<1> QED  BY <1>1, <1>2, <1>3, <1>4 DEF ClientsNext

LEMMA Invariance == ClientsSpec => []Inv
BY InitKeeps, NextKeeps, PTL DEF ClientsSpec

\* A call of the list leaves open what it returns, and nothing when it fails, and
\* a program that ends has closed every device (discover.go, examples/lsinput and
\* examples/monitor).
THEOREM NothingStaysOpen == ClientsSpec => []NothingLeft
<1>1. Inv => NothingLeft
  <2> SUFFICES ASSUME Inv PROVE NothingLeft
    OBVIOUS
  <2>1. pc = "end" => \A i \in DOMAIN files : ~files[i].open /\ ~files[i].grabs
    BY DEF Inv, OpenInv, OpenFiles
  <2> QED  BY <2>1 DEF Inv, OpenInv, NothingLeft
<1> QED  BY <1>1, Invariance, PTL

\* monitor waits for the goroutine of every device that is there, which reads it,
\* and never counts one less or more than it has started (examples/monitor).
THEOREM MonitorWaits == ClientsSpec => []WaitsForAll
<1>1. Inv => WaitsForAll
  <2> SUFFICES ASSUME Inv, Monitors, NEW i \in ToSet(devices), files[i].alive,
                      pc \in {"loop", "ungrab", "end"}
               PROVE  \/ pc = "loop" /\ i \in ToSet(left)
                      \/ pc = "loop" /\ reader[i] = "reading" /\ files[i].open
                      \/ program = "monitor -grab" /\ reader[i] = "none" /\ ~files[i].open
    BY DEF WaitsForAll
  <2>1. i \in 1..MaxFiles /\ i \in DOMAIN files
    BY CountedFinite DEF Inv, TypeInv
  <2>2. reader[i] \in {"none", "reading"}
    BY <2>1 DEF Inv, TypeInv, ReaderInv
  <2>3. CASE reader[i] = "reading"
    <3>1. pc = "loop" /\ i \in Busy
      BY <2>1, <2>3, Running DEF Busy
    <3>2. files[i].open
      BY <3>1 DEF Inv, OpenInv, OpenFiles
    <3> QED  BY <2>3, <3>1, <3>2
  <2>4. CASE reader[i] = "none"
    BY <2>4 DEF Inv, ReaderInv, AtWork
  <2> QED  BY <2>2, <2>3, <2>4
<1> QED  BY <1>1, Invariance, PTL
-----------------------------------------------------------------------------
(* The list.  What it is made of: paths in their order, devices that are   *)
(* there still if nothing came or went at their paths, and whatever was    *)
(* there all along, on the list or still ahead.                            *)

Path(i) == files[i].path
PathsOf(is) == {Path(i) : i \in is}

\* The nodes that were there and readable all along.
SteadyPaths == {p \in Present \ (touched \cup chmodded) : node[p].readable}

\* Those that the list must have, which it need not if the directory was not read.
OwedPaths == {p \in SteadyPaths : ~cut}

Asked(dev) == wanted = "keyboards" => Keyboard(dev)

Ascends(s) == \A j, k \in DOMAIN s : j < k => s[j] < s[k]
Before(s, t) == \A x \in ToSet(s), y \in ToSet(t) : x < y

OrderInv ==
  listing \in {"open", "query", "done"} =>
    /\ \A j, k \in DOMAIN files : j < k => Path(j) < Path(k)
    /\ Ascends(devices)
    /\ listing = "open" => /\ ToSet(devices) = DOMAIN files
                           /\ Ascends(rest)
                           /\ \A i \in DOMAIN files, p \in ToSet(rest) : Path(i) < p
    /\ listing = "query" => Ascends(rest) /\ Before(devices, rest)

FreshInv ==
  listing \in {"open", "query"} =>
    \A i \in DOMAIN files : Path(i) \notin touched =>
      /\ node[Path(i)] # NoNode /\ files[i].alive /\ node[Path(i)].dev = files[i].dev
      /\ Path(i) \notin chmodded => node[Path(i)].readable

ListedInv ==
  /\ listing = "open" => OwedPaths \subseteq PathsOf(DOMAIN files) \cup ToSet(rest)
  /\ listing = "query" =>
       /\ wanted = "keyboards"
       /\ {p \in OwedPaths : Keyboard(node[p].dev)}
            \subseteq PathsOf(ToSet(devices) \cup ToSet(rest))
  /\ listing = "done" => {p \in OwedPaths : Asked(node[p].dev)} \subseteq PathsOf(ToSet(devices))
  /\ listing \in {"query", "done"} => \A i \in ToSet(devices) : Asked(files[i].dev)

FailInv ==
  /\ chmodded \subseteq Paths
  /\ limit \in Nat
  /\ listing = "open" => \A p \in ToSet(rest) : p \in touched \/ node[p] # NoNode
  /\ listing = "failed" => touched # {} \/ Cardinality(SteadyPaths \cup chmodded) >= limit

CallInv == OrderInv /\ FreshInv /\ ListedInv /\ FailInv
-----------------------------------------------------------------------------
(* Sequences in order.                                                     *)

LEMMA AppendAscends ==
  ASSUME NEW S, NEW s \in Seq(S), NEW x \in S, S \subseteq Nat, Ascends(s), \A y \in ToSet(s) : y < x
  PROVE  Ascends(Append(s, x))
<1>1. /\ DOMAIN Append(s, x) = 1..(Len(s) + 1) /\ Append(s, x)[Len(s) + 1] = x
      /\ DOMAIN s = 1..Len(s) /\ Len(s) \in Nat
  OBVIOUS
<1>2. \A i \in 1..Len(s) : Append(s, x)[i] = s[i]
  OBVIOUS
<1>3. \A i \in 1..Len(s) : s[i] < x
  BY <1>1 DEF ToSet
<1> QED  BY <1>1, <1>2, <1>3 DEF Ascends

LEMMA TailAscends ==
  ASSUME NEW S, NEW s \in Seq(S), s # <<>>, Ascends(s)
  PROVE  Ascends(Tail(s)) /\ \A y \in ToSet(Tail(s)) : Head(s) < y
<1>1. /\ Len(s) \in Nat \ {0} /\ Head(s) = s[1] /\ DOMAIN Tail(s) = 1..(Len(s) - 1)
      /\ DOMAIN s = 1..Len(s)
  OBVIOUS
<1>2. \A i \in 1..(Len(s) - 1) : Tail(s)[i] = s[i + 1]
  OBVIOUS
<1>3. Ascends(Tail(s))
  BY <1>1, <1>2 DEF Ascends
<1>4. \A i \in 1..(Len(s) - 1) : s[1] < s[i + 1]
  BY <1>1 DEF Ascends
<1>5. \A y \in ToSet(Tail(s)) : \E i \in 1..(Len(s) - 1) : y = s[i + 1]
  BY <1>1, <1>2 DEF ToSet
<1> QED  BY <1>1, <1>3, <1>4, <1>5

LEMMA EmptyAscends == ASSUME NEW s, s = <<>> PROVE Ascends(s)
<1>1. DOMAIN s = {}
  BY EmptyList
<1> QED  BY <1>1 DEF Ascends

\* Sorted leaves nothing out.
LEMMA SortedAll ==
  ASSUME NEW ps \in SUBSET Paths, NEW s \in Sorted(ps)
  PROVE  s \in Seq(Paths) /\ Ascends(s) /\ ToSet(s) = ps
<1> DEFINE c == Cardinality(ps)
<1>1. IsFiniteSet(ps) /\ c \in Nat /\ ps \subseteq Nat
  BY DiscoveryAssumption, FS_Subset, FS_CardinalityType
<1>2. s \in [1..c -> ps] /\ Ascends(s)
  BY DEF Sorted, Ascends
<1>3. IsFiniteSet(1..c) /\ Cardinality(1..c) = c
  <2>1. c \in Int /\ 1 \in Int
    BY <1>1
  <2>2. /\ IsFiniteSet(1..c)
        /\ Cardinality(1..c) = IF 1 > c THEN 0 ELSE c - 1 + 1
    BY <2>1, FS_Interval
  <2> HIDE DEF c
  <2> QED  BY <1>1, <2>2
<1> HIDE DEF c
<1>4. s \in Injection(1..c, ps)
  <2>1. DOMAIN s = 1..c
    BY <1>2
  <2>2. ASSUME NEW j \in 1..c, NEW k \in 1..c, s[j] = s[k] PROVE j = k
    <3>1. s[j] \in Nat /\ s[k] \in Nat
      BY <1>1, <1>2
    <3>2. (j < k => s[j] < s[k]) /\ (k < j => s[k] < s[j])
      BY <1>2, <2>1 DEF Ascends
    <3> QED  BY <2>2, <3>1, <3>2, <1>1
  <2>3. IsInjective(s)
    BY <2>1, <2>2 DEF IsInjective
  <2> QED  BY <1>2, <2>3 DEF Injection
<1>5. s \in Surjection(1..c, ps)
  BY <1>1, <1>3, <1>4, FS_Injection DEF c
<1>6. ToSet(s) = ps
  <2>1. DOMAIN s = 1..c
    BY <1>2
  <2>2. ToSet(s) \subseteq ps
    BY <1>2, <2>1 DEF ToSet
  <2>3. \A p \in ps : \E k \in 1..c : s[k] = p
    BY <1>5 DEF Surjection
  <2>4. ps \subseteq ToSet(s)
    BY <2>1, <2>3 DEF ToSet
  <2> QED  BY <2>2, <2>4
<1>7. s \in Seq(Paths)
  <2>1. s \in [1..c -> Paths]
    BY <1>2
  <2> QED  BY <1>1, <2>1
<1> QED  BY <1>2, <1>6, <1>7

\* What ListKeyboards asks is answered by what the device has.
LEMMA KeyboardAnswered == ASSUME NEW dev \in Kinds PROVE Answer[dev].keyboard <=> Keyboard(dev)
<1>1. IsDevice(dev)
  BY DiscoveryAssumption
<1>2. Answer[dev].keyboard = IsKeyboard(dev)
  BY DEF Answer
<1> QED  BY <1>1, <1>2, KeyboardRight DEF Keyboard
-----------------------------------------------------------------------------
(* Steps that leave the call alone.                                        *)

\* The same files, of the same devices, as far as they are there.
Alike ==
  /\ DOMAIN files' = DOMAIN files
  /\ \A i \in DOMAIN files : /\ files'[i].path = files[i].path
                             /\ files'[i].dev = files[i].dev
                             /\ files'[i].alive <=> files[i].alive

LEMMA SameAlike == UNCHANGED files => Alike
BY DEF Alike

LEMMA ClosedAlike == ASSUME TypeInv, NEW is, closeAll(is) PROVE Alike
<1>1. DOMAIN files = 1..Len(files) /\ \A i \in DOMAIN files : files[i] \in FileType
  BY DEF TypeInv
<1>2. files' = Closed(files, is)
  BY DEF closeAll
<1>3. DOMAIN files' = DOMAIN files
  BY <1>2 DEF Closed
<1>4. ASSUME NEW i \in DOMAIN files
      PROVE  /\ files'[i].path = files[i].path
             /\ files'[i].dev = files[i].dev
             /\ files'[i].alive <=> files[i].alive
  BY <1>1, <1>2 DEF Closed, FileType
<1> QED  BY <1>3, <1>4 DEF Alike

\* The paths of files stay what they are.
LEMMA AlikePaths ==
  ASSUME Alike, NEW is \in SUBSET (DOMAIN files)
  PROVE  PathsOf(is)' = PathsOf(is)
<1>1. \A i \in is : Path(i)' = Path(i)
  BY DEF Alike, Path
<1> QED  BY <1>1 DEF PathsOf

\* Where no call is going on or has been, nothing is claimed.
LEMMA IdleKeeps ==
  ASSUME listing' \in {"idle", "glob"}, chmodded' \subseteq Paths, limit' \in Nat
  PROVE  CallInv'
BY DEF CallInv, OrderInv, FreshInv, ListedInv, FailInv

LEMMA QuietKeeps ==
  ASSUME Inv, CallInv, Alike,
         UNCHANGED <<node, touched, chmodded, limit, cut, listing, wanted, rest, devices>>
  PROVE  CallInv'
<1>1. /\ ToSet(devices) \subseteq DOMAIN files
      /\ listing = "query" => ToSet(rest) \subseteq DOMAIN files
  BY DEF Inv, TypeInv, LoopInv
<1>2. /\ SteadyPaths' = SteadyPaths /\ OwedPaths' = OwedPaths
      /\ ToSet(devices)' = ToSet(devices) /\ ToSet(rest)' = ToSet(rest)
  BY DEF SteadyPaths, OwedPaths, Present
<1>3. \A i \in DOMAIN files : Path(i)' = Path(i)
  BY DEF Alike, Path
<1>4. OrderInv'
  BY <1>2, <1>3 DEF CallInv, OrderInv, Alike, Ascends, Before
<1>5. FreshInv'
  BY <1>3 DEF CallInv, FreshInv, Alike
<1>6. ListedInv'
  <2>1. PathsOf(DOMAIN files)' = PathsOf(DOMAIN files)
    BY AlikePaths DEF Alike
  <2>2. PathsOf(ToSet(devices))' = PathsOf(ToSet(devices))
    BY <1>1, <1>2, AlikePaths
  <2>3. listing = "query" =>
          PathsOf(ToSet(devices) \cup ToSet(rest))' = PathsOf(ToSet(devices) \cup ToSet(rest))
    BY <1>1, <1>2, AlikePaths
  <2>4. \A i \in ToSet(devices) : Asked(files[i].dev)' <=> Asked(files[i].dev)
    BY <1>1 DEF Alike, Asked, Keyboard
  <2>5. {p \in OwedPaths : Keyboard(node[p].dev)}' = {p \in OwedPaths : Keyboard(node[p].dev)}
    BY <1>2 DEF Keyboard
  <2>6. {p \in OwedPaths : Asked(node[p].dev)}' = {p \in OwedPaths : Asked(node[p].dev)}
    BY <1>2 DEF Asked, Keyboard
  <2> QED  BY <1>2, <2>1, <2>2, <2>3, <2>4, <2>5, <2>6 DEF CallInv, ListedInv
<1>7. FailInv'
  BY <1>2 DEF CallInv, FailInv
<1> QED  BY <1>4, <1>5, <1>6, <1>7 DEF CallInv

\* What can happen at one path.
LEMMA ChangeAt ==
  ASSUME Inv, NEW p \in Paths, Plug(p) \/ Unplug(p) \/ Chmod(p)
  PROVE  /\ UNCHANGED <<limit, cut, listing, wanted, rest, devices>>
         /\ touched \subseteq touched' /\ chmodded \subseteq chmodded' /\ chmodded' \subseteq chmodded \cup {p}
         /\ DOMAIN files' = DOMAIN files
         /\ \A i \in DOMAIN files :
              /\ files'[i].path = files[i].path
              /\ files'[i].dev = files[i].dev
              /\ files[i].path \notin touched' => (files'[i].alive <=> files[i].alive)
         /\ \A q \in Paths : q \notin touched' =>
              /\ node'[q] # NoNode <=> node[q] # NoNode
              /\ node[q] # NoNode => node'[q].dev = node[q].dev
              /\ q \notin chmodded' => node'[q] = node[q]
              /\ q # p => node'[q] = node[q]
<1>1. /\ node \in [Paths -> Nodes \cup {NoNode}]
      /\ DOMAIN files = 1..Len(files) /\ \A i \in DOMAIN files : files[i] \in FileType
  BY DEF Inv, TypeInv
<1>2. CASE Plug(p)
  <2>1. touched' = touched \cup {p} /\ \A q \in Paths : q # p => node'[q] = node[q]
    BY <1>1, <1>2 DEF Plug
  <2> QED  BY <1>2, <2>1 DEF Plug, Change
<1>3. CASE Unplug(p)
  <2>1. touched' = touched \cup {p} /\ \A q \in Paths : q # p => node'[q] = node[q]
    BY <1>1, <1>3 DEF Unplug
  <2>2. ASSUME NEW i \in DOMAIN files
        PROVE  /\ files'[i].path = files[i].path
               /\ files'[i].dev = files[i].dev
               /\ files[i].path # p => (files'[i].alive <=> files[i].alive)
    BY <1>1, <1>3 DEF Unplug, FileType
  <2> QED  BY <1>3, <2>1, <2>2 DEF Unplug, Change
<1>4. CASE Chmod(p)
  <2>1. node[p] \in Nodes /\ node'[p] = [node[p] EXCEPT !.readable = ~@]
    BY <1>1, <1>4 DEF Chmod
  <2>2. node'[p] \in Nodes /\ node'[p].dev = node[p].dev
    BY <2>1 DEF Nodes
  <2>3. node'[p] # NoNode
    BY <2>2, DiscoveryAssumption DEF Nodes
  <2>4. \A q \in Paths : q # p => node'[q] = node[q]
    BY <1>1, <1>4 DEF Chmod
  <2>5. chmodded' = chmodded \cup {p} /\ UNCHANGED <<files, touched>> /\ node[p] # NoNode
    BY <1>4 DEF Chmod
  <2> QED  BY <1>4, <2>2, <2>3, <2>4, <2>5 DEF Chmod, Change
<1> QED  BY <1>2, <1>3, <1>4

LEMMA CardinalityGrows ==
  ASSUME NEW S \in SUBSET Paths, NEW T \in SUBSET S
  PROVE  Cardinality(T) \in Nat /\ Cardinality(S) \in Nat /\ Cardinality(T) <= Cardinality(S)
<1>1. IsFiniteSet(S)
  BY DiscoveryAssumption, FS_Subset
<1>2. IsFiniteSet(T) /\ Cardinality(T) <= Cardinality(S)
  BY <1>1, FS_Subset
<1> QED  BY <1>1, <1>2, FS_CardinalityType

LEMMA ChangeKeepsCall ==
  ASSUME Inv, CallInv, NEW p \in Paths, Plug(p) \/ Unplug(p) \/ Chmod(p)
  PROVE  CallInv'
<1>1. /\ UNCHANGED <<limit, cut, listing, wanted, rest, devices>>
      /\ touched \subseteq touched' /\ chmodded \subseteq chmodded' /\ chmodded' \subseteq chmodded \cup {p}
      /\ DOMAIN files' = DOMAIN files
      /\ \A i \in DOMAIN files :
           /\ files'[i].path = files[i].path
           /\ files'[i].dev = files[i].dev
           /\ files[i].path \notin touched' => (files'[i].alive <=> files[i].alive)
  BY ChangeAt
<1>2. \A q \in Paths : q \notin touched' =>
        /\ node'[q] # NoNode <=> node[q] # NoNode
        /\ node[q] # NoNode => node'[q].dev = node[q].dev
        /\ q \notin chmodded' => node'[q] = node[q]
        /\ q # p => node'[q] = node[q]
  BY ChangeAt
<1>3. /\ ToSet(devices) \subseteq DOMAIN files
      /\ listing = "query" => ToSet(rest) \subseteq DOMAIN files
      /\ listing = "open" => ToSet(rest) \subseteq Paths
      /\ \A i \in DOMAIN files : Path(i) \in Paths
  <2>1. rest \in Seq(Paths) => ToSet(rest) \subseteq Paths
    BY DEF ToSet
  <2>2. \A i \in DOMAIN files : files[i] \in FileType
    BY DEF Inv, TypeInv
  <2>3. \A i \in DOMAIN files : Path(i) \in Paths
    BY <2>2 DEF FileType, Path
  <2> QED  BY <2>1, <2>3 DEF Inv, TypeInv, LoopInv
<1>4. \A i \in DOMAIN files : Path(i)' = Path(i)
  BY <1>1 DEF Path
<1>5. \A is \in SUBSET (DOMAIN files) : PathsOf(is)' = PathsOf(is)
  BY <1>4 DEF PathsOf
<1>6. /\ SteadyPaths' \subseteq SteadyPaths /\ SteadyPaths' \subseteq Paths
      /\ SteadyPaths \subseteq Paths
      /\ \A q \in SteadyPaths' : node'[q].dev = node[q].dev
      /\ OwedPaths' \subseteq OwedPaths /\ OwedPaths' \subseteq SteadyPaths'
  BY <1>1, <1>2 DEF SteadyPaths, OwedPaths, Present
<1>7. OrderInv'
  BY <1>1, <1>4 DEF CallInv, OrderInv, Ascends, Before
<1>8. FreshInv'
  <2> SUFFICES ASSUME listing' \in {"open", "query"}, NEW i \in DOMAIN files', Path(i)' \notin touched'
               PROVE  /\ node'[Path(i)'] # NoNode /\ files'[i].alive
                      /\ node'[Path(i)'].dev = files'[i].dev
                      /\ Path(i)' \notin chmodded' => node'[Path(i)'].readable
    BY DEF FreshInv
  <2>1. i \in DOMAIN files /\ Path(i)' = Path(i) /\ Path(i) \in Paths /\ Path(i) \notin touched
    BY <1>1, <1>3, <1>4
  <2>2. /\ node[Path(i)] # NoNode /\ files[i].alive /\ node[Path(i)].dev = files[i].dev
        /\ Path(i) \notin chmodded => node[Path(i)].readable
    BY <1>1, <2>1 DEF CallInv, FreshInv
  <2>3. files[i].path \notin touched'
    BY <2>1 DEF Path
  <2> QED  BY <1>1, <1>2, <2>1, <2>2, <2>3
<1>9. ListedInv'
  <2>1. listing = "open" => OwedPaths' \subseteq PathsOf(DOMAIN files)' \cup ToSet(rest)'
    BY <1>1, <1>5, <1>6 DEF CallInv, ListedInv
  <2>2. listing = "query" =>
          {q \in OwedPaths : Keyboard(node[q].dev)}' \subseteq PathsOf(ToSet(devices) \cup ToSet(rest))'
    BY <1>1, <1>3, <1>5, <1>6 DEF CallInv, ListedInv, Keyboard
  <2>3. listing = "done" =>
          {q \in OwedPaths : Asked(node[q].dev)}' \subseteq PathsOf(ToSet(devices))'
    BY <1>1, <1>3, <1>5, <1>6 DEF CallInv, ListedInv, Asked, Keyboard
  <2>4. \A i \in ToSet(devices) : Asked(files[i].dev)' <=> Asked(files[i].dev)
    BY <1>1, <1>3 DEF Asked, Keyboard
  <2> QED  BY <1>1, <2>1, <2>2, <2>3, <2>4 DEF CallInv, ListedInv
<1>10. FailInv'
  <2>1. chmodded' \subseteq Paths /\ limit' \in Nat
    BY <1>1 DEF CallInv, FailInv
  <2>2. listing = "open" => \A q \in ToSet(rest) : q \in touched' \/ node'[q] # NoNode
    BY <1>1, <1>2, <1>3 DEF CallInv, FailInv
  <2>3. ASSUME listing = "failed", touched' = {}
        PROVE  Cardinality(SteadyPaths \cup chmodded)' >= limit
    <3> DEFINE S == SteadyPaths \cup chmodded
    <3>1. touched = {} /\ Cardinality(S) >= limit
      BY <1>1, <2>3 DEF CallInv, FailInv
    <3>2. \A q \in SteadyPaths : q # p => q \in SteadyPaths'
      BY <1>1, <1>2, <1>6, <2>3 DEF SteadyPaths, Present
    <3>3. p \in SteadyPaths => p \in SteadyPaths' \cup chmodded'
      BY <1>1, <1>2, <1>6, <2>3 DEF SteadyPaths, Present
    <3>4. S \subseteq S' /\ S' \subseteq Paths
      BY <1>1, <1>6, <2>1, <3>2, <3>3
    <3> HIDE DEF S
    <3>5. Cardinality(S) \in Nat /\ Cardinality(S') \in Nat /\ Cardinality(S) <= Cardinality(S')
      BY <3>4, CardinalityGrows
    <3>6. Cardinality(S') >= limit
      BY <3>1, <3>5 DEF CallInv, FailInv
    <3> QED  BY <3>6 DEF S
  <2> QED  BY <1>1, <2>1, <2>2, <2>3 DEF FailInv
<1> QED  BY <1>7, <1>8, <1>9, <1>10 DEF CallInv
-----------------------------------------------------------------------------
(* The call, step by step.                                                 *)

LEMMA GlobCall == Inv /\ CallInv /\ (ListDevicePaths \/ ListPathsCut) => CallInv'
<1> SUFFICES ASSUME Inv, CallInv, ListDevicePaths \/ ListPathsCut PROVE CallInv'
  OBVIOUS
<1>1. /\ listing = "glob" /\ listing' = "open" /\ files = <<>> /\ devices = <<>>
      /\ UNCHANGED <<node, touched, chmodded, limit, files, wanted, devices>>
  BY GlobGives DEF Inv, PhaseInv
<1>2. PICK ps \in SUBSET (Present \cup touched) :
        rest' \in Sorted(ps) /\ (~cut' => Present \ touched \subseteq ps)
  BY GlobGives
<1>3. ps \in SUBSET Paths
  BY DEF Present, Inv, TypeInv
<1>4. Ascends(rest') /\ ToSet(rest') = ps
  <2>1. rest' \in Sorted(ps)
    BY <1>2
  <2> QED  BY <1>3, <2>1, SortedAll
<1>5. DOMAIN files = {} /\ ToSet(devices) = {} /\ Ascends(devices)
  BY <1>1, EmptyList, EmptyAscends
<1>6. Ascends(devices)' /\ Ascends(rest)' /\ DOMAIN files' = {} /\ ToSet(devices)' = {} /\ ToSet(rest)' = ps
  BY <1>1, <1>4, <1>5 DEF Ascends
<1>7. OrderInv'
  BY <1>1, <1>6 DEF OrderInv
<1>8. FreshInv'
  BY <1>1, <1>6 DEF FreshInv
<1>9. ListedInv'
  <2>1. OwedPaths' \subseteq ps
    BY <1>1, <1>2 DEF OwedPaths, SteadyPaths, Present
  <2> QED  BY <1>1, <1>6, <2>1 DEF ListedInv
<1>10. FailInv'
  <2>1. \A p \in ps : p \in touched \/ node[p] # NoNode
    BY <1>2 DEF Present
  <2> QED  BY <1>1, <1>6, <2>1 DEF CallInv, FailInv
<1> QED  BY <1>7, <1>8, <1>9, <1>10 DEF CallInv

LEMMA OpenCall == Inv /\ CallInv /\ OpenNext => CallInv'
<1> SUFFICES ASSUME Inv, CallInv, OpenNext PROVE CallInv'
  OBVIOUS
<1> DEFINE p == Head(rest)
<1>0. PICK n \in Nat : n = Len(files) + 1
  BY DEF Inv, TypeInv
<1>1. /\ listing = "open" /\ listing' = "open" /\ rest # <<>> /\ rest' = Tail(rest) /\ rest \in Seq(Paths)
      /\ UNCHANGED <<node, touched, chmodded, limit, cut, wanted>>
      /\ files' = Append(files, Opened(p)) /\ devices' = Append(devices, n)
      /\ OpenError(p) = "none" /\ TypeInv
  BY <1>0 DEF OpenNext, nodeVars, Inv, LoopInv
<1>2. /\ p \in Paths /\ ToSet(rest) = {p} \cup ToSet(Tail(rest))
      /\ Ascends(Tail(rest)) /\ \A q \in ToSet(Tail(rest)) : p < q
  <2>1. Ascends(rest)
    BY <1>1 DEF CallInv, OrderInv
  <2> QED  BY <1>1, <2>1, TailSet, TailAscends
<1>3. node[p] \in Nodes /\ node[p] # NoNode /\ node[p].readable
  <2>1. node[p] # NoNode /\ node[p].readable
    BY <1>1 DEF OpenError
  <2> QED  BY <1>1, <1>2, <2>1 DEF TypeInv
<1>4. /\ DOMAIN files = 1..Len(files) /\ Len(files) \in Nat /\ DOMAIN files' = DOMAIN files \cup {n} 
      /\ n \notin DOMAIN files
      /\ files'[n] = Opened(p) /\ \A i \in DOMAIN files : files'[i] = files[i]
  BY <1>0, <1>1 DEF TypeInv
<1>5. Path(n)' = p /\ \A i \in DOMAIN files : Path(i)' = Path(i)
  BY <1>4 DEF Path, Opened
<1>6. ToSet(devices) = DOMAIN files /\ devices \in Seq(Nat)
  BY <1>1 DEF CallInv, OrderInv, TypeInv
<1>7. ToSet(devices') = DOMAIN files' /\ Ascends(devices')
  <2>1. ToSet(devices') = ToSet(devices) \cup {n}
    BY <1>1, <1>4, <1>6, AppendSet
  <2>2. \A i \in ToSet(devices) : i < n
    BY <1>0, <1>4, <1>6
  <2>3. Ascends(devices)
    BY <1>1 DEF CallInv, OrderInv
  <2>4. Ascends(Append(devices, n))
    BY <1>4, <1>6, <2>2, <2>3, AppendAscends
  <2> QED  BY <1>1, <1>4, <1>6, <2>1, <2>4
<1> HIDE DEF p
<1>8. OrderInv'
  <2>1. \A i \in DOMAIN files, q \in ToSet(rest) : Path(i) < q
    BY <1>1 DEF CallInv, OrderInv
  <2>2. \A i \in DOMAIN files', q \in ToSet(rest') : Path(i)' < q
    BY <1>1, <1>2, <1>4, <1>5, <2>1
  <2>3. \A j, k \in DOMAIN files : j < k => Path(j) < Path(k)
    BY <1>1 DEF CallInv, OrderInv
  <2>4. \A j, k \in DOMAIN files' : j < k => Path(j)' < Path(k)'
    <3>1. \A i \in DOMAIN files : Path(i) < p /\ i < n
      BY <1>0, <1>1, <1>2, <1>4, <2>1
    <3> SUFFICES ASSUME NEW j \in DOMAIN files', NEW k \in DOMAIN files', j < k
                 PROVE  Path(j)' < Path(k)'
      OBVIOUS
    <3>2. CASE j \in DOMAIN files /\ k \in DOMAIN files
      BY <1>5, <2>3, <3>2
    <3>3. CASE j \in DOMAIN files /\ k = n
      BY <1>5, <3>1, <3>3
    <3>4. ~(j = n)
      BY <1>0, <1>4
    <3> QED  BY <1>4, <3>2, <3>3, <3>4
  <2>5. Ascends(rest)' /\ Ascends(devices)' /\ (ToSet(devices) = DOMAIN files)'
    BY <1>1, <1>2, <1>7 DEF Ascends
  <2> QED  BY <1>1, <2>2, <2>4, <2>5 DEF OrderInv
<1>9. FreshInv'
  <2> SUFFICES ASSUME NEW i \in DOMAIN files', Path(i)' \notin touched'
               PROVE  /\ node'[Path(i)'] # NoNode /\ files'[i].alive
                      /\ node'[Path(i)'].dev = files'[i].dev
                      /\ Path(i)' \notin chmodded' => node'[Path(i)'].readable
    BY DEF FreshInv
  <2>1. CASE i = n
    BY <1>1, <1>3, <1>4, <1>5, <2>1 DEF Opened
  <2>2. CASE i \in DOMAIN files
    BY <1>1, <1>4, <1>5, <2>2 DEF CallInv, FreshInv
  <2> QED  BY <1>4, <2>1, <2>2
<1>10. ListedInv'
  <2>1. PathsOf(DOMAIN files)' = PathsOf(DOMAIN files) \cup {p}
    BY <1>4, <1>5 DEF PathsOf
  <2>2. OwedPaths' = OwedPaths
    BY <1>1 DEF OwedPaths, SteadyPaths, Present
  <2>3. OwedPaths \subseteq PathsOf(DOMAIN files) \cup ToSet(rest)
    BY <1>1 DEF CallInv, ListedInv
  <2>4. OwedPaths' \subseteq PathsOf(DOMAIN files)' \cup ToSet(rest')
    BY <1>1, <1>2, <2>1, <2>2, <2>3
  <2> QED  BY <1>1, <2>4 DEF ListedInv
<1>11. FailInv'
  BY <1>1, <1>2 DEF CallInv, FailInv
<1> QED  BY <1>8, <1>9, <1>10, <1>11 DEF CallInv

LEMMA SkipCall == Inv /\ CallInv /\ SkipNext => CallInv'
<1> SUFFICES ASSUME Inv, CallInv, SkipNext PROVE CallInv'
  OBVIOUS
<1> DEFINE p == Head(rest)
<1>1. /\ listing = "open" /\ listing' = "open" /\ rest # <<>> /\ rest' = Tail(rest) /\ rest \in Seq(Paths)
      /\ UNCHANGED <<node, touched, chmodded, limit, cut, wanted, files, devices>>
      /\ OpenError(p) = "EACCES"
  BY DEF SkipNext, nodeVars, Inv, LoopInv
<1>2. /\ ToSet(rest) = {p} \cup ToSet(Tail(rest)) /\ Ascends(Tail(rest))
  <2>1. Ascends(rest)
    BY <1>1 DEF CallInv, OrderInv
  <2> QED  BY <1>1, <2>1, TailSet, TailAscends
<1>3. p \notin OwedPaths
  BY <1>1 DEF OpenError, OwedPaths, SteadyPaths
<1> HIDE DEF p
<1>4. OrderInv'
  <2>1. Ascends(rest)'
    BY <1>1, <1>2 DEF Ascends
  <2> QED  BY <1>1, <1>2, <2>1 DEF CallInv, OrderInv, Ascends, Path
<1>5. FreshInv'
  BY <1>1 DEF CallInv, FreshInv, Path
<1>6. ListedInv'
  <2>1. OwedPaths' = OwedPaths /\ PathsOf(DOMAIN files)' = PathsOf(DOMAIN files)
    BY <1>1 DEF OwedPaths, SteadyPaths, Present, PathsOf, Path
  <2> QED  BY <1>1, <1>2, <1>3, <2>1 DEF CallInv, ListedInv
<1>7. FailInv'
  BY <1>1, <1>2 DEF CallInv, FailInv
<1> QED  BY <1>4, <1>5, <1>6, <1>7 DEF CallInv

\* A file each: there are no more files than paths.
LEMMA PathsCount ==
  ASSUME TypeInv, \A j, k \in DOMAIN files : j < k => Path(j) < Path(k)
  PROVE  /\ PathsOf(DOMAIN files) \subseteq Paths
         /\ Cardinality(DOMAIN files) \in Nat
         /\ Cardinality(DOMAIN files) <= Cardinality(PathsOf(DOMAIN files))
<1> DEFINE ps == PathsOf(DOMAIN files)
           f == [i \in DOMAIN files |-> Path(i)]
<1>1. DOMAIN files \subseteq Nat /\ \A i \in DOMAIN files : files[i] \in FileType
  BY DEF TypeInv
<1>2. \A i \in DOMAIN files : Path(i) \in Paths /\ Path(i) \in Nat
  <2>1. \A i \in DOMAIN files : Path(i) \in Paths
    BY <1>1 DEF Path, FileType
  <2> QED  BY <2>1, DiscoveryAssumption
<1>3. ps \subseteq Paths
  BY <1>2 DEF PathsOf
<1>4. IsFiniteSet(ps)
  BY <1>3, DiscoveryAssumption, FS_Subset
<1>5. f \in Injection(DOMAIN files, ps)
  <2>1. f \in [DOMAIN files -> ps]
    BY DEF PathsOf
  <2>2. ASSUME NEW j \in DOMAIN files, NEW k \in DOMAIN files, f[j] = f[k] PROVE j = k
    <3>1. Path(j) = Path(k) /\ Path(j) \in Nat /\ j \in Nat /\ k \in Nat
      BY <1>1, <1>2, <2>2
    <3>2. ~(j < k) /\ ~(k < j)
      BY <3>1
    <3> QED  BY <3>1, <3>2
  <2>3. IsInjective(f)
    BY <2>2 DEF IsInjective
  <2> QED  BY <2>1, <2>3 DEF Injection
<1> HIDE DEF f, ps
<1>6. IsFiniteSet(DOMAIN files) /\ Cardinality(DOMAIN files) <= Cardinality(ps)
  BY <1>4, <1>5, FS_Injection
<1>7. Cardinality(DOMAIN files) \in Nat
  BY <1>6, FS_CardinalityType
<1> QED  BY <1>3, <1>6, <1>7 DEF ps

LEMMA AbortCall == Inv /\ CallInv /\ Abort => CallInv'
<1> SUFFICES ASSUME Inv, CallInv, Abort PROVE CallInv'
  OBVIOUS
<1> DEFINE p == Head(rest)
<1>1. /\ listing = "open" /\ listing' = "failed" /\ rest # <<>> /\ rest \in Seq(Paths)
      /\ UNCHANGED <<node, touched, chmodded, limit>>
      /\ OpenError(p) \in {"EMFILE", "ENOENT"} /\ TypeInv
  BY DEF Abort, nodeVars, Inv, LoopInv
<1>2. ASSUME touched = {} PROVE Cardinality(SteadyPaths \cup chmodded) >= limit
  <2> DEFINE S == SteadyPaths \cup chmodded
             ps == PathsOf(DOMAIN files)
             n == Cardinality(DOMAIN files)
  <2>1. p \in ToSet(rest)
    BY <1>1, TailSet
  <2>2. node[p] # NoNode
    BY <1>1, <1>2, <2>1 DEF CallInv, FailInv
  <2>3. Cardinality(OpenFiles) >= limit
    BY <1>1, <2>2 DEF OpenError
  <2>4. OpenFiles = DOMAIN files
    BY <1>1 DEF Inv, OpenInv, CallInv, OrderInv
  <2>5. /\ ps \subseteq Paths /\ n \in Nat
        /\ n <= Cardinality(ps)
    <3>1. \A j, k \in DOMAIN files : j < k => Path(j) < Path(k)
      BY <1>1 DEF CallInv, OrderInv
    <3> QED  BY <1>1, <3>1, PathsCount
  <2>6. ps \subseteq S
    <3>1. \A i \in DOMAIN files : Path(i) \in Paths
      BY <2>5 DEF PathsOf
    <3>2. \A i \in DOMAIN files : /\ node[Path(i)] # NoNode
                                  /\ Path(i) \notin chmodded => node[Path(i)].readable
      BY <1>1, <1>2 DEF CallInv, FreshInv
    <3>3. \A i \in DOMAIN files : Path(i) \in S
      BY <1>2, <3>1, <3>2 DEF SteadyPaths, Present
    <3> QED  BY <3>3 DEF PathsOf
  <2>7. S \subseteq Paths /\ limit \in Nat
    BY DEF SteadyPaths, Present, CallInv, FailInv
  <2>8. n >= limit
    BY <2>3, <2>4
  <2> HIDE DEF S, ps, n
  <2>9. Cardinality(ps) \in Nat /\ Cardinality(S) \in Nat /\ Cardinality(ps) <= Cardinality(S)
    BY <2>6, <2>7, CardinalityGrows
  <2>10. Cardinality(S) >= limit
    BY <2>5, <2>7, <2>8, <2>9
  <2> QED  BY <2>10 DEF S
<1>3. OrderInv' /\ FreshInv' /\ ListedInv'
  BY <1>1 DEF OrderInv, FreshInv, ListedInv
<1>4. FailInv'
  <2>1. SteadyPaths' = SteadyPaths
    BY <1>1 DEF SteadyPaths, Present
  <2> QED  BY <1>1, <1>2, <2>1 DEF CallInv, FailInv
<1> QED  BY <1>3, <1>4 DEF CallInv

LEMMA ListedCall == Inv /\ CallInv /\ ListedDevices => CallInv'
<1> SUFFICES ASSUME Inv, CallInv, ListedDevices PROVE CallInv'
  OBVIOUS
<1>1. /\ listing = "open" /\ UNCHANGED <<node, touched, chmodded, limit, cut, wanted, files>>
      /\ TypeInv /\ ToSet(rest) = {}
  BY EmptyList DEF ListedDevices, nodeVars, Inv
<1>2. /\ ToSet(devices) = DOMAIN files /\ Ascends(devices)
      /\ \A j, k \in DOMAIN files : j < k => Path(j) < Path(k)
  BY <1>1 DEF CallInv, OrderInv
<1>3. /\ SteadyPaths' = SteadyPaths
      /\ OwedPaths' = OwedPaths /\ OwedPaths \subseteq PathsOf(ToSet(devices))
  BY <1>1, <1>2 DEF SteadyPaths, OwedPaths, Present, CallInv, ListedInv
<1>4. \A i \in DOMAIN files : Path(i)' = Path(i)
  BY <1>1 DEF Path
<1>5. \A is \in SUBSET (DOMAIN files) : PathsOf(is)' = PathsOf(is)
  BY <1>4 DEF PathsOf
<1>6. FailInv'
  BY <1>1, <1>3 DEF ListedDevices, CallInv, FailInv
<1>7. CASE wanted = "keyboards" /\ listing' = "query" /\ rest' = devices /\ devices' = <<>>
  <2>1. ToSet(devices') = {} /\ Ascends(devices')
    BY <1>7, EmptyList, EmptyAscends
  <2>2. ToSet(rest') = ToSet(devices) /\ Ascends(rest')
    BY <1>2, <1>7
  <2>3. Ascends(rest)' /\ Ascends(devices)' /\ Before(devices, rest)'
    BY <2>1, <2>2 DEF Ascends, Before
  <2>4. OrderInv'
    BY <1>1, <1>2, <1>4, <1>7, <2>3 DEF OrderInv
  <2>5. FreshInv'
    BY <1>1, <1>4, <1>7 DEF CallInv, FreshInv
  <2>6. PathsOf(ToSet(devices) \cup ToSet(rest))' = PathsOf(DOMAIN files)
    BY <1>1, <1>2, <1>4, <2>1, <2>2 DEF PathsOf
  <2>7. ListedInv'
    BY <1>1, <1>2, <1>3, <1>7, <2>1, <2>6 DEF ListedInv, Keyboard
  <2> QED  BY <1>6, <2>4, <2>5, <2>7 DEF CallInv
<1>8. CASE wanted # "keyboards" /\ listing' = "done" /\ UNCHANGED <<rest, devices>>
  <2>1. Ascends(devices)'
    BY <1>2, <1>8 DEF Ascends
  <2>2. OrderInv'
    BY <1>1, <1>2, <1>4, <1>8, <2>1 DEF OrderInv
  <2>3. FreshInv'
    BY <1>8 DEF FreshInv
  <2>4. PathsOf(ToSet(devices))' = PathsOf(ToSet(devices))
    BY <1>2, <1>5, <1>8
  <2>5. \A dev : Asked(dev)'
    BY <1>1, <1>8 DEF Asked
  <2>6. ListedInv'
    BY <1>3, <1>8, <2>4, <2>5 DEF ListedInv
  <2> QED  BY <1>6, <2>2, <2>3, <2>6 DEF CallInv
<1> QED  BY <1>7, <1>8 DEF ListedDevices

LEMMA QueryCall == Inv /\ CallInv /\ QueryNext => CallInv'
<1> SUFFICES ASSUME Inv, CallInv, QueryNext PROVE CallInv'
  OBVIOUS
<1>0. PICK i : i = Head(rest)
  OBVIOUS
<1>1. /\ listing = "query" /\ listing' = "query" /\ UNCHANGED <<node, touched, chmodded, limit, cut, wanted>>
      /\ rest # <<>> /\ rest' = Tail(rest) /\ TypeInv
      /\ rest \in Seq(Nat) /\ devices \in Seq(Nat)
      /\ ToSet(rest) \subseteq DOMAIN files /\ ToSet(devices) \subseteq DOMAIN files
  BY DEF QueryNext, nodeVars, Inv, LoopInv, TypeInv
<1>2. /\ Ascends(devices) /\ Ascends(rest) /\ Before(devices, rest) /\ wanted = "keyboards"
      /\ \A j, k \in DOMAIN files : j < k => Path(j) < Path(k)
  BY <1>1 DEF CallInv, OrderInv, ListedInv
<1>3. /\ i \in Nat /\ ToSet(rest) = {i} \cup ToSet(Tail(rest)) /\ i \in DOMAIN files
      /\ Ascends(Tail(rest)) /\ \A j \in ToSet(Tail(rest)) : i < j
  <2>1. Ascends(Tail(rest)) /\ \A j \in ToSet(Tail(rest)) : Head(rest) < j
    BY <1>1, <1>2, TailAscends
  <2>2. Head(rest) \in Nat /\ ToSet(rest) = {Head(rest)} \cup ToSet(Tail(rest))
    BY <1>1, TailSet
  <2> QED  BY <1>0, <1>1, <2>1, <2>2
<1>4. files[i].dev \in Kinds
  <2>1. files[i] \in FileType
    BY <1>1, <1>3 DEF TypeInv
  <2> QED  BY <2>1 DEF FileType
<1>5. \/ /\ devices' = Append(devices, i) /\ UNCHANGED files /\ Keyboard(files[i].dev)
      \/ /\ closeAll({i}) /\ UNCHANGED devices
         /\ ~(files[i].alive /\ Keyboard(files[i].dev))
  <2>1. IF files[i].alive /\ Answer[files[i].dev].keyboard
        THEN devices' = Append(devices, i) /\ UNCHANGED files
        ELSE closeAll({i}) /\ UNCHANGED devices
    BY <1>0 DEF QueryNext
  <2>2. Answer[files[i].dev].keyboard <=> Keyboard(files[i].dev)
    BY <1>4, KeyboardAnswered
  <2> QED  BY <2>1, <2>2
<1>6. Alike
  BY <1>1, <1>5, ClosedAlike, SameAlike
<1>7. /\ DOMAIN files' = DOMAIN files
      /\ \A j \in DOMAIN files : /\ Path(j)' = Path(j)
                                 /\ files'[j].dev = files[j].dev
                                 /\ files'[j].alive <=> files[j].alive
  BY <1>6 DEF Alike, Path
<1>8. /\ Ascends(devices') /\ ToSet(devices') \subseteq DOMAIN files
      /\ \/ ToSet(devices') = ToSet(devices) \cup {i} /\ Keyboard(files[i].dev)
         \/ ToSet(devices') = ToSet(devices) /\ ~(files[i].alive /\ Keyboard(files[i].dev))
  <2>1. CASE devices' = Append(devices, i) /\ Keyboard(files[i].dev)
    <3>1. ToSet(devices') = ToSet(devices) \cup {i}
      <4>1. devices \in Seq(Nat) /\ i \in Nat
        BY <1>1, <1>3
      <4>2. ToSet(Append(devices, i)) = ToSet(devices) \cup {i}
        BY <4>1, AppendSet
      <4> QED  BY <2>1, <4>2
    <3>2. \A j \in ToSet(devices) : j < i
      BY <1>2, <1>3 DEF Before
    <3>3. Ascends(Append(devices, i))
      BY <1>1, <1>2, <1>3, <3>2, AppendAscends
    <3> QED  BY <1>1, <1>3, <2>1, <3>1, <3>3
  <2>2. CASE UNCHANGED devices /\ ~(files[i].alive /\ Keyboard(files[i].dev))
    BY <1>1, <1>2, <2>2
  <2> QED  BY <1>5, <2>1, <2>2
<1>9. \A dev : Keyboard(dev)' <=> Keyboard(dev)
  BY DEF Keyboard
<1>10. OrderInv'
  <2>1. Before(devices', Tail(rest))
    BY <1>2, <1>3, <1>8 DEF Before
  <2>2. Ascends(devices)' /\ Ascends(rest)' /\ Before(devices, rest)'
    BY <1>1, <1>3, <1>8, <2>1 DEF Ascends, Before
  <2> QED  BY <1>1, <1>2, <1>7, <2>2 DEF OrderInv
<1>11. FreshInv'
  BY <1>1, <1>7 DEF CallInv, FreshInv
<1>12. ListedInv'
  <2>1. OwedPaths' = OwedPaths
    BY <1>1 DEF OwedPaths, SteadyPaths, Present
  <2>2. ASSUME NEW q \in OwedPaths, Keyboard(node[q].dev)
        PROVE  \E j \in ToSet(devices') \cup ToSet(Tail(rest)) : q = Path(j)
    <3>1. PICK j \in ToSet(devices) \cup ToSet(rest) : q = Path(j)
      BY <1>1, <2>2 DEF CallInv, ListedInv, PathsOf
    <3>2. CASE j = i
      <4>1. files[i].alive /\ node[q].dev = files[i].dev
        BY <1>1, <1>3, <3>1, <3>2 DEF CallInv, FreshInv, OwedPaths, SteadyPaths
      <4>2. i \in ToSet(devices')
        BY <1>8, <2>2, <4>1
      <4> QED  BY <3>1, <3>2, <4>2
    <3>3. CASE j # i
      <4>1. j \in ToSet(devices') \cup ToSet(Tail(rest))
        BY <1>3, <1>8, <3>1, <3>3
      <4> QED  BY <3>1, <4>1
    <3> QED  BY <3>2, <3>3
  <2>3. ToSet(devices') \cup ToSet(Tail(rest)) \subseteq DOMAIN files
    BY <1>1, <1>3, <1>8
  <2>4. \A j \in ToSet(devices') \cup ToSet(Tail(rest)) : Path(j)' = Path(j)
    BY <1>7, <2>3
  <2>5. {q \in OwedPaths : Keyboard(node[q].dev)}' \subseteq PathsOf(ToSet(devices) \cup ToSet(rest))'
    BY <1>1, <1>9, <2>1, <2>2, <2>4 DEF PathsOf
  <2>6. \A j \in ToSet(devices') : Keyboard(files'[j].dev)
    <3>1. \A j \in ToSet(devices) : Keyboard(files[j].dev)
      BY <1>1, <1>2 DEF CallInv, ListedInv, Asked
    <3>2. \A j \in ToSet(devices') : Keyboard(files[j].dev)
      BY <1>8, <3>1
    <3> QED  BY <1>7, <1>8, <3>2
  <2>7. \A j \in ToSet(devices') : Asked(files[j].dev)'
    BY <1>9, <2>6 DEF Asked, Keyboard
  <2> QED  BY <1>1, <1>2, <2>5, <2>7 DEF ListedInv
<1>13. FailInv'
  <2>1. SteadyPaths' = SteadyPaths
    BY <1>1 DEF SteadyPaths, Present
  <2> QED  BY <1>1, <2>1 DEF CallInv, FailInv
<1> QED  BY <1>10, <1>11, <1>12, <1>13 DEF CallInv

LEMMA KeyboardsCall == Inv /\ CallInv /\ ListedKeyboards => CallInv'
<1> SUFFICES ASSUME Inv, CallInv, ListedKeyboards PROVE CallInv'
  OBVIOUS
<1>1. /\ listing = "query" /\ listing' = "done" /\ ToSet(rest) = {} /\ ToSet(devices) \subseteq DOMAIN files
      /\ UNCHANGED <<node, touched, chmodded, limit, cut, wanted, files, devices>>
  BY EmptyList DEF ListedKeyboards, nodeVars, Inv, TypeInv
<1>2. \A i \in DOMAIN files : Path(i)' = Path(i)
  BY <1>1 DEF Path
<1>3. OrderInv'
  <2>1. Ascends(devices)'
    BY <1>1 DEF CallInv, OrderInv, Ascends
  <2> QED  BY <1>1, <1>2, <2>1 DEF CallInv, OrderInv
<1>4. FreshInv'
  BY <1>1 DEF FreshInv
<1>5. SteadyPaths' = SteadyPaths /\ OwedPaths' = OwedPaths
  BY <1>1 DEF OwedPaths, SteadyPaths, Present
<1>6. ListedInv'
  <2>1. {p \in OwedPaths : Keyboard(node[p].dev)} \subseteq PathsOf(ToSet(devices)) /\ wanted = "keyboards"
    BY <1>1 DEF CallInv, ListedInv
  <2>2. \A dev : Asked(dev)' <=> Asked(dev)
    BY <1>1 DEF Asked, Keyboard
  <2>3. \A dev : Asked(dev) <=> Keyboard(dev)
    BY <2>1 DEF Asked
  <2>4. PathsOf(ToSet(devices))' = PathsOf(ToSet(devices))
    BY <1>1, <1>2 DEF PathsOf
  <2>5. {p \in OwedPaths : Asked(node[p].dev)}' \subseteq PathsOf(ToSet(devices))'
    BY <1>1, <1>5, <2>1, <2>2, <2>3, <2>4
  <2>6. \A i \in ToSet(devices') : Asked(files[i].dev)'
    <3>1. \A i \in ToSet(devices) : Asked(files[i].dev)
      BY <1>1 DEF CallInv, ListedInv
    <3> QED  BY <1>1, <3>1 DEF Asked, Keyboard
  <2> QED  BY <1>1, <2>5, <2>6 DEF ListedInv
<1>7. FailInv'
  BY <1>1, <1>5 DEF CallInv, FailInv
<1> QED  BY <1>3, <1>4, <1>6, <1>7 DEF CallInv

\* Grabs come and go with files as they are.
LEMMA StartCall == Inv /\ CallInv /\ Start => CallInv'
<1> SUFFICES ASSUME Inv, CallInv, Start PROVE CallInv'
  OBVIOUS
<1>1. UNCHANGED <<node, touched, chmodded, limit, cut, listing, wanted, rest, devices>>
  BY DEF Start, nodeVars
<1>2. \A i \in DOMAIN files : files[i] \in FileType
  BY DEF Inv, TypeInv
<1>3. CASE UNCHANGED files
  BY <1>1, <1>3, SameAlike, QuietKeeps
<1>4. CASE files' = [files EXCEPT ![It].grabs = TRUE]
  <2>1. DOMAIN files' = DOMAIN files
    BY <1>4
  <2>2. ASSUME NEW i \in DOMAIN files
        PROVE  /\ files'[i].path = files[i].path
               /\ files'[i].dev = files[i].dev
               /\ files'[i].alive <=> files[i].alive
    BY <1>2, <1>4 DEF FileType
  <2>3. Alike
    BY <2>1, <2>2 DEF Alike
  <2> QED  BY <1>1, <2>3, QuietKeeps
<1> QED  BY <1>3, <1>4 DEF Start

LEMMA UngrabCall == Inv /\ CallInv /\ UngrabDeferred => CallInv'
<1> SUFFICES ASSUME Inv, CallInv, UngrabDeferred PROVE CallInv'
  OBVIOUS
<1>1. UNCHANGED <<node, touched, chmodded, limit, cut, listing, wanted, rest, devices>>
  BY DEF UngrabDeferred, nodeVars
<1>2. \A i \in DOMAIN files : files[i] \in FileType
  BY DEF Inv, TypeInv
<1>3. DOMAIN files' = DOMAIN files
  BY DEF UngrabDeferred
<1>4. ASSUME NEW i \in DOMAIN files
      PROVE  /\ files'[i].path = files[i].path
             /\ files'[i].dev = files[i].dev
             /\ files'[i].alive <=> files[i].alive
  BY <1>2 DEF UngrabDeferred, FileType
<1>5. Alike
  BY <1>3, <1>4 DEF Alike
<1> QED  BY <1>1, <1>5, QuietKeeps

LEMMA CloseCall ==
  ASSUME Inv, CallInv, NEW is, closeAll(is),
         UNCHANGED <<node, touched, chmodded, limit, cut, listing, wanted, rest, devices>>
  PROVE  CallInv'
<1>1. Alike
  BY ClosedAlike DEF Inv
<1> QED  BY <1>1, QuietKeeps

LEMMA MainCall == Inv /\ CallInv /\ Main => CallInv'
<1> SUFFICES ASSUME Inv, CallInv, Main PROVE CallInv'
  OBVIOUS
<1>1. chmodded \subseteq Paths /\ limit \in Nat
  BY DEF CallInv, FailInv
<1>2. CASE Begin
  BY <1>1, <1>2, IdleKeeps DEF Begin, Call
<1>3. CASE List
  <2>1. Listing
    BY <1>3 DEF List
  <2> QED  BY <2>1, GlobCall, OpenCall, SkipCall, AbortCall, ListedCall, QueryCall, KeyboardsCall
           DEF Listing
<1>4. CASE OpenArgument
  <2>1. listing' = "idle" /\ UNCHANGED <<chmodded, limit>>
    BY <1>4 DEF OpenArgument, Inv, PhaseInv, nodeVars
  <2> QED  BY <1>1, <2>1, IdleKeeps
<1>5. CASE ArgumentFails \/ ArgumentsOpened \/ Got \/ Wait
           \/ AskWho \/ AskKeyboard \/ AskTypes \/ AskProps \/ AskCodes
  <2>1. UNCHANGED discoveryVars
    BY <1>5 DEF ArgumentFails, ArgumentsOpened, Got, Wait, AskWho, AskName, AskPhys, AskUniq, AskID,
                AskIdentity, AskKeyboard, AskTypes, AskProps, AskCodes, Asking
  <2> QED  BY <2>1, SameAlike, QuietKeeps DEF discoveryVars, nodeVars, listVars
<1>6. CASE CloseDeferred
  BY <1>6, CloseCall DEF CloseDeferred, nodeVars
<1>7. CASE Refuse
  BY <1>7, CloseCall DEF Refuse, nodeVars
<1>8. CASE Start
  BY <1>8, StartCall
<1>9. CASE UngrabDeferred
  BY <1>9, UngrabCall
<1> QED  BY <1>2, <1>3, <1>4, <1>5, <1>6, <1>7, <1>8, <1>9 DEF Main, Lsinput, AskWho

LEMMA NextCall == Inv /\ CallInv /\ [ClientsNext]_allVars => CallInv'
<1> SUFFICES ASSUME Inv, CallInv, [ClientsNext]_allVars PROVE CallInv'
  OBVIOUS
<1>1. CASE Main
  BY <1>1, MainCall
<1>2. ASSUME NEW i \in 1..MaxFiles, Reader(i) PROVE CallInv'
  <2>1. CASE ReadError(i) \/ Done(i)
    <3>1. UNCHANGED discoveryVars
      BY <2>1 DEF ReadError, Done
    <3> QED  BY <3>1, SameAlike, QuietKeeps DEF discoveryVars, nodeVars, listVars
  <2>2. CASE CloseRead(i)
    BY <2>2, CloseCall DEF CloseRead, nodeVars
  <2> QED  BY <1>2, <2>1, <2>2 DEF Reader, Goroutine
<1>3. CASE Environment
  BY <1>3, ChangeKeepsCall DEF Environment
<1>4. CASE UNCHANGED allVars
  BY <1>4, SameAlike, QuietKeeps DEF allVars, discoveryVars, nodeVars, listVars
<1> QED  BY <1>1, <1>2, <1>3, <1>4 DEF ClientsNext

LEMMA InitCall == ClientsInit => CallInv
<1> SUFFICES ASSUME ClientsInit PROVE CallInv
  OBVIOUS
<1>1. listing = "idle" /\ chmodded = {} /\ limit \in Nat
  BY DiscoveryAssumption DEF ClientsInit, DiscoveryInit
<1> QED  BY <1>1 DEF CallInv, OrderInv, FreshInv, ListedInv, FailInv

LEMMA CallInvariance == ClientsSpec => []CallInv
<1>1. Inv /\ CallInv /\ [ClientsNext]_allVars => CallInv'
  BY NextCall
<1> QED  BY <1>1, InitCall, Invariance, PTL DEF ClientsSpec

\* However devices come and go and are set up during a call, and however many files the
\* process has left: what was there and readable all along is on the list, provided that
\* filepath.Glob got to read the directory, whose errors it keeps to itself
\* (discover.go:18); the list, short or not, is in the order of the paths, of keyboards
\* only if those were asked for; and a call that fails has been disturbed, or has run out
\* of files (ListDevices and ListKeyboards).
THEOREM ListIsComplete == ClientsSpec => []ListComplete
<1>1. Inv /\ CallInv => ListComplete
  <2> SUFFICES ASSUME Inv, CallInv PROVE ListComplete
    OBVIOUS
  <2> DEFINE listed == [k \in DOMAIN devices |-> files[devices[k]].path]
  <2>1. /\ ToSet(devices) \subseteq DOMAIN files /\ ToSet(listed) = PathsOf(ToSet(devices))
        /\ \A k \in DOMAIN devices : devices[k] \in DOMAIN files
    BY DEF Inv, TypeInv, ToSet, PathsOf, Path
  <2>2. ASSUME listing = "done"
        PROVE  /\ cut \/ {p \in SteadyPaths : Asked(node[p].dev)} \subseteq ToSet(listed)
               /\ \A i \in ToSet(devices) : Asked(files[i].dev)
    BY <2>1, <2>2 DEF CallInv, ListedInv, OwedPaths
  <2>3. ASSUME listing = "done", NEW j \in DOMAIN listed, NEW k \in DOMAIN listed, j < k
        PROVE  listed[j] < listed[k]
    <3>1. devices[j] < devices[k]
      BY <2>3 DEF CallInv, OrderInv, Ascends
    <3>2. Path(devices[j]) < Path(devices[k])
      BY <2>1, <2>3, <3>1 DEF CallInv, OrderInv
    <3> QED  BY <3>2 DEF Path
  <2>4. listing = "failed" => touched # {} \/ Cardinality(SteadyPaths \cup chmodded) >= limit
    BY DEF CallInv, FailInv
  <2> QED  BY <2>2, <2>3, <2>4 DEF ListComplete, SteadyPaths, Asked
<1> QED  BY <1>1, CallInvariance, Invariance, PTL
-----------------------------------------------------------------------------
(* The bounds.                                                             *)

SizeInv ==
  /\ changes \in 0..MaxChanges
  /\ limit \in Nat
  /\ IsFiniteSet(OpenFiles) /\ Cardinality(OpenFiles) <= limit

LEMMA Shrinks ==
  ASSUME SizeInv, OpenFiles' \subseteq OpenFiles, limit' = limit, changes' \in 0..MaxChanges
  PROVE  SizeInv'
<1>1. IsFiniteSet(OpenFiles') /\ Cardinality(OpenFiles') <= Cardinality(OpenFiles)
  BY FS_Subset DEF SizeInv
<1>2. Cardinality(OpenFiles) \in Nat /\ Cardinality(OpenFiles') \in Nat
  BY <1>1, FS_CardinalityType DEF SizeInv
<1>3. Cardinality(OpenFiles') <= limit
  BY <1>1, <1>2 DEF SizeInv
<1> QED  BY <1>1, <1>3 DEF SizeInv

LEMMA SameSize ==
  ASSUME SizeInv, UNCHANGED <<files, limit, changes>> PROVE SizeInv'
<1>1. OpenFiles' = OpenFiles
  BY DEF OpenFiles
<1> QED  BY <1>1, Shrinks DEF SizeInv

LEMMA CloseSize ==
  ASSUME Inv, SizeInv, NEW is, closeAll(is), UNCHANGED <<limit, changes>> PROVE SizeInv'
<1>1. OpenFiles' = OpenFiles \ is
  BY ClosedSome DEF Inv
<1> QED  BY <1>1, Shrinks DEF SizeInv

\* Open gives a file only where the process may have one more.
LEMMA OpenedSize ==
  ASSUME Inv, SizeInv, NEW p \in Paths, OpenError(p) = "none", files' = Append(files, Opened(p)),
         UNCHANGED <<limit, changes>>
  PROVE  SizeInv'
<1> DEFINE c == Cardinality(OpenFiles)
<1>0. PICK n \in Nat : n = Len(files) + 1
  BY DEF Inv, TypeInv
<1>1. c < limit
  <2>1. ~(c >= limit)
    BY DEF OpenError
  <2>2. c \in Nat /\ limit \in Nat
    BY FS_CardinalityType DEF SizeInv
  <2> HIDE DEF c
  <2> QED  BY <2>1, <2>2
<1>2. /\ DOMAIN files = 1..Len(files) /\ Len(files) \in Nat /\ DOMAIN files' = DOMAIN files \cup {n}
      /\ n \notin DOMAIN files /\ files'[n] = Opened(p) /\ \A i \in DOMAIN files : files'[i] = files[i]
  BY <1>0 DEF Inv, TypeInv
<1>3. OpenFiles' = OpenFiles \cup {n} /\ n \notin OpenFiles
  BY <1>2 DEF OpenFiles, Opened
<1>4. IsFiniteSet(OpenFiles') /\ Cardinality(OpenFiles') = c + 1
  BY <1>3, FS_AddElement DEF SizeInv
<1>5. c \in Nat
  BY FS_CardinalityType DEF SizeInv
<1>6. Cardinality(OpenFiles') <= limit
  <2> HIDE DEF c
  <2> QED  BY <1>1, <1>4, <1>5 DEF SizeInv
<1> QED  BY <1>4, <1>6 DEF SizeInv

LEMMA ListSize == Inv /\ SizeInv /\ List => SizeInv'
<1> SUFFICES ASSUME Inv, SizeInv, Listing PROVE SizeInv'
  BY DEF List
<1> USE DEF nodeVars
<1>1. CASE ListDevicePaths \/ ListPathsCut \/ SkipNext \/ ListedDevices \/ ListedKeyboards
  BY <1>1, SameSize DEF ListDevicePaths, ListPathsCut, SkipNext, ListedDevices, ListedKeyboards
<1>2. CASE OpenNext
  <2>1. Head(rest) \in Paths
    <3>1. rest \in Seq(Paths) /\ rest # <<>>
      BY <1>2 DEF OpenNext, Inv, LoopInv
    <3> QED  BY <3>1
  <2> QED  BY <1>2, <2>1, OpenedSize DEF OpenNext
<1>3. CASE Abort
  BY <1>3, CloseSize DEF Abort
<1>4. CASE QueryNext
  BY <1>4, CloseSize, SameSize DEF QueryNext
<1> QED  BY <1>1, <1>2, <1>3, <1>4 DEF Listing

LEMMA NextSize == Inv /\ SizeInv /\ [ClientsNext]_allVars => SizeInv'
<1> SUFFICES ASSUME Inv, SizeInv, [ClientsNext]_allVars PROVE SizeInv'
  OBVIOUS
<1> USE DEF nodeVars
<1>1. CASE Main
  <2>1. CASE Begin
    BY <2>1, SameSize DEF Begin, Call
  <2>2. CASE List
    BY <2>2, ListSize
  <2>3. CASE OpenArgument
    <3>1. Head(left) \in Paths
      <4>1. left \in Seq(Paths) /\ left # <<>>
        BY <2>3 DEF OpenArgument, Inv, LoopInv
      <4> QED  BY <4>1
    <3> QED  BY <2>3, <3>1, OpenedSize DEF OpenArgument
  <2>4. CASE ArgumentFails \/ ArgumentsOpened \/ Got \/ Wait
             \/ AskWho \/ AskKeyboard \/ AskTypes \/ AskProps \/ AskCodes
    <3>1. UNCHANGED discoveryVars
      BY <2>4 DEF ArgumentFails, ArgumentsOpened, Got, Wait, AskWho, AskName, AskPhys, AskUniq, AskID,
                  AskIdentity, AskKeyboard, AskTypes, AskProps, AskCodes, Asking
    <3> QED  BY <3>1, SameSize DEF discoveryVars, listVars
  <2>5. CASE CloseDeferred \/ Refuse
    BY <2>5, CloseSize DEF CloseDeferred, Refuse
  <2>6. CASE Start
    <3>1. OpenFiles' = OpenFiles
      <4>1. \A i \in DOMAIN files : files[i] \in FileType
        BY DEF Inv, TypeInv
      <4>2. DOMAIN files' = DOMAIN files /\ \A i \in DOMAIN files : files'[i].open <=> files[i].open
        BY <2>6, <4>1 DEF Start, FileType
      <4> QED  BY <4>2 DEF OpenFiles
    <3> QED  BY <2>6, <3>1, Shrinks DEF Start, SizeInv
  <2>7. CASE UngrabDeferred
    <3>1. OpenFiles' = OpenFiles
      <4>1. \A i \in DOMAIN files : files[i] \in FileType
        BY DEF Inv, TypeInv
      <4>2. DOMAIN files' = DOMAIN files /\ \A i \in DOMAIN files : files'[i].open <=> files[i].open
        BY <2>7, <4>1 DEF UngrabDeferred, FileType
      <4> QED  BY <4>2 DEF OpenFiles
    <3> QED  BY <2>7, <3>1, Shrinks DEF UngrabDeferred, SizeInv
  <2> QED  BY <1>1, <2>1, <2>2, <2>3, <2>4, <2>5, <2>6, <2>7 DEF Main, Lsinput, AskWho
<1>2. ASSUME NEW i \in 1..MaxFiles, Reader(i) PROVE SizeInv'
  <2>1. CASE ReadError(i) \/ Done(i)
    BY <2>1, SameSize DEF ReadError, Done, discoveryVars, listVars
  <2>2. CASE CloseRead(i)
    BY <2>2, CloseSize DEF CloseRead
  <2> QED  BY <1>2, <2>1, <2>2 DEF Reader, Goroutine
<1>3. CASE Environment
  <2>1. PICK p \in Paths : Plug(p) \/ Unplug(p) \/ Chmod(p)
    BY <1>3 DEF Environment
  <2>2. limit' = limit /\ changes' \in 0..MaxChanges
    BY <2>1, DiscoveryAssumption DEF Plug, Unplug, Chmod, Change, SizeInv
  <2>3. OpenFiles' = OpenFiles
    <3>1. \A i \in DOMAIN files : files[i] \in FileType
      BY DEF Inv, TypeInv
    <3>2. DOMAIN files' = DOMAIN files /\ \A i \in DOMAIN files : files'[i].open <=> files[i].open
      BY <2>1, <3>1 DEF Plug, Unplug, Chmod, FileType
    <3> QED  BY <3>2 DEF OpenFiles
  <2> QED  BY <2>2, <2>3, Shrinks
<1>4. CASE UNCHANGED allVars
  BY <1>4, SameSize DEF allVars, discoveryVars, listVars
<1> QED  BY <1>1, <1>2, <1>3, <1>4 DEF ClientsNext

LEMMA InitSize == ClientsInit => SizeInv
<1> SUFFICES ASSUME ClientsInit PROVE SizeInv
  OBVIOUS
<1>1. files = <<>> /\ limit \in Nat /\ changes = 0
  BY DiscoveryAssumption DEF ClientsInit, DiscoveryInit
<1>2. OpenFiles = {}
  BY <1>1, EmptyList DEF OpenFiles
<1>3. IsFiniteSet(OpenFiles) /\ Cardinality(OpenFiles) = 0
  BY <1>2, FS_EmptySet
<1> QED  BY <1>1, <1>3, DiscoveryAssumption DEF SizeInv

\* What the variables hold, and that at no time more files are open than the process
\* may have (Open in device.go, called by ListDevices and by examples/monitor).
THEOREM ListTypeCorrect == ClientsSpec => []ListTypeOK
<1>1. Inv /\ SizeInv => ListTypeOK
  <2> SUFFICES ASSUME Inv, SizeInv PROVE ListTypeOK
    OBVIOUS
  <2>1. wg \in 0..MaxFiles
    <3>1. Counted \subseteq 1..MaxFiles /\ IsFiniteSet(1..MaxFiles) /\ Cardinality(1..MaxFiles) = MaxFiles
      <4>1. 1 \in Int /\ MaxFiles \in Int /\ MaxFiles \in Nat
        BY ClientsAssumption
      <4>2. IsFiniteSet(1..MaxFiles) /\ Cardinality(1..MaxFiles) = IF 1 > MaxFiles THEN 0 ELSE MaxFiles - 1 + 1
        BY <4>1, FS_Interval
      <4> QED  BY <4>1, <4>2 DEF Counted
    <3>2. IsFiniteSet(Counted) /\ Cardinality(Counted) <= MaxFiles
      BY <3>1, FS_Subset
    <3>3. Cardinality(Counted) \in Nat
      BY <3>2, FS_CardinalityType
    <3>4. wg = Cardinality(Counted) /\ MaxFiles \in Nat
      BY CountedFinite, ClientsAssumption
    <3> HIDE DEF Counted
    <3> QED  BY <3>2, <3>3, <3>4
  <2> QED  BY <2>1 DEF ListTypeOK, Inv, TypeInv, LoopInv, SizeInv
<1>2. ClientsSpec => []SizeInv
  <2>1. Inv /\ SizeInv /\ [ClientsNext]_allVars => SizeInv'
    BY NextSize
  <2> QED  BY <2>1, InitSize, Invariance, PTL DEF ClientsSpec
<1> QED  BY <1>1, <1>2, Invariance, PTL
-----------------------------------------------------------------------------
(* What lsinput shows.  A part of a device is its truth or blank; it is    *)
(* the truth of a device that is there still, once the loop is past it;    *)
(* and the codes are of the types that were shown.                         *)

Parts == {"name", "phys", "uniq", "id", "keyboard", "types", "props"}

\* The parts that were asked for when the query is the next.
PartsBefore ==
  [name |-> {}, phys |-> {"name"}, uniq |-> {"name", "phys"}, id |-> {"name", "phys", "uniq"},
   keyboard |-> {"name", "phys", "uniq", "id"},
   types |-> {"name", "phys", "uniq", "id", "keyboard"},
   props |-> {"name", "phys", "uniq", "id", "keyboard", "types"}, codes |-> Parts]

Truth(dev) == [name |-> "name", phys |-> "phys", uniq |-> "uniq", id |-> "id",
               keyboard |-> Keyboard(dev), types |-> dev.types, props |-> dev.props]
Has(dev, t) == IF t \in DOMAIN dev.codes THEN dev.codes[t] ELSE {}

FormInv ==
  /\ DOMAIN shown = 1..MaxFiles
  /\ \A i \in 1..MaxFiles : DOMAIN shown[i] = Parts \cup {"codes"}
  /\ query \in DOMAIN PartsBefore
  /\ pc \in {"main", "listing"} => query = "name" /\ \A i \in 1..MaxFiles : shown[i] = Blank

\* The list has every file there is.
WholeInv ==
  /\ listing # "idle" => wanted = "devices"
  /\ listing = "done" => ToSet(devices) = DOMAIN files

PartsInv ==
  \A i \in DOMAIN files :
    /\ \A part \in Parts : shown[i][part] \in {Truth(files[i].dev)[part], Blank[part]}
    /\ \A t \in DOMAIN shown[i].codes \ {EV_SYN} :
         /\ shown[i].codes[t] \in {Has(files[i].dev, t), {}}
         /\ files[i].alive => shown[i].codes[t] = Has(files[i].dev, t)
    /\ DOMAIN shown[i].codes \subseteq shown[i].types

Past(i, part) == i \notin ToSet(left) \/ (i = It /\ part \in PartsBefore[query])

StageInv ==
  pc = "loop" =>
    \A i \in DOMAIN files :
      /\ i \notin ToSet(left) => DOMAIN shown[i].codes = shown[i].types
      /\ \A part \in Parts : files[i].alive /\ Past(i, part) => shown[i][part] = Truth(files[i].dev)[part]
      /\ i \in ToSet(left) /\ (i = It => "types" \notin PartsBefore[query]) => DOMAIN shown[i].codes = {}

ShowInv == program = "lsinput" => FormInv /\ WholeInv /\ PartsInv /\ StageInv

\* Steps on which lsinput shows nothing, while its files stay, die or are closed.
LEMMA CalmKeeps ==
  ASSUME ShowInv, DOMAIN files' = DOMAIN files,
         \A i \in DOMAIN files : files'[i].dev = files[i].dev /\ (files'[i].alive => files[i].alive),
         UNCHANGED <<program, left, query, shown, wanted, listing, devices>>,
         pc' \in {pc, "end"}
  PROVE  ShowInv'
<1> SUFFICES ASSUME program = "lsinput" PROVE (FormInv /\ WholeInv /\ PartsInv /\ StageInv)'
  BY DEF ShowInv
<1>1. FormInv /\ WholeInv /\ PartsInv /\ StageInv
  BY DEF ShowInv
<1>2. \A i \in DOMAIN files : Truth(files[i].dev)' = Truth(files[i].dev)
  BY DEF Truth, Keyboard
<1>3. \A i \in DOMAIN files : \A t : Has(files[i].dev, t)' = Has(files[i].dev, t)
  BY DEF Has
<1>4. FormInv' /\ WholeInv'
  BY <1>1 DEF FormInv, WholeInv
<1>5. PartsInv'
  BY <1>1, <1>2, <1>3 DEF PartsInv
<1>6. StageInv'
  BY <1>1, <1>2 DEF StageInv, Past, It
<1> QED  BY <1>4, <1>5, <1>6

LEMMA NoCodesYet == DOMAIN Blank.codes = {}
<1>1. Blank.codes = NoCodes
  BY DEF Blank
<1>2. DOMAIN NoCodes = {}
  BY DEF NoCodes
<1> QED  BY <1>1, <1>2

LEMMA NothingBefore == \A part : part \notin PartsBefore["name"]
<1>1. PartsBefore["name"] = {}
  BY DEF PartsBefore
<1> QED  BY <1>1

\* Before its loop it has shown nothing.
LEMMA BlankKeeps ==
  ASSUME Inv', UNCHANGED <<program, shown, query>>, program = "lsinput" => WholeInv',
         pc \in {"main", "listing"}, pc' # "loop", ShowInv
  PROVE  ShowInv'
<1> SUFFICES ASSUME program = "lsinput" PROVE (FormInv /\ WholeInv /\ PartsInv /\ StageInv)'
  BY DEF ShowInv
<1>1. FormInv /\ \A i \in 1..MaxFiles : shown[i] = Blank
  BY DEF ShowInv, FormInv
<1>2. FormInv' /\ StageInv'
  BY <1>1 DEF FormInv, StageInv
<1>3. PartsInv'
  <2>1. DOMAIN files' \subseteq 1..MaxFiles
    BY ClientsAssumption DEF Inv, TypeInv, LoopInv
  <2>2. \A i \in DOMAIN files' : shown'[i] = Blank
    BY <1>1, <2>1
  <2>3. \A i \in DOMAIN files' : DOMAIN shown'[i].codes = {}
    BY <2>2, NoCodesYet
  <2> QED  BY <2>2, <2>3 DEF PartsInv
<1> QED  BY <1>2, <1>3

LEMMA ListShow == Inv /\ CallInv /\ ShowInv /\ List /\ program' = program /\ Inv' => ShowInv'
<1> SUFFICES ASSUME Inv, CallInv, ShowInv, Listing, UNCHANGED <<program, progVars>>, Inv' PROVE ShowInv'
  BY DEF List
<1>1. pc = "listing" /\ UNCHANGED <<pc, shown, query>> /\ wanted' = wanted
  BY DEF Listing, ListDevicePaths, ListPathsCut, OpenNext, SkipNext, Abort, ListedDevices, QueryNext, ListedKeyboards,
         Inv, PhaseInv, progVars
<1>2. ASSUME program = "lsinput" PROVE WholeInv'
  <2>1. wanted = "devices" /\ listing # "query"
    <3>1. listing # "idle"
      BY <1>1 DEF Inv, PhaseInv
    <3>2. wanted = "devices"
      BY <1>2, <3>1 DEF ShowInv, WholeInv
    <3> QED  BY <3>2 DEF CallInv, ListedInv
  <2>2. CASE listing' = "done"
    <3>1. ListedDevices
      BY <2>1, <2>2 DEF Listing, ListDevicePaths, ListPathsCut, OpenNext, SkipNext, Abort,
                          QueryNext, ListedKeyboards
    <3>2. UNCHANGED <<files, devices>> /\ listing = "open"
      BY <2>1, <3>1 DEF ListedDevices
    <3> QED  BY <1>1, <2>1, <3>2 DEF CallInv, OrderInv, WholeInv
  <2>3. CASE listing' # "done"
    BY <1>1, <2>1, <2>3 DEF WholeInv
  <2> QED  BY <2>2, <2>3
<1> QED  BY <1>1, <1>2, BlankKeeps

\* The loop begins with all the files, and nothing shown.
LEMMA GotShow == Inv /\ ShowInv /\ Got /\ program' = program /\ Inv' => ShowInv'
<1> SUFFICES ASSUME Inv, ShowInv, Got, program' = program, Inv', program = "lsinput"
             PROVE  (FormInv /\ WholeInv /\ PartsInv /\ StageInv)'
  BY DEF ShowInv
<1>1. /\ pc = "listing" /\ pc' \in {"exited", "loop"} /\ left' = devices
      /\ UNCHANGED <<wanted, listing, files, devices, query, shown>>
  BY DEF Got, discoveryVars, listVars
<1>2. FormInv /\ WholeInv /\ PartsInv /\ query = "name" /\ \A i \in 1..MaxFiles : shown[i] = Blank
  BY <1>1 DEF ShowInv, FormInv
<1>3. FormInv' /\ WholeInv' /\ PartsInv'
  BY <1>1, <1>2 DEF FormInv, WholeInv, PartsInv, Truth, Keyboard, Has
<1>4. StageInv'
  <2> SUFFICES ASSUME pc' = "loop", NEW i \in DOMAIN files'
               PROVE  /\ i \in ToSet(left') /\ DOMAIN shown'[i].codes = {}
                      /\ \A part : part \notin PartsBefore[query']
    BY DEF StageInv, Past
  <2>1. listing = "done"
    BY <1>1 DEF Got
  <2>2. ToSet(devices) = DOMAIN files
    BY <1>2, <2>1 DEF WholeInv
  <2>3. i \in 1..MaxFiles
    BY <1>1, ClientsAssumption DEF Inv, TypeInv, LoopInv
  <2>4. shown'[i] = Blank
    BY <1>1, <1>2, <2>3
  <2>5. i \in ToSet(left')
    BY <1>1, <2>2
  <2> QED  BY <1>1, <1>2, <2>4, <2>5, NoCodesYet, NothingBefore
<1> QED  BY <1>3, <1>4

\* Showing a part of a file leaves the other parts, and the other files.
LEMMA ShowOne ==
  ASSUME FormInv, NEW i \in 1..MaxFiles, NEW q \in Parts \cup {"codes"}, NEW answer,
         shown' = [shown EXCEPT ![i][q] = answer]
  PROVE  /\ DOMAIN shown' = 1..MaxFiles
         /\ \A j \in 1..MaxFiles : DOMAIN shown'[j] = Parts \cup {"codes"}
         /\ \A j \in 1..MaxFiles : j # i => shown'[j] = shown[j]
         /\ shown'[i][q] = answer
         /\ \A r \in Parts \cup {"codes"} : r # q => shown'[i][r] = shown[i][r]
<1>1. DOMAIN shown = 1..MaxFiles /\ \A j \in 1..MaxFiles : DOMAIN shown[j] = Parts \cup {"codes"}
  BY DEF FormInv
<1> HIDE DEF Parts
<1>2. DOMAIN shown' = 1..MaxFiles
  BY <1>1
<1>3. \A j \in 1..MaxFiles : j # i => shown'[j] = shown[j]
  BY <1>1
<1>4. shown'[i] = [shown[i] EXCEPT ![q] = answer]
  BY <1>1
<1>5. DOMAIN shown'[i] = Parts \cup {"codes"} /\ shown'[i][q] = answer
  BY <1>1, <1>4
<1>6. \A r \in Parts \cup {"codes"} : r # q => shown'[i][r] = shown[i][r]
  BY <1>1, <1>4
<1> QED  BY <1>1, <1>2, <1>3, <1>5, <1>6

LEMMA AskingFacts ==
  ASSUME Inv, ShowInv, NEW q, Asking(q), UNCHANGED program
  PROVE  /\ pc = "loop" /\ pc' = "loop" /\ program = "lsinput" /\ left # <<>> /\ query = q
         /\ UNCHANGED <<files, wanted, listing, devices>>
         /\ left \in Seq(Nat) /\ ToSet(left) = {It} \cup ToSet(Tail(left)) /\ It \notin ToSet(Tail(left))
         /\ It \in ToSet(left) /\ It \in DOMAIN files /\ It \in 1..MaxFiles
         /\ DOMAIN files \subseteq 1..MaxFiles
         /\ FormInv /\ WholeInv /\ PartsInv /\ StageInv
<1>1. /\ pc = "loop" /\ pc' = "loop" /\ program = "lsinput" /\ left # <<>> /\ query = q
      /\ UNCHANGED <<files, wanted, listing, devices>>
  BY DEF Asking, discoveryVars, listVars
<1>2. left \in Seq(Nat) /\ IsInjective(left) /\ ToSet(left) \subseteq DOMAIN files
  BY <1>1 DEF Inv, LoopInv, TypeInv
<1>3. ToSet(left) = {It} \cup ToSet(Tail(left)) /\ It \notin ToSet(Tail(left))
  BY <1>1, <1>2, TailSet DEF It
<1>4. DOMAIN files \subseteq 1..MaxFiles
  BY ClientsAssumption DEF Inv, TypeInv, LoopInv
<1>5. FormInv /\ WholeInv /\ PartsInv /\ StageInv
  BY <1>1 DEF ShowInv
<1> QED  BY <1>1, <1>2, <1>3, <1>4, <1>5

LEMMA ShownPart ==
  ASSUME Inv, ShowInv, NEW q \in Parts, NEW next \in DOMAIN PartsBefore, NEW answer,
         Asking(q), Show(q, answer), query' = next, UNCHANGED <<program, left>>,
         PartsBefore[next] = PartsBefore[q] \cup {q},
         q = "types" <=> "types" \in PartsBefore[next] /\ "types" \notin PartsBefore[q],
         answer = Truth(files[It].dev)[q] \/ (~files[It].alive /\ answer = Blank[q])
  PROVE  ShowInv'
<1>1. /\ pc = "loop" /\ pc' = "loop" /\ program = "lsinput" /\ query = q
      /\ UNCHANGED <<files, wanted, listing, devices>>
      /\ It \in ToSet(left) /\ It \in DOMAIN files /\ It \in 1..MaxFiles /\ It' = It
      /\ DOMAIN files \subseteq 1..MaxFiles
      /\ FormInv /\ WholeInv /\ PartsInv /\ StageInv
  BY AskingFacts DEF It
<1>2. /\ DOMAIN shown' = 1..MaxFiles
      /\ \A j \in 1..MaxFiles : DOMAIN shown'[j] = Parts \cup {"codes"}
      /\ \A j \in 1..MaxFiles : j # It => shown'[j] = shown[j]
      /\ shown'[It][q] = answer
      /\ \A r \in Parts \cup {"codes"} : r # q => shown'[It][r] = shown[It][r]
  <2>1. shown' = [shown EXCEPT ![It][q] = answer]
    BY DEF Show
  <2> QED  BY <1>1, <2>1, ShowOne
<1>3. shown'[It].codes = shown[It].codes
  BY <1>2 DEF Parts
<1>4. \A i \in DOMAIN files : Truth(files[i].dev)' = Truth(files[i].dev)
  BY <1>1 DEF Truth, Keyboard
<1>5. \A i \in DOMAIN files : \A t : Has(files[i].dev, t)' = Has(files[i].dev, t)
  BY <1>1 DEF Has
<1>6. FormInv' /\ WholeInv'
  BY <1>1, <1>2 DEF FormInv, WholeInv
<1>7. q = "types" => DOMAIN shown[It].codes = {}
  BY <1>1 DEF StageInv
<1>8. q # "types" => shown'[It].types = shown[It].types
  BY <1>2 DEF Parts
<1>9. PartsInv'
  <2>1. ASSUME NEW i \in DOMAIN files, NEW part \in Parts
        PROVE  shown'[i][part] \in {Truth(files[i].dev)[part], Blank[part]}
    <3>1. shown[i][part] \in {Truth(files[i].dev)[part], Blank[part]}
      BY <1>1 DEF PartsInv
    <3>2. CASE i # It
      BY <1>1, <1>2, <3>1, <3>2
    <3>3. CASE i = It /\ part # q
      BY <1>2, <3>1, <3>3
    <3>4. CASE i = It /\ part = q
      BY <1>2, <3>4
    <3> QED  BY <3>2, <3>3, <3>4
  <2>2. ASSUME NEW i \in DOMAIN files
        PROVE  shown'[i].codes = shown[i].codes /\ DOMAIN shown'[i].codes \subseteq shown'[i].types
    <3>1. CASE i # It
      BY <1>1, <1>2, <3>1 DEF PartsInv
    <3>2. CASE i = It
      BY <1>1, <1>3, <1>7, <1>8, <3>2 DEF PartsInv
    <3> QED  BY <3>1, <3>2
  <2>3. ASSUME NEW i \in DOMAIN files, NEW t \in DOMAIN shown[i].codes \ {EV_SYN}
        PROVE  /\ shown[i].codes[t] \in {Has(files[i].dev, t), {}}
               /\ files[i].alive => shown[i].codes[t] = Has(files[i].dev, t)
    BY <1>1, <2>3 DEF PartsInv
  <2> QED  BY <1>1, <1>4, <1>5, <2>1, <2>2, <2>3 DEF PartsInv
<1>10. StageInv'
  <2> SUFFICES ASSUME NEW i \in DOMAIN files
               PROVE  /\ i \notin ToSet(left) => DOMAIN shown'[i].codes = shown'[i].types
                      /\ \A part \in Parts : files[i].alive /\ Past(i, part)'
                                               => shown'[i][part] = Truth(files[i].dev)[part]
                      /\ i \in ToSet(left) /\ (i = It => "types" \notin PartsBefore[next])
                           => DOMAIN shown'[i].codes = {}
    BY <1>1, <1>4 DEF StageInv
  <2>1. CASE i # It
    BY <1>1, <1>2, <2>1 DEF StageInv, Past
  <2>2. CASE i = It
    <3>1. ASSUME NEW part \in Parts, files[i].alive, Past(i, part)'
          PROVE  shown'[i][part] = Truth(files[i].dev)[part]
      <4>1. part = q \/ part \in PartsBefore[q]
        BY <1>1, <2>2, <3>1 DEF Past
      <4>2. CASE part = q
        BY <1>2, <2>2, <3>1, <4>2
      <4>3. CASE part # q /\ part \in PartsBefore[q]
        <5>1. shown[i][part] = Truth(files[i].dev)[part]
          BY <1>1, <2>2, <3>1, <4>3 DEF StageInv, Past
        <5> QED  BY <1>2, <2>2, <4>3, <5>1
      <4> QED  BY <4>1, <4>2, <4>3
    <3>2. "types" \notin PartsBefore[next] => DOMAIN shown'[i].codes = {}
      BY <1>1, <1>3, <2>2 DEF StageInv
    <3> QED  BY <1>1, <2>2, <3>1, <3>2
  <2> QED  BY <2>1, <2>2
<1> QED  BY <1>6, <1>9, <1>10 DEF ShowInv

\* The requests about who a device is are told apart.
LEMMA IdentityRight == Identity = [name |-> "name", phys |-> "phys", uniq |-> "uniq", id |-> "id"]
<1>1. \A size \in {8, 256}, nr \in {2, 6, 7, 8} :
        LET req == ioc(iocRead, evdevType, nr, size)
        IN Reads(req) /\ Number(req) = nr /\ SizeOf(req) = size
  <2> SUFFICES ASSUME NEW size \in {8, 256}, NEW nr \in {2, 6, 7, 8}
               PROVE  LET req == ioc(iocRead, evdevType, nr, size)
                      IN Reads(req) /\ Number(req) = nr /\ SizeOf(req) = size
    OBVIOUS
  <2>1. Fits(nr, 8) /\ Fits(size, 14)
    BY DEF Fits
  <2> QED  BY <2>1, Understood
<1>2. Subject(eviocgname(256)) = "name"
  BY <1>1 DEF Subject, eviocgname
<1>3. Subject(eviocgphys(256)) = "phys"
  BY <1>1 DEF Subject, eviocgphys
<1>4. Subject(eviocguniq(256)) = "uniq"
  BY <1>1 DEF Subject, eviocguniq
<1>5. Subject(eviocgid) = "id"
  BY <1>1 DEF Subject, eviocgid, ior
<1> QED  BY <1>2, <1>3, <1>4, <1>5 DEF Identity

\* What is answered of a device is what it has.
LEMMA AnswersRight ==
  ASSUME NEW dev \in Kinds
  PROVE  /\ Answer[dev].keyboard = Truth(dev)["keyboard"]
         /\ Answer[dev].types = Truth(dev)["types"] /\ Answer[dev].types \subseteq 0..EV_MAX
         /\ Answer[dev].props = Truth(dev)["props"]
         /\ \A t \in 0..EV_MAX : t # EV_SYN => Answer[dev].codes[t] = Has(dev, t)
<1>1. IsDevice(dev)
  BY DiscoveryAssumption
<1>2. Answer[dev].types = dev.types /\ Answer[dev].props = dev.props /\ dev.types \subseteq 0..EV_MAX
  BY <1>1, TypesRight, PropsRight DEF Answer, IsDevice
<1>3. Answer[dev].keyboard = Keyboard(dev)
  <2>1. Answer[dev].keyboard = IsKeyboard(dev)
    BY DEF Answer
  <2>2. IsKeyboard(dev) = Keyboard(dev)
    <3>1. IsKeyboard(dev) <=> Keyboard(dev)
      BY <1>1, KeyboardRight DEF Keyboard
    <3>2. IsKeyboard(dev) \in BOOLEAN /\ Keyboard(dev) \in BOOLEAN
      BY DEF IsKeyboard, Keyboard
    <3> QED  BY <3>1, <3>2
  <2> QED  BY <2>1, <2>2
<1>4. ASSUME NEW t \in 0..EV_MAX, t # EV_SYN PROVE Answer[dev].codes[t] = Has(dev, t)
  <2>1. Answer[dev].codes[t] = CapableCodes(dev, t)
    BY DEF Answer
  <2>2. CapableCodes(dev, t) = IF t \in DOMAIN MaxCode THEN dev.codes[t] ELSE {}
    BY <1>1, <1>4, CodesRight
  <2>3. DOMAIN dev.codes = DOMAIN MaxCode
    BY <1>1 DEF IsDevice
  <2> QED  BY <2>1, <2>2, <2>3 DEF Has
<1> QED  BY <1>2, <1>3, <1>4 DEF Truth

LEMMA AskShow ==
  Inv /\ ShowInv /\ (AskWho \/ AskKeyboard \/ AskTypes \/ AskProps) /\ program' = program => ShowInv'
<1> SUFFICES ASSUME Inv, ShowInv, AskWho \/ AskKeyboard \/ AskTypes \/ AskProps, program' = program
             PROVE  ShowInv'
  OBVIOUS
<1> DEFINE dev == files[It].dev
<1>1. dev \in Kinds
  <2>1. \E q : Asking(q)
    BY DEF AskWho, AskName, AskPhys, AskUniq, AskID, AskIdentity, AskKeyboard, AskTypes,
           AskProps
  <2>2. It \in DOMAIN files
    BY <2>1, AskingFacts
  <2>3. files[It] \in FileType
    BY <2>2 DEF Inv, TypeInv
  <2> QED  BY <2>3 DEF FileType
<1>2. \A part \in {"name", "phys", "uniq", "id"} :
        \/ Ask(Identity[part], "") = Truth(dev)[part]
        \/ ~files[It].alive /\ Ask(Identity[part], "") = Blank[part]
  <2>1. \A part \in {"name", "phys", "uniq", "id"} : Identity[part] = part
    BY IdentityRight
  <2>2. \A part \in {"name", "phys", "uniq", "id"} : Truth(dev)[part] = part
    BY DEF Truth
  <2>3. Blank["name"] = "" /\ Blank["phys"] = "" /\ Blank["uniq"] = "" /\ Blank["id"] = ""
    BY DEF Blank
  <2> QED  BY <2>1, <2>2, <2>3 DEF Ask
<1>3. CASE AskWho
  <2>1. CASE AskName
    BY <1>2, <2>1, ShownPart DEF AskName, AskIdentity, Parts, PartsBefore
  <2>2. CASE AskPhys
    BY <1>2, <2>2, ShownPart DEF AskPhys, AskIdentity, Parts, PartsBefore
  <2>3. CASE AskUniq
    BY <1>2, <2>3, ShownPart DEF AskUniq, AskIdentity, Parts, PartsBefore
  <2>4. CASE AskID
    BY <1>2, <2>4, ShownPart DEF AskID, AskIdentity, Parts, PartsBefore
  <2> QED  BY <1>3, <2>1, <2>2, <2>3, <2>4 DEF AskWho
<1>4. CASE AskKeyboard
  <2>1. \/ Ask(Answer[dev].keyboard, FALSE) = Truth(dev)["keyboard"]
        \/ ~files[It].alive /\ Ask(Answer[dev].keyboard, FALSE) = Blank["keyboard"]
    BY <1>1, AnswersRight DEF Ask, Blank
  <2> QED  BY <1>4, <2>1, ShownPart DEF AskKeyboard, Parts, PartsBefore
<1>5. CASE AskTypes
  <2>1. \/ Ask(Answer[dev].types, {}) = Truth(dev)["types"]
        \/ ~files[It].alive /\ Ask(Answer[dev].types, {}) = Blank["types"]
    BY <1>1, AnswersRight DEF Ask, Blank
  <2> QED  BY <1>5, <2>1, ShownPart DEF AskTypes, Parts, PartsBefore
<1>6. CASE AskProps
  <2>1. \/ Ask(Answer[dev].props, {}) = Truth(dev)["props"]
        \/ ~files[It].alive /\ Ask(Answer[dev].props, {}) = Blank["props"]
    BY <1>1, AnswersRight DEF Ask, Blank
  <2> QED  BY <1>6, <2>1, ShownPart DEF AskProps, Parts, PartsBefore
<1> QED  BY <1>3, <1>4, <1>5, <1>6

\* The least of some types is one of them.
LEMMA LeastIsOne ==
  ASSUME NEW ts \in SUBSET Nat, ts # {} PROVE Min(ts) \in ts
<1>1. PICK x \in ts : \A y \in ts : ~(<<y, x>> \in Below)
  BY BelowWellFounded, WFMin
<1>2. ASSUME NEW y \in ts PROVE x <= y
  <2>1. x \in Nat /\ y \in Nat /\ (y < x => <<y, x>> \in Below)
    BY DEF Below
  <2> QED  BY <1>1, <2>1
<1> QED  BY <1>2 DEF Min

\* The loop goes on to the next device, and leaves the one it was at complete.
LEMMA PassShow ==
  ASSUME Inv, ShowInv, Asking("codes"), shown[It].types \ DOMAIN shown[It].codes = {},
         query' = "name", left' = Tail(left), UNCHANGED <<shown, program>>
  PROVE  ShowInv'
<1>1. /\ pc = "loop" /\ pc' = "loop" /\ program = "lsinput" /\ query = "codes" /\ left # <<>>
      /\ UNCHANGED <<files, wanted, listing, devices>>
      /\ ToSet(left) = {It} \cup ToSet(Tail(left)) /\ It \notin ToSet(Tail(left))
      /\ It \in DOMAIN files /\ DOMAIN files \subseteq 1..MaxFiles
      /\ FormInv /\ WholeInv /\ PartsInv /\ StageInv
  BY AskingFacts
<1>2. \A i \in DOMAIN files : Truth(files[i].dev)' = Truth(files[i].dev)
  BY <1>1 DEF Truth, Keyboard
<1>3. \A i \in DOMAIN files : \A t : Has(files[i].dev, t)' = Has(files[i].dev, t)
  BY <1>1 DEF Has
<1>4. FormInv' /\ WholeInv'
  BY <1>1 DEF FormInv, WholeInv, PartsBefore
<1>5. PartsInv'
  BY <1>1, <1>2, <1>3 DEF PartsInv
<1>6. StageInv'
  <2> SUFFICES ASSUME NEW i \in DOMAIN files
               PROVE  /\ i \notin ToSet(Tail(left)) => DOMAIN shown[i].codes = shown[i].types
                      /\ \A part \in Parts : files[i].alive /\ Past(i, part)'
                                               => shown[i][part] = Truth(files[i].dev)[part]
                      /\ i \in ToSet(Tail(left)) => DOMAIN shown[i].codes = {}
    BY <1>1, <1>2 DEF StageInv
  <2>1. i \in ToSet(Tail(left)) => i \in ToSet(left) /\ i # It
    BY <1>1
  <2>2. \A part : Past(i, part)' => i \notin ToSet(Tail(left))
    BY DEF Past, PartsBefore
  <2>3. CASE i = It
    <3>1. DOMAIN shown[i].codes = shown[i].types
      BY <1>1, <2>3 DEF PartsInv
    <3>2. \A part \in Parts : Past(i, part)
      BY <1>1, <2>3 DEF Past, PartsBefore
    <3> QED  BY <1>1, <2>1, <2>3, <3>1, <3>2 DEF StageInv
  <2>4. CASE i # It
    <3>1. i \notin ToSet(Tail(left)) => i \notin ToSet(left)
      BY <1>1, <2>4
    <3> QED  BY <1>1, <2>1, <2>2, <2>4, <3>1 DEF StageInv, Past
  <2> QED  BY <2>3, <2>4
<1> QED  BY <1>4, <1>5, <1>6 DEF ShowInv

\* One more type of a device has its codes.
LEMMA CodesShow ==
  ASSUME Inv, ShowInv, Asking("codes"), UNCHANGED <<query, left, program>>,
         NEW t \in shown[It].types \ DOMAIN shown[It].codes, NEW codes,
         codes = [u \in DOMAIN shown[It].codes \cup {t} |->
                    IF u = t THEN Ask(Answer[files[It].dev].codes[t], {}) ELSE shown[It].codes[u]],
         Show("codes", codes)
  PROVE  ShowInv'
<1>1. /\ pc = "loop" /\ pc' = "loop" /\ program = "lsinput" /\ query = "codes"
      /\ UNCHANGED <<files, wanted, listing, devices>>
      /\ It \in ToSet(left) /\ It \in DOMAIN files /\ It \in 1..MaxFiles /\ It' = It
      /\ DOMAIN files \subseteq 1..MaxFiles
      /\ FormInv /\ WholeInv /\ PartsInv /\ StageInv
  BY AskingFacts DEF It
<1>2. /\ DOMAIN shown' = 1..MaxFiles
      /\ \A j \in 1..MaxFiles : DOMAIN shown'[j] = Parts \cup {"codes"}
      /\ \A j \in 1..MaxFiles : j # It => shown'[j] = shown[j]
      /\ shown'[It]["codes"] = codes
      /\ \A r \in Parts : shown'[It][r] = shown[It][r]
  <2>1. shown' = [shown EXCEPT ![It]["codes"] = codes]
    BY DEF Show
  <2>2. \A r \in Parts : r # "codes"
    BY DEF Parts
  <2> QED  BY <1>1, <2>1, <2>2, ShowOne
<1>3. shown'[It].codes = codes /\ shown'[It].types = shown[It].types
  BY <1>2 DEF Parts
<1>4. \A i \in DOMAIN files : Truth(files[i].dev)' = Truth(files[i].dev)
  BY <1>1 DEF Truth, Keyboard
<1>5. \A i \in DOMAIN files : \A u : Has(files[i].dev, u)' = Has(files[i].dev, u)
  BY <1>1 DEF Has
<1>6. FormInv' /\ WholeInv'
  BY <1>1, <1>2 DEF FormInv, WholeInv
<1>7. files[It].dev \in Kinds
  <2>1. files[It] \in FileType
    BY <1>1 DEF Inv, TypeInv
  <2> QED  BY <2>1 DEF FileType
<1>8. t \in 0..EV_MAX
  <2>1. shown[It]["types"] \in {Truth(files[It].dev)["types"], Blank["types"]}
    BY <1>1 DEF PartsInv, Parts
  <2>2. Truth(files[It].dev)["types"] \subseteq 0..EV_MAX
    BY <1>7, AnswersRight
  <2> QED  BY <2>1, <2>2 DEF Blank
<1>9. t # EV_SYN => /\ codes[t] \in {Has(files[It].dev, t), {}}
                    /\ files[It].alive => codes[t] = Has(files[It].dev, t)
  BY <1>7, <1>8, AnswersRight DEF Ask
<1>10. PartsInv'
  <2>1. ASSUME NEW i \in DOMAIN files, NEW part \in Parts
        PROVE  shown'[i][part] \in {Truth(files[i].dev)[part], Blank[part]}
    <3>1. shown[i][part] \in {Truth(files[i].dev)[part], Blank[part]}
      BY <1>1 DEF PartsInv
    <3> QED  BY <1>1, <1>2, <3>1
  <2>2. ASSUME NEW i \in DOMAIN files
        PROVE  DOMAIN shown'[i].codes \subseteq shown'[i].types
    <3>1. CASE i # It
      BY <1>1, <1>2, <3>1 DEF PartsInv
    <3>2. CASE i = It
      BY <1>1, <1>3, <3>2 DEF PartsInv
    <3> QED  BY <3>1, <3>2
  <2>3. ASSUME NEW i \in DOMAIN files, NEW u \in DOMAIN shown'[i].codes \ {EV_SYN}
        PROVE  /\ shown'[i].codes[u] \in {Has(files[i].dev, u), {}}
               /\ files[i].alive => shown'[i].codes[u] = Has(files[i].dev, u)
    <3>1. CASE i # It
      BY <1>1, <1>2, <2>3, <3>1 DEF PartsInv
    <3>2. CASE i = It /\ u = t
      BY <1>3, <1>9, <2>3, <3>2
    <3>3. CASE i = It /\ u # t
      <4>1. u \in DOMAIN shown[i].codes \ {EV_SYN} /\ codes[u] = shown[i].codes[u]
        BY <1>3, <2>3, <3>3
      <4> QED  BY <1>1, <1>3, <3>3, <4>1 DEF PartsInv
    <3> QED  BY <3>1, <3>2, <3>3
  <2> QED  BY <1>1, <1>4, <1>5, <2>1, <2>2, <2>3 DEF PartsInv
<1>11. StageInv'
  <2> SUFFICES ASSUME NEW i \in DOMAIN files
               PROVE  /\ i \notin ToSet(left) => DOMAIN shown'[i].codes = shown'[i].types
                      /\ \A part \in Parts : files[i].alive /\ Past(i, part)
                                               => shown'[i][part] = Truth(files[i].dev)[part]
                      /\ i \in ToSet(left) /\ (i = It => "types" \notin PartsBefore[query])
                           => DOMAIN shown'[i].codes = {}
    BY <1>1, <1>4 DEF StageInv, Past
  <2>1. CASE i # It
    BY <1>1, <1>2, <2>1 DEF StageInv
  <2>2. CASE i = It
    <3>1. "types" \in PartsBefore[query]
      BY <1>1 DEF PartsBefore, Parts
    <3> QED  BY <1>1, <1>2, <2>2, <3>1 DEF StageInv
  <2> QED  BY <2>1, <2>2
<1> QED  BY <1>6, <1>10, <1>11 DEF ShowInv

LEMMA AskCodesShow == Inv /\ ShowInv /\ AskCodes /\ program' = program => ShowInv'
<1> SUFFICES ASSUME Inv, ShowInv, AskCodes, program' = program PROVE ShowInv'
  OBVIOUS
<1> DEFINE s == shown[It]
           more == s.types \ DOMAIN s.codes
<1>1. Asking("codes")
  BY DEF AskCodes
<1>2. CASE more = {}
  BY <1>1, <1>2, PassShow DEF AskCodes
<1>3. CASE more # {}
  <2>1. more \subseteq Nat
    <3>1. PartsInv /\ It \in DOMAIN files
      BY <1>1, AskingFacts
    <3>2. files[It].dev \in Kinds
      <4>1. files[It] \in FileType
        BY <3>1 DEF Inv, TypeInv
      <4> QED  BY <4>1 DEF FileType
    <3>3. shown[It]["types"] \in {Truth(files[It].dev)["types"], Blank["types"]}
      BY <3>1 DEF PartsInv, Parts
    <3>4. Truth(files[It].dev)["types"] \subseteq 0..EV_MAX
      BY <3>2, AnswersRight
    <3>5. s.types \subseteq 0..EV_MAX
      BY <3>3, <3>4 DEF Blank
    <3> QED  BY <3>5
  <2>2. Min(more) \in more
    BY <1>3, <2>1, LeastIsOne
  <2> DEFINE codes == [u \in DOMAIN s.codes \cup {Min(more)} |->
                         IF u = Min(more) THEN Ask(Answer[files[It].dev].codes[Min(more)], {})
                         ELSE s.codes[u]]
  <2>3. Show("codes", codes) /\ UNCHANGED <<query, left>>
    BY <1>3 DEF AskCodes
  <2> QED  BY <1>1, <2>2, <2>3, CodesShow
<1> QED  BY <1>2, <1>3

LEMMA EnvironmentShow == Inv /\ ShowInv /\ Environment /\ UNCHANGED <<program, progVars>> => ShowInv'
<1> SUFFICES ASSUME Inv, ShowInv, NEW p \in Paths, Plug(p) \/ Unplug(p) \/ Chmod(p),
                    UNCHANGED <<program, progVars>>
             PROVE  ShowInv'
  BY DEF Environment
<1>1. UNCHANGED <<wanted, listing, devices, pc, left, query, shown>>
  BY DEF Plug, Unplug, Chmod, Change, progVars
<1>2. \A i \in DOMAIN files : files[i] \in FileType
  BY DEF Inv, TypeInv
<1>3. DOMAIN files' = DOMAIN files
  BY DEF Plug, Unplug, Chmod
<1>4. \A i \in DOMAIN files : files'[i].dev = files[i].dev /\ (files'[i].alive => files[i].alive)
  BY <1>2 DEF Plug, Unplug, Chmod, FileType
<1> QED  BY <1>1, <1>3, <1>4, CalmKeeps

\* What monitor does is not lsinput's.
LEMMA MonitorShow ==
  Inv /\ ShowInv /\ UNCHANGED program
    /\ (OpenArgument \/ ArgumentFails \/ ArgumentsOpened \/ Refuse \/ Start \/ Wait \/ UngrabDeferred
          \/ \E i \in 1..MaxFiles : Goroutine(i))
    => ShowInv'
<1> SUFFICES ASSUME Inv, UNCHANGED program,
                    OpenArgument \/ ArgumentFails \/ ArgumentsOpened \/ Refuse \/ Start \/ Wait
                      \/ UngrabDeferred \/ \E i \in 1..MaxFiles : Goroutine(i)
             PROVE  ShowInv'
  OBVIOUS
<1>1. Monitors
  <2>1. CASE OpenArgument \/ ArgumentFails \/ ArgumentsOpened
    <3>1. args # <<>>
      BY <2>1 DEF OpenArgument, ArgumentFails, ArgumentsOpened, Inv, PhaseInv
    <3> QED  BY <3>1 DEF Inv, TypeInv
  <2>2. CASE Refuse \/ Start \/ Wait \/ UngrabDeferred
    BY <2>2 DEF Refuse, Start, Wait, UngrabDeferred, InLoop, Inv, PhaseInv
  <2>3. ASSUME NEW i \in 1..MaxFiles, Goroutine(i) PROVE Monitors
    <3>1. reader[i] # "none"
      BY <2>3 DEF Goroutine, ReadError, CloseRead, Done
    <3> QED  BY <3>1 DEF Inv, ReaderInv
  <2> QED  BY <2>1, <2>2, <2>3
<1> QED  BY <1>1 DEF ShowInv, Monitors

LEMMA NextShow == Inv /\ CallInv /\ ShowInv /\ [ClientsNext]_allVars => ShowInv'
<1> SUFFICES ASSUME Inv, CallInv, ShowInv, [ClientsNext]_allVars PROVE ShowInv'
  OBVIOUS
<1>0. Inv'
  BY NextKeeps
<1>1. CASE Main
  <2>0. program' = program
    BY <1>1 DEF Main
  <2>1. CASE Begin
    <3>1. program = "lsinput" => WholeInv'
      BY <2>1 DEF Begin, Call, WholeInv
    <3>2. pc = "main" /\ pc' = "listing" /\ UNCHANGED <<shown, query>>
      BY <2>1 DEF Begin
    <3> QED  BY <1>0, <2>0, <3>1, <3>2, BlankKeeps
  <2>2. CASE List
    BY <1>0, <2>0, <2>2, ListShow
  <2>3. CASE Got
    BY <1>0, <2>0, <2>3, GotShow
  <2>4. CASE AskWho \/ AskKeyboard \/ AskTypes \/ AskProps
    BY <2>0, <2>4, AskShow
  <2>5. CASE AskCodes
    BY <2>0, <2>5, AskCodesShow
  <2>6. CASE CloseDeferred
    <3>1. Alike
      BY <2>6, ClosedAlike DEF CloseDeferred, Inv
    <3> QED  BY <2>0, <2>6, <3>1, CalmKeeps DEF CloseDeferred, Alike
  <2>7. CASE OpenArgument \/ ArgumentFails \/ ArgumentsOpened \/ Refuse \/ Start \/ Wait \/ UngrabDeferred
    BY <2>0, <2>7, MonitorShow
  <2> QED  BY <1>1, <2>1, <2>2, <2>3, <2>4, <2>5, <2>6, <2>7 DEF Main, Lsinput, AskWho
<1>2. ASSUME NEW i \in 1..MaxFiles, Reader(i) PROVE ShowInv'
  BY <1>2, MonitorShow DEF Reader
<1>3. CASE Environment /\ UNCHANGED <<program, args, progVars, taken>>
  BY <1>3, EnvironmentShow
<1>4. CASE UNCHANGED allVars
  BY <1>4, CalmKeeps DEF allVars, discoveryVars, listVars, progVars
<1> QED  BY <1>1, <1>2, <1>3, <1>4 DEF ClientsNext

LEMMA InitShow == ClientsInit => ShowInv
<1> SUFFICES ASSUME ClientsInit PROVE ShowInv
  OBVIOUS
<1>1. /\ files = <<>> /\ listing = "idle" /\ pc = "main" /\ query = "name"
      /\ shown = [i \in 1..MaxFiles |-> Blank]
  BY DEF ClientsInit, DiscoveryInit
<1>2. DOMAIN files = {}
  BY <1>1, EmptyList
<1>3. DOMAIN Blank = Parts \cup {"codes"}
  BY DEF Blank, Parts
<1>4. FormInv
  BY <1>1, <1>3 DEF FormInv, PartsBefore
<1> QED  BY <1>1, <1>2, <1>4 DEF ShowInv, WholeInv, PartsInv, StageInv

\* Of a device that is there still lsinput shows, once it is past it, what it is
\* called and identified by, whether it is a keyboard, and its types, properties and
\* the codes of each type but EV_SYN; and of one that went meanwhile, each of these
\* or nothing (examples/lsinput/main.go, and the queries of device.go it calls).
THEOREM LsinputShowsTruth == ClientsSpec => []ShownRight
<1>1. Inv /\ ShowInv => ShownRight
  <2> SUFFICES ASSUME Inv, ShowInv, program = "lsinput", NEW i \in DOMAIN files
               PROVE  /\ \A part \in Parts : shown[i][part] \in {Truth(files[i].dev)[part], Blank[part]}
                      /\ \A t \in DOMAIN shown[i].codes \ {EV_SYN} :
                           shown[i].codes[t] \in {Has(files[i].dev, t), {}}
                      /\ pc = "loop" /\ files[i].alive /\ i \notin ToSet(left) =>
                           /\ \A part \in Parts : shown[i][part] = Truth(files[i].dev)[part]
                           /\ DOMAIN shown[i].codes = files[i].dev.types
                           /\ \A t \in files[i].dev.types \ {EV_SYN} :
                                shown[i].codes[t] = Has(files[i].dev, t)
    BY DEF ShownRight, Parts, Truth, Has
  <2>1. PartsInv /\ StageInv
    BY DEF ShowInv
  <2>2. ASSUME pc = "loop", files[i].alive, i \notin ToSet(left)
        PROVE  /\ \A part \in Parts : shown[i][part] = Truth(files[i].dev)[part]
               /\ DOMAIN shown[i].codes = files[i].dev.types
    <3>1. \A part \in Parts : shown[i][part] = Truth(files[i].dev)[part]
      BY <2>1, <2>2 DEF StageInv, Past
    <3>2. shown[i].types = files[i].dev.types
      BY <3>1 DEF Parts, Truth
    <3> QED  BY <2>1, <2>2, <3>1, <3>2 DEF StageInv
  <2> QED  BY <2>1, <2>2 DEF PartsInv
<1>2. ClientsSpec => []ShowInv
  <2>1. Inv /\ CallInv /\ ShowInv /\ [ClientsNext]_allVars => ShowInv'
    BY NextShow
  <2> QED  BY <2>1, InitShow, Invariance, CallInvariance, PTL DEF ClientsSpec
<1> QED  BY <1>1, <1>2, Invariance, PTL
=============================================================================

------------------------------ MODULE Watcher ------------------------------
(***************************************************************************)
(* The hotplug Watcher of watch.go: the constructor newWatcher, the        *)
(* goroutine that runs loop, emit and fail, any number of goroutines that  *)
(* call Close, and a consumer that receives from Events and Errors.        *)
(*                                                                         *)
(* The kernel is external: the directory, the inotify queue and the pipe   *)
(* are modelled from what the code asks of them.  The queue is never       *)
(* shortened: log holds every record the kernel queued, readPos is how     *)
(* much of it read(2) has copied out and emitPos how much of it emit has   *)
(* dealt with, so log[emitPos+1 .. readPos] is emit's buffer and           *)
(* log[readPos+1 .. ] is what is still in the kernel.                      *)
(***************************************************************************)
EXTENDS Naturals, Sequences, FiniteSets

CONSTANTS
  Nodes,       \* names in the directory that start with "event"
  Others,      \* names that do not: mouse0, js0, by-id
  NoName,      \* the empty name, of records about the watch itself
  Closers,     \* goroutines that call Close, once each
  BufRecords,  \* how many records fit the buffer read(2) is given
  QueueLimit,  \* how many records the kernel queues (max_queued_events)
  MaxChanges,  \* bound on the changes of the directory
  Faults       \* the system calls that may fail

\* read_dir is the one of a program that lists the directory.
Calls == {"inotify_init", "add_watch", "pipe", "poll", "read", "close", "read_dir"}
Fds   == {"ifd", "wakeR", "wakeW"}
Names == Nodes \cup Others
Channel == {"open", "closed"}

ASSUME NameAssumption ==
  /\ Nodes \cap Others = {}
  /\ NoName \notin Names
ASSUME LimitAssumption ==
  /\ BufRecords \in Nat \ {0}
  /\ QueueLimit \in Nat \ {0}
  /\ MaxChanges \in Nat
ASSUME FaultAssumption == Faults \subseteq Calls

VARIABLES
  \* the kernel
  present,   \* names in the watched directory
  changes,   \* number of changes so far, for the bound
  watch,     \* the inotify watch: not added, live, or dropped by the kernel
  log,       \* every record the kernel put in the inotify queue
  missed,    \* changes not put in the queue although a watch was added
  pipe,      \* bytes written to the self-pipe
  fds,       \* the descriptors: not created, open or closed
  \* the Watcher
  pc,        \* the constructor, then the goroutine it starts
  readPos,   \* records copied out of the kernel
  emitPos,   \* records emit is done with
  reported,  \* the positions of log that were received from Events
  events,    \* the Events channel, open or closed
  errs,      \* errors in the buffer of the Errors channel
  errsTaken, \* errors received from it
  quit,      \* the quit channel, open or closed
  done,      \* the done channel, open or closed
  once,      \* closeOnce
  closeErr,  \* the descriptor whose close failed first, or "nil"
  closer     \* where each caller of Close is

kernelVars == <<present, changes, watch, log, missed>>
bufferVars == <<readPos, emitPos, reported>>
chanVars   == <<events, errs, errsTaken, done>>
loopVars   == <<pc, bufferVars, chanVars>>
closeVars  == <<pipe, fds, quit, once, closeErr, closer>>
vars       == <<kernelVars, loopVars, closeVars>>
-----------------------------------------------------------------------------
(* What the code makes of a record.                                        *)

Added    == {"CREATE", "MOVED_TO"}
Removed  == {"DELETE", "MOVED_FROM"}
WatchMask == Added \cup Removed
Records  == [mask : WatchMask, name : Names]
            \cup [mask : {"Q_OVERFLOW", "IGNORED"}, name : {NoName}]

\* The record passes the prefix test and the switch of emit.
Relevant(r) == r.name \in Nodes /\ r.mask \in WatchMask

\* Mutant: the switch takes IN_MOVED_TO for a removal.
DeviceActionMoved(r) == IF r.mask = "CREATE" THEN "DeviceAdded" ELSE "DeviceRemoved"

\* The switch of emit, for a relevant record.
DeviceAction(r) == IF r.mask \in Added THEN "DeviceAdded" ELSE "DeviceRemoved"
-----------------------------------------------------------------------------
(* The kernel.                                                             *)

Unread == (readPos + 1)..Len(log)

\* A record for the watch.  A full queue takes one overflow record in place
\* of everything it drops.
Enqueue(r) ==
  \/ /\ Len(log) - readPos < QueueLimit
     /\ log' = Append(log, r)
     /\ UNCHANGED missed
  \/ /\ Len(log) - readPos >= QueueLimit
     /\ \A i \in Unread : log[i].mask # "Q_OVERFLOW"
     /\ log' = Append(log, [mask |-> "Q_OVERFLOW", name |-> NoName])
     /\ missed' = missed + 1
  \/ /\ Len(log) - readPos >= QueueLimit
     /\ \E i \in Unread : log[i].mask = "Q_OVERFLOW"
     /\ missed' = missed + 1
     /\ UNCHANGED log

Notify(mask, n) ==
  \/ watch = "live" /\ Enqueue([mask |-> mask, name |-> n])
  \/ watch = "dropped" /\ missed' = missed + 1 /\ UNCHANGED log
  \/ watch = "none" /\ UNCHANGED <<log, missed>>

Appear(n) ==
  /\ n \notin present
  /\ changes < MaxChanges
  /\ changes' = changes + 1
  /\ present' = present \cup {n}
  /\ \E mask \in Added : Notify(mask, n)
  /\ UNCHANGED <<watch, loopVars, closeVars>>

Disappear(n) ==
  /\ n \in present
  /\ changes < MaxChanges
  /\ changes' = changes + 1
  /\ present' = present \ {n}
  /\ \E mask \in Removed : Notify(mask, n)
  /\ UNCHANGED <<watch, loopVars, closeVars>>

\* devtmpfs removes an empty /dev/input; the watch goes with it, and does not
\* come back when the next device makes the directory appear again.
DirVanishes ==
  /\ watch = "live"
  /\ present = {}
  /\ changes < MaxChanges
  /\ changes' = changes + 1
  /\ watch' = "dropped"
  /\ Enqueue([mask |-> "IGNORED", name |-> NoName])
  /\ UNCHANGED <<present, loopVars, closeVars>>

Kernel == DirVanishes \/ \E n \in Names : Appear(n) \/ Disappear(n)
-----------------------------------------------------------------------------
(* newWatcher: three steps, each undone when a later one fails.            *)

Goto(from, to) == pc = from /\ pc' = to

InotifyInit ==
  /\ \/ /\ Goto("inotify_init", "add_watch")
        /\ fds' = [fds EXCEPT !["ifd"] = "open"]
     \/ /\ "inotify_init" \in Faults
        /\ Goto("inotify_init", "refused")
        /\ UNCHANGED fds
  /\ UNCHANGED <<kernelVars, bufferVars, chanVars, pipe, quit, once, closeErr, closer>>

AddWatch ==
  /\ \/ /\ Goto("add_watch", "pipe")
        /\ watch' = "live"
        /\ UNCHANGED fds
     \/ /\ "add_watch" \in Faults
        /\ Goto("add_watch", "refused")
        /\ fds' = [fds EXCEPT !["ifd"] = "closed"]
        /\ UNCHANGED watch
  /\ UNCHANGED <<present, changes, log, missed, bufferVars, chanVars,
                 pipe, quit, once, closeErr, closer>>

\* Mutant: ifd is not closed when the pipe cannot be made.
Pipe2Leaks ==
  /\ \/ /\ Goto("pipe", "poll")
        /\ fds' = [fds EXCEPT !["wakeR"] = "open", !["wakeW"] = "open"]
     \/ /\ "pipe" \in Faults
        /\ Goto("pipe", "refused")
        /\ UNCHANGED fds
  /\ UNCHANGED <<kernelVars, bufferVars, chanVars, pipe, quit, once, closeErr, closer>>

\* On success the Watcher exists and its goroutine is started.
Pipe2 ==
  /\ \/ /\ Goto("pipe", "poll")
        /\ fds' = [fds EXCEPT !["wakeR"] = "open", !["wakeW"] = "open"]
        /\ UNCHANGED watch
     \/ /\ "pipe" \in Faults
        /\ Goto("pipe", "refused")
        /\ fds' = [fds EXCEPT !["ifd"] = "closed"]
        /\ watch' = "none"
  /\ UNCHANGED <<present, changes, log, missed, bufferVars, chanVars,
                 pipe, quit, once, closeErr, closer>>

newWatcher == InotifyInit \/ AddWatch \/ Pipe2

Constructing == {"inotify_init", "add_watch", "pipe", "refused"}
Started == pc \notin Constructing
-----------------------------------------------------------------------------
(* loop.  An interrupted poll is a stuttering step.                        *)

\* A step that only moves the goroutine on.
Jump(from, to) ==
  Goto(from, to) /\ UNCHANGED <<kernelVars, bufferVars, chanVars, closeVars>>

\* Poll returns with the pipe readable, Close was requested; or, the pipe
\* being silent, with records to read; or with an error.
PollWake    == pipe > 0 /\ Jump("poll", "close_events")
PollRecords == pipe = 0 /\ Unread # {} /\ Jump("poll", "read")

\* Mutant: loop returns on the error without reporting it.
PollFailsSilently == "poll" \in Faults /\ Jump("poll", "close_events")

PollFails == "poll" \in Faults /\ Jump("poll", "fail")

\* Mutant: emit is given the whole buffer, not the part that was filled.
ReadWholeBuffer ==
  /\ Unread # {}
  /\ Goto("read", "emit")
  /\ readPos' = readPos + BufRecords
  /\ UNCHANGED <<kernelVars, closeVars, chanVars, emitPos, reported>>

\* read(2) hands over as many whole records as fit the buffer.
Read ==
  /\ Unread # {}
  /\ Goto("read", "emit")
  /\ readPos' = IF Len(log) - readPos <= BufRecords
                THEN Len(log) ELSE readPos + BufRecords
  /\ UNCHANGED <<kernelVars, closeVars, chanVars, emitPos, reported>>

\* EAGAIN or EINTR: poll again.
ReadAgain == Jump("read", "poll")
ReadFails == "read" \in Faults /\ Jump("read", "fail")
-----------------------------------------------------------------------------
(* emit, one record of the buffer at a time.                               *)

Emitting == pc = "emit" /\ emitPos < readPos
Record   == log[emitPos + 1]

\* Mutant: break instead of continue, the rest of the buffer is lost.
EmitBreak ==
  /\ Emitting
  /\ ~Relevant(Record)
  /\ emitPos' = readPos
  /\ UNCHANGED <<kernelVars, closeVars, chanVars, pc, readPos, reported>>

\* A record of another file, or about the watch itself, is passed over.
EmitSkip ==
  /\ Emitting
  /\ ~Relevant(Record)
  /\ emitPos' = emitPos + 1
  /\ UNCHANGED <<kernelVars, closeVars, chanVars, pc, readPos, reported>>

\* The select of emit sends: the channel has no buffer, so this is also the
\* consumer's receive.
EmitSend ==
  /\ Emitting
  /\ Relevant(Record)
  /\ emitPos' = emitPos + 1
  /\ reported' = reported \cup {emitPos + 1}
  /\ UNCHANGED <<kernelVars, closeVars, chanVars, pc, readPos>>

\* The select of emit finds quit closed; with a consumer ready as well, Go
\* takes either branch.
EmitQuit ==
  /\ Emitting
  /\ Relevant(Record)
  /\ quit = "closed"
  /\ Jump("emit", "close_events")

EmitDone == emitPos = readPos /\ Jump("emit", "poll")

\* fail: the send does not block, a second error would be dropped.
Fail ==
  /\ Goto("fail", "close_events")
  /\ errs' = IF errs < 1 THEN errs + 1 ELSE errs
  /\ UNCHANGED <<kernelVars, closeVars, bufferVars, events, errsTaken, done>>

\* Mutant: Events is left open.
CloseEventsNot == Jump("close_events", "close_done")

\* The two deferred calls of loop, last one first.
CloseEvents ==
  /\ Goto("close_events", "close_done")
  /\ events' = "closed"
  /\ UNCHANGED <<kernelVars, closeVars, bufferVars, errs, errsTaken, done>>

CloseDone ==
  /\ Goto("close_done", "exited")
  /\ done' = "closed"
  /\ UNCHANGED <<kernelVars, closeVars, bufferVars, events, errs, errsTaken>>

\* The steps of the goroutine that need nobody else and no failure.
LoopRuns ==
  \/ PollWake \/ PollRecords
  \/ Read \/ ReadAgain
  \/ EmitSkip \/ EmitQuit \/ EmitDone
  \/ Fail \/ CloseEvents \/ CloseDone

LoopStep == LoopRuns \/ PollFails \/ ReadFails

\* The consumer receives from Errors.
ReceiveErr ==
  /\ errs > 0
  /\ errs' = errs - 1
  /\ errsTaken' = errsTaken + 1
  /\ UNCHANGED <<kernelVars, closeVars, bufferVars, pc, events, done>>
-----------------------------------------------------------------------------
(* Close.                                                                  *)

Step(c, from, to) == closer[c] = from /\ closer' = [closer EXCEPT ![c] = to]

CallClose(c) ==
  /\ Started
  /\ Step(c, "idle", "once")
  /\ UNCHANGED <<kernelVars, loopVars, pipe, fds, quit, once, closeErr>>

\* closeOnce lets the first caller in; the others wait for it to finish.
OnceEnter(c) ==
  /\ once = "fresh"
  /\ once' = "running"
  /\ Step(c, "once", "quit")
  /\ UNCHANGED <<kernelVars, loopVars, pipe, fds, quit, closeErr>>

\* Mutant: a flag instead of closeOnce, a second caller does not wait.
OncePassAtOnce(c) ==
  /\ once # "fresh"
  /\ Step(c, "once", "returned")
  /\ UNCHANGED <<kernelVars, loopVars, pipe, fds, quit, once, closeErr>>

OncePass(c) ==
  /\ once = "complete"
  /\ Step(c, "once", "returned")
  /\ UNCHANGED <<kernelVars, loopVars, pipe, fds, quit, once, closeErr>>

CloseQuit(c) ==
  /\ Step(c, "quit", "wake")
  /\ quit' = "closed"
  /\ UNCHANGED <<kernelVars, loopVars, pipe, fds, once, closeErr>>

\* Mutant: nothing is written to the pipe.
CloseWakeNot(c) ==
  /\ Step(c, "wake", "await")
  /\ UNCHANGED <<kernelVars, loopVars, pipe, fds, quit, once, closeErr>>

CloseWake(c) ==
  /\ Step(c, "wake", "await")
  /\ pipe' = pipe + 1
  /\ UNCHANGED <<kernelVars, loopVars, fds, quit, once, closeErr>>

\* Mutant: the descriptors are closed without waiting for the goroutine.
CloseAwaitNot(c) ==
  /\ Step(c, "await", "release")
  /\ UNCHANGED <<kernelVars, loopVars, pipe, fds, quit, once, closeErr>>

CloseAwait(c) ==
  /\ done = "closed"
  /\ Step(c, "await", "release")
  /\ UNCHANGED <<kernelVars, loopVars, pipe, fds, quit, once, closeErr>>

\* firstErr over the three closes, in the order of its arguments.
FirstErr(failed) ==
  IF "ifd" \in failed THEN "ifd"
  ELSE IF "wakeR" \in failed THEN "wakeR"
  ELSE IF "wakeW" \in failed THEN "wakeW" ELSE "nil"

\* All three closes are made, whether or not one fails, and a descriptor is
\* gone even when its close reports an error.  The inotify queue and the
\* watch go with ifd.
CloseRelease(c) ==
  /\ Step(c, "release", "returned")
  /\ fds' = [f \in Fds |-> "closed"]
  /\ watch' = "none"
  /\ \E failed \in SUBSET Fds :
       /\ failed # {} => "close" \in Faults
       /\ closeErr' = FirstErr(failed)
  /\ once' = "complete"
  /\ UNCHANGED <<present, changes, log, missed, loopVars, pipe, quit>>

CloseStep(c) ==
  \/ OnceEnter(c) \/ OncePass(c)
  \/ CloseQuit(c) \/ CloseWake(c) \/ CloseAwait(c) \/ CloseRelease(c)
-----------------------------------------------------------------------------
Init ==
  /\ present \in SUBSET Names
  /\ changes = 0
  /\ watch = "none"
  /\ log = <<>>
  /\ missed = 0
  /\ pipe = 0
  /\ fds = [f \in Fds |-> "none"]
  /\ pc = "inotify_init"
  /\ readPos = 0
  /\ emitPos = 0
  /\ reported = {}
  /\ events = "open"
  /\ errs = 0
  /\ errsTaken = 0
  /\ quit = "open"
  /\ done = "open"
  /\ once = "fresh"
  /\ closeErr = "nil"
  /\ closer = [c \in Closers |-> "idle"]

Next ==
  \/ Kernel
  \/ newWatcher
  \/ LoopStep
  \/ EmitSend
  \/ ReceiveErr
  \/ \E c \in Closers : CallClose(c) \/ CloseStep(c)

Spec == Init /\ [][Next]_vars
-----------------------------------------------------------------------------
(* Fairness.  Go runs every goroutine that can run, so the goroutine of    *)
(* loop and the calls of Close that were made get on; a system call is not *)
(* interrupted forever.  Nothing obliges the kernel to change the          *)
(* directory, a caller to call Close, or a system call to fail.            *)

GoFairness ==
  /\ WF_vars(newWatcher)
  /\ WF_vars(LoopRuns)
  /\ SF_vars(Read)
  /\ \A c \in Closers : WF_vars(CloseStep(c))

\* The consumer may never receive.
LoopSpec == Spec /\ GoFairness
-----------------------------------------------------------------------------
(* Properties.                                                             *)

TypeOK ==
  /\ present \subseteq Names
  /\ changes \in Nat
  /\ watch \in {"none", "live", "dropped"}
  /\ log \in Seq(Records)
  /\ missed \in Nat
  /\ pipe \in Nat
  /\ fds \in [Fds -> {"none", "open", "closed"}]
  /\ pc \in Constructing \cup {"poll", "read", "emit", "fail", "close_events",
                                "close_done", "exited"}
  /\ readPos \in 0..Len(log)
  /\ emitPos \in Nat
  /\ reported \subseteq Nat
  /\ events \in Channel
  /\ errs \in Nat
  /\ errsTaken \in Nat
  /\ quit \in Channel
  /\ done \in Channel
  /\ once \in {"fresh", "running", "complete"}
  /\ closeErr \in Fds \cup {"nil"}
  /\ closer \in [Closers -> {"idle", "once", "quit", "wake", "await", "release",
                             "returned"}]

\* Close waits for the goroutine before it closes descriptors (watch.go:107):
\* neither a poll or read of the goroutine nor the wakeup write of Close ever
\* uses a descriptor that is closed and could have been given out again.
NoStaleDescriptor ==
  /\ pc \in {"poll", "read"} => fds["ifd"] = "open" /\ fds["wakeR"] = "open"
  /\ \A c \in Closers : closer[c] \in {"wake", "release"} => fds["wakeW"] = "open"

\* No descriptor outlives its owner: a constructor that fails at any step
\* leaves none open (watch.go:69-78), and whichever caller of Close returns,
\* first or not, finds all three closed, the goroutine gone and Events closed.
NoLeak ==
  /\ pc = "refused" => \A f \in Fds : fds[f] # "open"
  /\ \A c \in Closers :
       closer[c] = "returned" =>
         /\ \A f \in Fds : fds[f] = "closed"
         /\ pc = "exited"
         /\ events = "closed"

\* Errors gets at most one error, sent before Events is closed
\* (watch.go:97-98): a consumer that finds Events closed although nobody
\* called Close finds the error there.
ErrorBeforeEnd ==
  /\ errs + errsTaken <= 1
  /\ events = "closed" /\ quit = "open" => errs + errsTaken = 1

\* After a Close has returned the consumer receives no event and no new
\* error is raised.
SilentAfterClose ==
  [][(\E c \in Closers : closer[c] = "returned")
       => UNCHANGED reported /\ errs' + errsTaken' = errs + errsTaken]_vars

\* What the consumer is told of each record.
EventOf(r) == IF Relevant(r) THEN <<DeviceAction(r), r.name>> ELSE <<"ignored", NoName>>

\* The feed also ends when newWatcher gives up: there is no Watcher then.
Feed == INSTANCE HotplugFeed WITH
  DeviceEvents <- {"DeviceAdded", "DeviceRemoved"} \X Nodes,
  Noise        <- <<"ignored", NoName>>,
  feed         <- [i \in DOMAIN log |-> EventOf(log[i])],
  ended        <- events = "closed" \/ pc = "refused"

\* The Watcher hands over the node changes of the inotify queue each once, in
\* order, none skipped, and nothing after Events is closed, whatever the
\* batches read(2) makes of them.
ImplementsFeed == Feed!FeedSafety

\* ... and with a consumer that keeps receiving, every node change that was
\* queued is handed over unless the Watcher stops.
ImplementsLiveFeed == Feed!FeedSpec

\* Close returns to every caller even when no consumer receives and however
\* the goroutine stopped (watch.go:101-102).
CloseReturns ==
  \A c \in Closers : closer[c] = "once" ~> closer[c] = "returned"
=============================================================================

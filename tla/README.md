# TLA+ models of go-evdev

go-evdev reads Linux input devices (`/dev/input/event*`), creates virtual ones
(`/dev/uinput`), joins the two into a remapper, and watches for devices being
plugged in and out. This directory holds TLA+ models of it, the TLC
configurations that check them, and proofs that TLAPS checks.

    tlc -workers 2 -config Watcher.cfg MCWatcher.tla
    tlapm WatcherProofs.tla

`PROJECT.json` lists every run with its module and configuration, the mutants
that show what each property can catch, and, for every definition, the lines of
code it models. A definition whose comment begins with "Mutant:" is a plausible
bug in the operation whose name it resembles; no specification uses it.

## Inventory

| part | state | operations | talks to |
|---|---|---|---|
| Watcher (`watch.go`) | inotify fd, self-pipe, channels `events` `errs` `quit` `done`, `closeOnce` | `newWatcher`, the goroutine `loop`/`emit`/`fail`, `Close` | inotify; its consumer, through channels |
| Device (`device.go`) | an `os.File` in the runtime poller; in the kernel a queue and the grab | `Open`, `ReadOne`, `Read`, `Close`, `Fd`, `Grab`, `Ungrab`, queries | evdev |
| VirtualDevice (`uinput.go`) | `v.f`, an `os.File`; the device in the kernel | `CreateVirtualDevice`, `Write`, `Sync`, `Close` | uinput |
| Remapper (`remapper.go`) | a Device, a VirtualDevice, a MapFunc, `closeOnce` | `NewRemapper`, `Run`, `Output`, `Close` | the two above, by calls; its user's goroutines |
| Discovery (`discover.go`) | none; the files it has opened and not yet returned | `ListDevicePaths`, `ListDevices`, `ListKeyboards` | the directory, Device |
| Ioctl encoding (`ioctl.go`) | none | the builders of request numbers, `ioctl`, `ioctlBuf` | evdev |
| Capability bitmasks (`device.go`) | none | `queryBits`, `forEachSetBit`, `CapableTypes`, `CapableCodes`, `CapableProps`, `HasCode`, `IsKeyboard` | evdev, by the requests |
| Table generator (`internal/gen`) | the symbols and defines met so far | `parseHeader`, `resolve`, `run`, `emit` | the kernel's headers, `codes.go` |
| Code tables (`codes.go`), names (`names.go`, `event.go`) | six tables, never changed | `CodeName`, `EvCodeByName` and the lookups beside them | |
| lsinput, monitor (`examples`) | the devices they were given; monitor a goroutine for each and a WaitGroup | `main`, `openDevices`, the goroutine | Discovery, Device |
| watch, remap, vkbd (`examples`) | see Hotplug client, Remapper | | Watcher; Remapper; VirtualDevice |

What is hard, and what makes each part correct:

* **Watcher.** One goroutine sleeps in poll(2) or in a send on `Events`, and
  `Close` has to get it out of both, wait for it, and only then close the
  descriptors; several callers may be in `Close`. Construction acquires in three
  steps that can fail; batches of records are cut by the read buffer. Correct:
  no system call on a closed descriptor, nothing leaked, `Close` returns and is
  final, an error is there before `Events` ends, node changes come out once and
  in order, and "create the Watcher, then list" misses nothing.
* **Device.** A `Close` in one goroutine must interrupt a `ReadOne` in another,
  which only works while the file is in the poller; ioctls must not run on a
  descriptor that is being closed; the grab belongs to a file, not a call.
  Correct: descriptors are held while used, a returned `Close` has given the
  grab back, blocked reads return.
* **VirtualDevice.** Creation is a dozen ioctls, each of which may fail. `Write`
  and `Close` are not synchronised at all. Correct: a device is created whole or
  not at all, and is silent once closed.
* **Remapper.** Two devices, a running `Run`, several closers and a client of
  `Output()`, in a process that may end by os.Exit in the middle of any of it. Correct:
  grabbed while open, failures undone, teardown complete for everyone whose `Close`
  returned, the stream mapped without loss, `Run` stops and the process ends.
* **Discovery.** A list is made of many steps, while devices come and go, nodes
  become readable, the directory cannot be read, and descriptors run out; what is opened belongs to nobody
  until the call returns, and a device can die between being opened and being
  asked whether it is a keyboard. Correct: the caller gets every file that stays
  open, none when the call fails, and misses no device that was there all along if the
  directory could be read.
* **Ioctl encoding, bitmasks.** Numbers packed into fields of a word, masks cut by
  the size asked for, codes at the edge of a byte and of what the kernel wrote.
  Correct: what a program is told of a device is what that device has.
* **Generator, tables, names.** Headers are read line by line, values resolved
  against what stood before; aliases, sums, limits and symbols of another header
  meet; one table by name serves all types. Correct: the tables are what C makes
  of the defines, the result compiles, and names and codes lead to each other.
* **lsinput, monitor.** Queries of a device that is gone; goroutines that end while
  main is still starting others. Correct: nothing stays open at the end, and
  monitor waits for exactly the goroutines it has started.

## Modules

| module | models | extends / instantiates |
|---|---|---|
| `HotplugFeed` | abstract: the queue's node changes come out once, in order | |
| `Watcher` | `watch.go` with inotify | refines `HotplugFeed` (`Feed`) |
| `HotplugClient` | `examples/watch` with `ListDevicePaths` | extends `Watcher` |
| `WatcherProofs` | theorems about `Watcher` and `HotplugClient` | extends `HotplugClient` |
| `Device` | `device.go` over os.File and evdev | |
| `DeviceProofs` | theorems about `Device` | extends `Device` |
| `VirtualDevice` | `uinput.go` over uinput | |
| `VirtualDeviceProofs` | theorems about `VirtualDevice` | extends `VirtualDevice` |
| `RemapStream` | abstract: mapped frames come out once, in order | |
| `Remapper` | `remapper.go` and `examples/remap` | extends `Device`; `Out == INSTANCE VirtualDevice`; refines `RemapStream` (`Stream`) |
| `RemapperProofs` | theorems about `Remapper` | extends `Remapper`, `DeviceProofs`, `Induction`; `VP == INSTANCE VirtualDeviceProofs` |
| `Induction` | induction over the naturals, said of sets, and functions defined by recursion | |
| `Codes` | constants of `codes.go` | |
| `Generator` | `internal/gen/main.go` | |
| `Names` | `names.go` over the tables `Generator` has made | extends `Generator` |
| `GeneratorProofs` | theorems about `Generator` and `Names` | extends `Names`, `Induction` |
| `Queries` | `ioctl.go` and the queries of `device.go`, with evdev's answers | extends `Codes` |
| `QueriesProofs` | theorems about `Queries` | extends `Queries`, `Induction` |
| `Discovery` | `discover.go` while devices come and go | extends `Queries` |
| `ListingClients` | `examples/lsinput`, `examples/monitor`, a caller of `ListKeyboards` | extends `Discovery` |
| `ListingProofs` | theorems about `ListingClients` | extends `ListingClients`, `QueriesProofs` |
| `MCWatcher`, `MCHotplugClient`, `MCDevice`, `MCVirtualDevice`, `MCRemapper`, `MCNames`, `MCListing` | constants of the runs | |

### Watcher

`pc` is where the goroutine is: the steps of `newWatcher` (`InotifyInit`,
`AddWatch`, `Pipe2`, each with its failure), then `poll` (`PollWake`,
`PollRecords`, `PollFails`), `read` (`Read`, `ReadAgain`, `ReadFails`), `emit`
(one record at a time: `EmitSkip`, `EmitSend`, `EmitQuit`, `EmitDone`), `fail`
and the deferred closes. `closer[c]` is where a caller of `Close` is; the body of
`closeOnce` is one action per statement. `log` is all the kernel ever queued;
`readPos`, `batchEnd` and `emitPos` say how much of it was read, is in the buffer
and was gone through. Calls may fail with an error that ends the loop, or
with one that repeats it. External: inotify (queue limit, overflow record, the
record that ends a watch), the directory, the pipe.

### HotplugClient

Main creates the Watcher, lists the directory in a step that is not atomic
(`ListBegin` .. `ListEnd`, the nodes that change meanwhile may be in the result or
not), ranges over `Events`, and checks `Errors`. `ListPart` is the listing whose directory
read fails: `filepath.Glob` keeps the error to itself, and the result lacks any of the nodes.
`unlisted` are those of them nothing has happened to since. No event can make them known, so what
the program can know (`Known`) is all that is there but for them.

### Device

For every goroutine: `at` is where its call stands, `on` the file, `ret` what it
returned. An `os.File` is `file` (open; closing, when calls still hold a
reference; closed) and `mode` (`poller`, or `blocking` after `Fd`). A read waits
for its turn (`ReadLock`), takes events, or parks in the poller, where `Close`
gets it out (`ReadEvicted`); in a blocking file it sits in read(2), where nothing
but input does. An ioctl holds a reference from `Control` to `Ioctl`. The last
call to leave a closing file closes the descriptor and with it the grab
(`Leave`). `Close` waits for that, unless the file is blocking. The kernel keeps a
queue for every file that has it open, which on overflow is replaced by
SYN_DROPPED and the newest event, and gives frames to the holder of the grab
only, or to all the files and the rest of the system (`direct`).

### VirtualDevice

`Enable` registers one bit per step, in the order of `enable`; each step of
`CreateVirtualDevice` can fail and closes the file. `WriteBegin` reads `v.f` once;
`WriteLock` waits for other writes; `WriteDone` is write(2). `Close` is five
steps: the nil check, the number from `Fd`, the ioctl on it, the close of the
file and `v.f = nil`, each reading `v.f` again, since nothing keeps other
goroutines out. A word-sized pointer is read old or new, so the race on `v.f` is
modelled by these interleavings. The file has been made blocking by `Fd`, so its
close does not wait for a write in progress.

### Remapper

`rpc` names the call Main is in (the queries of `NewRemapper`, the creation, the
grab, then `Run`'s reads and writes), `cpc` the call of a goroutine in
`Remapper.Close` and the close of the source. The calls themselves proceed
by the actions of `Device` and `VirtualDevice`, interleaved. MapFunc is a constant
that gives for every frame the codes its key is replaced by.

Ctl is the Ctrl-C goroutine of `examples/remap`; it may close at any time from the return of
`NewRemapper` on. Main closes by its deferred calls, so only when `Run` has returned nil (`rpc =
"eof"`, `MayClose`). `Exit` is the end of the process: os.Exit when `NewRemapper` ("failed") or
`Run` ("error") has returned an error, which skips the deferred calls, or the return of main after
them. Nobody takes a step after it (`Alive`), so it cuts Ctl off wherever that is, in either close
or between them. That is not rare: Ctl's own `rm.Close` makes a write of `Run` fail, and then main
exits while Ctl still has to close the source. The descriptors that are open then are closed by the
kernel, which also gives the grab back and destroys the virtual device; that is not modelled, nor are
the signal that ends the process before `signal.Notify`, and `src.Name()`, which is only printed.

### Generator, Codes, Names

A header is a sequence of defines, a name the tuple of its parts that matter, a
value what stands between plus signs. `ParseLine` is an iteration of
`parseHeader`'s loop, `Collect` the end of a header, `ReadFails` and the second half of
`Write` the errors; `resolve` sums in 16 bits and gives up on what it does not
understand. `emit` makes the tables as sequences of entries, so that a key that
occurs twice in a map literal, which Go would refuse, can be told. `Selected`, which keeps
some places of a sequence, is the loops that append what passes a test. `Names` looks up in
those tables, with the fallbacks.

What the tables are compared with is not the generator's way: `CValues` is the function from lines
to values that solves all lines together, as C reads them. Headers are assumed to be like the
kernel's (`HeadersAssumption`, whose parts `LikeTheKernel` names), and each part is something the
code leaves to the headers: `DefinedOnce`, else `syms[name] = val` would overwrite and the constant
would be declared twice; `DefinedBefore`, since `parseHeader` passes over what it does not know yet;
sums that fit 16 bits, since `left + right` wraps; `NoAliases` among the types, buses and properties
that have a table by value, since emit looks for a first name only among the codes; and no bus whose
name ends as a limit does, since `busNames` leaves out none. Nothing is assumed of the codes'
aliases, of values that are not understood, or of how the lines are ordered otherwise.

`Codes` has the constants of `codes.go` in their
order, but of the long list of `EV_KEY` only those the code depends on.

### Queries

A word is the set of the positions of its bits, a buffer a sequence of bytes from 0,
each the set of its bits. `ioc` and its callers build a request, whose bits come from
halving the arguments (`Bits`); `Field` takes it
apart again as evdev does, which then answers the mask it stands for, in longs, cut to the
size that the request has (`Mask`, `Answered`, `ioctlBuf`; `LongBytes` is 4 or 8).
The bytes of a long are in little-endian order (`Byte`). On a big-endian machine evdev's masks
have their bytes in another order within each long, and `forEachSetBit`, which goes through the buffer
byte by byte, would read other codes; the comment on `DriverVersion` (`device.go:124-128`) has such
machines in mind, s390x for one, for another request. What is checked and proved of the queries is
for little-endian machines only.
`Written`, `forEachSetBit`, `BitSet` and the queries are what `device.go` makes of the
buffer. Every query is thus checked from the number of its request to the codes it returns.

### Discovery, ListingClients

A path is its place in the order of paths. `node` says what is at each, `files` what
Open returned, with the device that was there at that time: a file dies with its device,
whatever has the path later. `listing` is where the call stands: first the paths, by
`ListDevicePaths` or by `ListPathsCut`. The first reads the directory to its end, for which
`filepath.Glob` needs a descriptor (`Readable`). The second is what Glob makes of an
error of stat, open or readdir: it returns the names it had got by then, none if there was no
descriptor to open the directory with, and a nil error; `cut` records it. Either may happen at any
call, and where no descriptor is left only the second. An error that comes when Glob has all the
names makes no difference and is left to the first. Then come
`OpenNext`, `SkipNext` or `Abort` for each path (`OpenError` gives EMFILE, ENOENT or
EACCES), `ListedDevices`, then `QueryNext` for each device if keyboards were asked for. `Plug`,
`Unplug` and `Chmod` happen in between; `touched` and `chmodded` record where.

`pc` is where main is. lsinput asks each device one thing per step and keeps in `shown`
what it prints, an ioctl at a time (`AskName`, `AskPhys`, `AskUniq`, `AskID`, then the others), so
that a device can go between any two; its deferred closes are `CloseDeferred`. monitor opens its arguments or
the list, grabs with `-grab` (`Refuse`, `Start`), adds to `wg` and starts
`Reader(i)`, which reads until the device is gone, closes it and calls `Done`; main is in
`Wait` until `wg` is 0, and then makes its deferred calls of Ungrab. `taken` holds the
devices that another program has grabbed. What os.Exit leaves to the kernel is "exited".

## Runs

| run | shows | bounds |
|---|---|---|
| `watcher` | type, `NoStaleDescriptor`, `NoLeak`, `ErrorBeforeEnd`, `SilentAfterClose`, `ImplementsFeed`, and `CloseReturns` though nobody receives | 1 node and 1 other file, 2 callers of `Close`, 3 changes of the directory, a queue of 2 (overflows), a buffer of 2 records, every call able to fail |
| `hotplug_client` | `NothingMissed`, `EventuallyKnown`, `ImplementsLiveFeed` for a consumer that keeps receiving, and `ProgramStops` | 2 nodes and 1 other file, 3 changes, a queue of 2, a buffer of 2 records, poll, read and the read of the directory able to fail, nobody else to call `Close` |
| `hotplug_overflow` | violated: `NothingEverMissed`. The overflow record has no name, `emit` passes over it, and a change is lost without a sign | 1 node, queue of 1 |
| `device` | `DescriptorHeld`, `CloseReleasesGrab`, `CloseUnblocks` | 2 files, `Fd` on one of them, 2 goroutines, 1 frame of two events, reads of 1 and 2, queue of 2 |
| `virtual_device` | `CreatedWhole`, `FailureLeavesNothing`, `QuietAfterClose`, `DestroyOnOwnFile` | 3 writers of which 1 closes, a key, an axis and a property, 1 unregistered key, 3 events |
| `remapper` | `GrabbedWhileOpen`, `FailureUndone`, `TeardownComplete`, `NothingAfterClose`, `ImplementsStream`, `RunStops`, `TeardownEnds`, `EventsComeOut`, to the end of the process | 2 frames (one mapped to two keys, one dropped), queue of 4, 1 event to `Output()`, 2 closers, another file that may have the grab |
| `remapper_batch` | violated: `BatchAtomic`. A marker `Run` forwards splits a batch written to `Output()` | 2 frames, batch of 2 keys and a marker |
| `remapper_loss` | violated: `ImplementsStream`, when the queue holds one event less than is made. The source is not slowed down, as the comment on `Run` has it: it loses events | 2 frames, queue of 3 |
| `names` | `TablesRight`, `KeysUnique`, `NamesResolve`, with reading and writing that fail | the kernel's headers as far as `Codes` has them, and all headers of up to 4 of 9 lines in which aliases, sums, limits, values that are not understood and equal codes of different types meet, with and without buses that use the other header's symbols |
| `names_limits` | violated: `ConstantsKnown`. `KEY_BRIGHTNESS_MAX` ends like a limit, so it is a constant without a name | the kernel's headers |
| `listing` | `NothingLeft`, `ListComplete`, `ShownRight`, `WaitsForAll`, `ProgramEnds` | 2 paths, 3 kinds of devices, 2 changes, 0 to 2 descriptors, a directory read to its end, in part or not at all, arguments that repeat a path and that are out of order, any devices grabbed by others |
| `listing_syn` | violated: `ShownOfType`. `CapableCodes(EV_SYN)` makes the request for the event types, and lsinput shows them as codes | 1 path |

Bounds are constants of the modules (`MaxChanges`, `QueueLimit`, `BufRecords`, `MaxFrames`,
`EvLimit`, `BufEvents`, `MaxInject`, `MaxFiles`, `FdLimits`, `Headers`). They are chosen so that the
cases matter: the inotify queue overflows, a device's queue is just filled (and overflows in
`remapper_loss`), a batch holds more than one record, a read takes less than is queued, two closers
meet in `closeOnce`, and every action and every error path fires. What the models tell apart needs
no more: records and events are passed on one by one, whatever their number. Two paths are enough
for a listing that stops half-way or drops one device and keeps another, and for a goroutine of
monitor that is over before main has started the next; the kinds of devices have codes at both edges
of bytes and masks, types without codes and a device that just misses being a keyboard. Four lines
are enough for an alias before and after another name of its value, with a limit and a line that is
not understood; headers are such that C resolves them in one pass (`Ordered`), and define a symbol
once. `CHECK_DEADLOCK FALSE` everywhere, because every program here ends or may have nothing left to
do; that nobody waits forever is what the liveness properties say.

Properties that hold only under a condition say so in their statement:
`NothingMissed` while the kernel dropped nothing, and for the nodes that the directory read
has not left out, `ListComplete` where the directory was read to its end (`cut`), `CloseReleasesGrab` and
`CloseUnblocks` for files on which `Fd` was not called (on others both fail, as the
comment on `Fd` warns for the reader but that on `Grab` does not for the grab),
`DestroyOnOwnFile` for one closing goroutine (`Closers`: with two, the number of one
can be closed by the other before the ioctl).

### Fairness

* A goroutine that can run does (weak fairness of its steps): the Go scheduler. In `Remapper`
  that is as long as the process is there: fairness of Main covers its `Exit`, and that of
  Ctl and Macro is of steps with `Alive`, which no goroutine has after it. `TeardownEnds`
  therefore promises the end of the process, and closes that have returned only where main's deferred
  calls made them (`EndsClosed`).
  Failures are left out of it, so no property relies on one happening.
* `Read` of the Watcher is strongly fair: a read that is again and again possible is not
  passed over in favour of repeats by EINTR.
* In `HotplugClient`, Main keeps receiving; in a select with `quit` closed, the
  choice is random, so neither case is promised.
* In `ListingClients`, main and each goroutine take steps while they can: a read of a
  device that is gone returns. Devices need not go; `ProgramEnds` is conditional on it.
* Nobody is obliged to type, to unplug, to change the directory, to call `Close`, or
  to write to `Output()`. The generator's run has no fairness: it states safety only.

## Proofs

`WatcherProofs` proves for all nodes, callers, buffer sizes, queue limits and faults,
from `Spec` and the assumption on the constants in `Watcher`:

| theorem | states |
|---|---|
| `TypeCorrect` | `[]TypeOK` |
| `DescriptorsFresh` | `[]NoStaleDescriptor` |
| `NothingLeaks` | `[]NoLeak` |
| `ErrorFirst` | `[]ErrorBeforeEnd` |
| `SilenceAfterClose` | `SilentAfterClose` |
| `Refinement` | `ImplementsFeed`: every initial state and step of the Watcher is one of the feed, or stutters |

None of the invariants is inductive by itself. That a descriptor is not used once
closed rests on where everyone is: only the caller inside `closeOnce` closes, it
does so after it has seen `done` closed, and `done` is closed by the goroutine's
last step. So the inductive invariant is `Inv`: `TypeOK`; `ControlInv`, which is
`OnceInv` (one caller inside `closeOnce`, and how far it is), `CloseInv` (which channels are
closed, as a function of where the caller and the goroutine are), `FdInv` (likewise
the descriptors) and `ErrInv` (the goroutine sends at most one error, just before
it ends); and `BufferInv`, which orders `emitPos`, `batchEnd`, `readPos` and the
length of `log`. The proof has one lemma per action and group of conjuncts, and
`Invariance` puts them together. `SilenceAfterClose` follows from `Inv` because a
returned `Close` implies that the goroutine is over (`ReturnedIsOver`). For
`Refinement`, `FeedGrows` says that appending to `log` appends to the feed, and one lemma per
kind of step (`FeedReport`, `FeedObserve`, `FeedEnd`, `FeedStutter`) shows what it is in the feed.

`DeviceProofs`, from `DeviceSafety` and the assumption in `Device`, for any files,
goroutines, read sizes and queue:

| theorem | states |
|---|---|
| `DeviceTypeCorrect` | `[]DeviceTypeOK` |
| `DescriptorsHeld` | `[]DescriptorHeld` |
| `GrabsReleased` | `[]CloseReleasesGrab` |

`CloseReleasesGrab` is about a moment long after the step that gives the grab back, so
the inductive invariant `Held` adds what links the two: whoever has the grab has a
descriptor (`GrabHeld`), so a closed descriptor has no grab; where `Fd` may not be called,
the file stays in the poller (`PollerKept`), and there a returned `Close` has seen the
descriptor closed (`ReturnedClosed`). That a step closes no descriptor somebody still
holds is the condition of `Leave` and `Close`.

`VirtualDeviceProofs`, from `VirtualSafety` and the assumption in `VirtualDevice`:

| theorem | states |
|---|---|
| `VirtualTypeCorrect` | `[]VirtualTypeOK` |
| `CreatedWholeOrNot` | `[](CreatedWhole /\ FailureLeavesNothing)` |
| `FailuresUndone` | `[]FailureLeavesNothing` |
| `QuietOnceClosed` | `QuietAfterClose`, for any number of writers and closers |
| `OneCloserDestroysItsOwn` | `[]DestroyOnOwnFile`, assuming one goroutine that closes |

The inductive invariant has a part for each phase: one goroutine creates, and nobody
else has the device before it returned (`CreateInv`); past registration everything
is registered (`WholeInv`); a failed creation leaves nobody at work (`FailedInv`); the
device is gone for everyone past the ioctl of `Close`, so before `v.f` is nil
(`GoneInv`). The last needs a word: a closer whose number was "bad" destroys nothing, but
then another closer has closed the file already, and the device went with it. The fourth theorem adds
`OneInv`: the only closer finds the file open until it closes it itself. Its assumption is
needed; with two closers `DestroyOnOwnFile` fails.

`WatcherProofs` also has `HotplugClient`, from `ClientSafety` and the assumption of `Watcher`, for
any nodes, queue, buffer, callers and faults:

| theorem | states |
|---|---|
| `ClientTypeCorrect` | `[]ClientTypeOK` |
| `MissesNothing` | `[]NothingMissed` |
| `ClientGetsFeed` | `ImplementsFeed`, for the Watcher of this program |

Every step of the client is a step of the Watcher or leaves it alone (`ClientSteps`), so
`Inv` holds here too. `NothingMissed` speaks of the moment when nothing is
on its way. What makes it inductive is about the time before: `LastWord`, that
for each node the last record still on its way says whether the node is there;
`TouchedTold`, that what changes while the directory is read is on its way, because the watch
was there first (`StartInv`); and `ViewRight`, that a node with no record on its way is in the view
exactly when it is `Known`: there, and not left out by a listing that failed. The order of the calls in `examples/watch`, first the watch and then the
list, is what `TouchedTold` rests on.

`RemapperProofs`, from `RemapSafety` and the assumptions in `Remapper`, `Device` and
`VirtualDevice`, for any frames, MapFunc, batch, capabilities and queue:

| theorem | states |
|---|---|
| `RemapTypeCorrect` | `[]RemapTypeOK` |
| `GrabbedUntilClose` | `[]GrabbedWhileOpen` |
| `FailuresLeaveNothing` | `[]FailureUndone` |
| `TeardownIsComplete` | `[]TeardownComplete` |
| `QuietAfterTeardown` | `NothingAfterClose` |
| `EndIsClosed` | `[]EndsClosed`, the safety half of `TeardownEnds`: a process that ends because `Run` has returned nil has closed the remapper and the source |
| `OutputUsedRight` | the output is used as `VirtualDevice` lets two goroutines that close and any that write use it (`VP!VirtualSafety`) |
| `StreamKept` | `ImplementsStream`, assuming `MapsToCaps`, if the queue never overflows (`NoOverflow`) |

A step of the program is a step of `Device` and one of `VirtualDevice`, or leaves them alone. What
is proved of those holds here: `RemapInv` begins with the invariants of both. It goes on with which
call each goroutine can be in at each point of `NewRemapper`, `Run` and `Close`: `CloseInv` (one
goroutine in `closeOnce`, and nobody closes before there is something to close), `SrcCalls` and
`OutCalls` (who is in which call of the source and of the output), and what that means for the two:
`GrabInv` (the grab is not there yet, is there, or was given back or went with the device) and
`OutInv` (how far the output is). `SrcEvents` says that the queue holds events of frames that were
made. `TeardownComplete` and `FailureUndone` are about moments after many steps of both devices;
they follow from `GrabInv`, `OutInv` and the invariant of `VirtualDevice`. The end of the process
moves nothing else and nothing moves after it, so each step lemma is about `Work`, the steps of a
process that is there, and `WorkOnly` puts the end in. `EndIsClosed` adds `EndInv`, that the process
ends by one of the three ways of main, and that a file main has closed stays closed
(`SourceStaysClosed`).

`StreamKept` is the refinement. Its invariant, `StreamInv`, says where everything is that was made
and has not come out: the queue holds the events that follow on the first `r` (`Follows`, by their
`Rank`), and what came out of the output together with what is in Run and in its Write (`Flight`) is
what those first `r` are mapped to (`Came`), until a write has failed and Run is over (`Dead`). Each
kind of step has a lemma: a frame that is made adds to the queue, a read moves an event from the
queue into Run, mapping it leaves `Flight` as it is, and a write that succeeds moves its event from
`Flight` to what came out. The theorem has two hypotheses, which the run makes true as well.
`MapsToCaps`: MapFunc gives only keys that the source has or that `WithExtraKeys` added, as the
comment on MapFunc (`remapper.go:47-49`) asks for; the kernel drops others. `NoOverflow`: a frame is
made only when the source's queue has room for it; `remapper_loss` shows that the refinement fails
otherwise.

Some of what is proved there is about recursive functions: `Whole`, which puts the frames one after
the other, and `FromSource`, which filters a sequence. `Induction` has the principle for it without
an operator as parameter: a set with 0, and with n + 1 for each n in it, has all naturals
(`SetInduction`, from the library's `WFMin`); and that a function defined by a first value and a
step from each value to the next exists (`RecursionExists`).

`QueriesProofs` is about operators, for every device, request and size:

| theorem | states |
|---|---|
| `ReadBack` | what evdev writes of a mask into a zeroed buffer is read back as the codes of the mask that fit into what it wrote |
| `HasCodeAgrees` | `HasCode`, which looks at one bit, and `CapableCodes`, which goes through all, agree on every code |
| `RequestKept` | the direction, type, number and size that `ioc` packs are what `Field` takes out |
| `TypesRight`, `PropsRight`, `CodesRight` | `CapableTypes`, `CapableProps`, and `CapableCodes` of every type but EV_SYN, return what the device has |
| `KeyboardRight` | `IsKeyboard` holds for exactly the devices with the three keys |

The first two assume that masks are sets of naturals and that evdev writes no more bytes than
asked for. They rest on `CodeSplits` (a code is one bit of one byte), `BitIsIndex` and
`CodesOfBytes`. The last two rows assume `IsDevice`, that a device has the types, codes and
properties that the kernel's input core lets it have; it is assumed of `Kinds` in `Discovery`. They put the
way together: the request is understood (`Understood`, from `RequestKept`), the longs that evdev writes
hold the whole mask (`LongsHold`, for longs of 4 and of 8 bytes) and the buffer holds the longs.
`RequestKept` says of `half` in `Bits` and `value` in `Field`, two recursive functions, that the
second undoes the first (`FieldKept`, by induction over the width). EV_SYN is left out, as `listing_syn`
shows.

`ListingProofs`, from `ClientsSpec` and the assumptions of `Discovery` and
`ListingClients`, for any paths, kinds of devices, arguments and limits:

| theorem | states |
|---|---|
| `ListTypeCorrect` | `[]ListTypeOK` |
| `NothingStaysOpen` | `[]NothingLeft` |
| `ListIsComplete` | `[]ListComplete` |
| `LsinputShowsTruth` | `[]ShownRight` |
| `MonitorWaits` | `[]WaitsForAll` |

They say something of a few moments only, so `Inv` says which files
are open at every one (`OpenInv`: those of the list being made, with those still to be
asked, or in monitor's loop those still to be started, with those whose goroutine
is reading or about to close), and that `wg` is the number of goroutines that are not
done (`ReaderInv`), so that it is 0 when nobody reads. `LoopInv` has what the loops
go through: no file twice, and none in two lists. `PhaseInv` ties the call to the
program that made it. There is one lemma per action; `MaxFiles` is no restriction, since
the assumption has it be as large as the paths and arguments need. That is enough for
`NothingStaysOpen` and `MonitorWaits`; `SizeInv` adds that Open gives a file only where there is
room for one more.

`ListIsComplete` says what `ListComplete` does of lists whose directory was read to its end, and of
the others that they are in order, of what was asked for, and fail only as the others do; it says
nothing of what they lack. With no descriptor left every list is one of those. It is about what was
the case all through a call, of many steps. `CallInv` says it of
every one of them. `OrderInv`: files were opened in the order of the paths, so each is on one path,
and what is still to come comes after. `FreshInv`: at a path where nothing came or went the device
of the file is there still, and its node readable unless that was changed. `ListedInv`: a node that
was there and readable all along (`OwedPaths`, none if the list was cut) has a file or is among what is still to come, and is on the list
once the call is done. `FailInv`: what is still to come was there when the directory was read, so a
path without a node has been touched, and a call that runs out of files has opened that many
undisturbed paths or ones whose permissions were changed (`PathsCount`). That the directory's paths
come sorted with none left out (`SortedAll`) is an argument about injections into a finite set. Of
keyboards it uses `KeyboardRight`.

`LsinputShowsTruth` has `ShowInv`: each part is blank or true (`PartsInv`), true of a device that is
there and that the loop is past, or past with that part (`StageInv`, `PartsBefore`), and the codes
are of the types that were shown before. That each answer is what the device has is `AnswersRight`
and `IdentityRight`, from the theorems on queries.

`GeneratorProofs`, from `GenSpec` and `HeadersAssumption`, for any set of headers, of any length:

| theorem | states |
|---|---|
| `GenInvariant` | the inductive invariant |
| `GenTypeCorrect` | `[]GenTypeOK` |
| `TablesTrue` | `[]TablesRight` |
| `KeysOnce` | `[]KeysUnique` |
| `NamesLead` | `[]NamesResolve` |
| `AliasesResolve` | every constant of a code, aliases too, is resolved by its name to its value unless the name ends like a limit: what is left of `ConstantsKnown`, which `names_limits` refutes |

The generator works on lists of defines, and all that is said of one is `ListOf(ds, h, I)`: `ds` has
the names and values of the lines in `I`, in the order they stand in. Three lemmas say how lists
grow (`ListOfNone`, `ListOfMore`, `ListOfBoth`), and `SelectedLists`, by induction over the
sequence, that `Selected` makes of a list the list of the lines at these places; from it follow one
lemma for what `collect` keeps (`WantedList`) and one for each filter of `emit` (`OfList`,
`NamedList`, `FirstList`).

The values come first. That there is a function `CValues` at all is a theorem (`CValuesExist`): a
line uses symbols of earlier lines only, so a solution for n lines goes on to the next. `Knows` says
of the symbol table that it has the lines so far that have a value, each with it; then `resolve`,
whose sum modulo 16 bits never wraps here (`ResolveSum`), makes of the next line what C does
(`ResolveRight`), and knows one line more (`KnowsMore`).

`GenInv` ties this to the program: while a header is read, `syms` knows the lines above, `defs` is
the list of those of this header and `order` of those wanted from the header before; afterwards
`order` is the list of `Relevant`, all that `codes.go` is about; and `source` is what `emit` makes
of nothing, or of such an `order`. `TablesRight` speaks of the end only, so it needs all of that at
every line. The tables then follow from the lists: `TableSets` for what is in them, `KeysOfList` for
the keys, where a name is on one line only (`DefinedOnce`) and a value is on one since only the
first is kept (`FirstsDistinct`) or there are no aliases (`LinesDistinct`). `NamesLead` looks things
up in them (`LookUp`): if a code has a name it is the first line's, whose entry in the table of
names is that code's, and if it has none then no line of its type has the value, or there would be a
first (`FirstExists`); a fallback is no name, as no word of a header is "?" (`NoFallback`).

Only model-checked:

* Liveness, for which the prover has no rules: `CloseReturns`, `EventuallyKnown`,
  `ImplementsLiveFeed`, `ProgramStops`, `CloseUnblocks`, `RunStops`, `EventsComeOut`,
  `ProgramEnds` and the first half of `TeardownEnds`. It neither reasons about fairness nor about ENABLED.

## Known limits of the code

What the violated runs do not show:

* A `Close` from another goroutine ends `Events` with nothing in `Errors`, which is never
  closed: a program that ranges over `Events` and then receives from `Errors` as
  `examples/watch` does would wait forever. `ProgramStops` is therefore stated for a
  program that nobody else closes the Watcher of.
* `filepath.Glob` (`discover.go:18`) reports no error of reading `/dev/input`, only one of its pattern.
  With the directory unreadable, or no descriptor left to read it with, `ListDevices` and `ListKeyboards`
  return a short or an empty list and nil, and lsinput says that there are no accessible devices. That
  is at odds with the comments: `ListDevicePaths` "returns the paths of all evdev device nodes"
  (`discover.go:16`), and of `ListDevices` only a permission error of a device is to be passed over
  while "any other error aborts" (`discover.go:26-31`). `ListComplete` has `cut` as its exception for
  that; without it TLC finds the empty list at once, `FdLimits` having 0. A program that watches and
  then lists misses the nodes left out until something happens to them (`unlisted`).
* `examples/remap` calls os.Exit when `Run` returns an error (`main.go:57-60`), as it does if Ctrl-C closes
  the output while `Run` writes: the deferred closes do not run, and those of the Ctrl-C goroutine are
  cut off. Only the kernel's closing of descriptors then gives the grab back.
* When the directory itself goes, so does the watch; its record has no node's name, `emit` passes over
  it, and poll sleeps on.
* `Remapper.Close` releases the grab before it destroys the output, with `Run` still
  reading, so for a moment an event can reach the rest of the system both ways. What was queued
  before the grab does as well.

## Not modelled

* The kernel beyond what the code relies on: evdev, uinput, inotify and os.File are
  modelled from how the code uses them and marked external in the map. Unplugging is
  the kernel's `plugged = "out"`: a read then ends in io.EOF (as the comment on
  `ReadOne` says) or ENODEV.
* `examples/vkbd`: one goroutine that creates a VirtualDevice, writes and closes it. The
  calls are in `VirtualDevice`; their order has nothing to go wrong.
* Of `codes.go`, the list of `EV_KEY` constants but for the few the code names; of the
  generator, the text and layout of what it writes, and the splitting of a line into words.
* Headers that are not like the kernel's (`HeadersAssumption`). Sums beyond 16 bits are in the model
  (`resolve`) but in no header. An alias among the `EV_`, `BUS_` or `INPUT_PROP_` names, for which
  emit keeps no first name, would be refused by the Go compiler as a key that
  occurs twice; the kernel has none.
* An event type above EV_MAX, given to `CapableCodes` or `HasCode` by a caller, makes another
  request of EVIOCGBIT; nothing in the package passes one. Types up to EV_MAX are all that the model and
  the theorems on queries cover.
* Big-endian machines, for the bitmasks (see Queries).
* Strings and formatting (`InputEvent.String`, what the examples print).
* Event values and timestamps: an event is known by its frame and kind. Of an event written
  to the output the type and code matter, which decide whether the kernel takes it.

## Plan

1. `Watcher`, `HotplugFeed`, `HotplugClient`, `WatcherProofs`: done.
2. `Device`, `VirtualDevice`, `RemapStream`, `Remapper`: done and checked.
3. `DeviceProofs`, `VirtualDeviceProofs`: done.
4. `Discovery`, `ListingClients`, `ListingProofs`: done.
5. `Queries`, `QueriesProofs`, `Generator`, `Codes`, `Names`: done.
6. The client in `WatcherProofs`, `RemapperProofs`, `Induction`, and the completeness of lists and
   answers in `ListingProofs` and `QueriesProofs`: done.
7. `GeneratorProofs`, by induction over the lines of headers: done. Every safety property of
   the runs is now a theorem.

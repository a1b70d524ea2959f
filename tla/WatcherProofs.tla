--------------------------- MODULE WatcherProofs ---------------------------
(***************************************************************************)
(* Proofs about Watcher and about HotplugClient, which runs a program on   *)
(* it, for any nodes, callers of Close, buffer size, queue limit and set   *)
(* of failing system calls.                                                *)
(*                                                                         *)
(* None of the invariants is inductive alone: that a descriptor is open    *)
(* when the goroutine uses it depends on Close waiting for done, which     *)
(* depends on who is inside closeOnce.  Inv says how the goroutine, the    *)
(* callers of Close, the descriptors and the channels go together.  It     *)
(* speaks of Watcher only and of any behaviour of it.                      *)
(***************************************************************************)
EXTENDS HotplugClient, SequenceTheorems, TLAPS

Inside == {"quit", "wake", "await", "release"}
Ending == {"close_events", "close_done", "exited"}

\* closeOnce: nobody is past it while fresh, one caller is inside while
\* running, nobody once complete.
OnceInv ==
  /\ ~Started => once = "fresh" /\ \A c \in Closers : closer[c] = "idle"
  /\ once = "fresh" => quit = "open" /\ \A c \in Closers : closer[c] \in {"idle", "once"}
  /\ once = "running" => \A c \in Closers : closer[c] # "returned"
  /\ once = "complete" => \A c \in Closers : closer[c] \notin Inside
  /\ \A c, d \in Closers : closer[c] \in Inside /\ closer[d] \in Inside => c = d

\* The one inside closes quit before it wakes the goroutine, and gets to
\* release only when the goroutine is gone.
CloseInv ==
  /\ pipe > 0 => quit = "closed"
  /\ \A c \in Closers : closer[c] \in Inside \ {"quit"} => quit = "closed"
  /\ \A c \in Closers : closer[c] = "release" => done = "closed"
  /\ done = "closed" <=> pc = "exited"
  /\ events = "open" <=> pc \notin {"close_done", "exited"}

FdInv ==
  /\ pc = "inotify_init" => \A f \in Fds : fds[f] = "none"
  /\ pc \in {"add_watch", "pipe"} =>
       fds["ifd"] = "open" /\ fds["wakeR"] = "none" /\ fds["wakeW"] = "none"
  /\ pc = "refused" => \A f \in Fds : fds[f] # "open"
  /\ Started /\ once # "complete" => \A f \in Fds : fds[f] = "open"
  /\ once = "complete" => pc = "exited" /\ \A f \in Fds : fds[f] = "closed"

ErrInv ==
  /\ pc \notin Ending => errs = 0 /\ errsTaken = 0
  /\ errs + errsTaken <= 1
  /\ pc \in Ending /\ quit = "open" => errs + errsTaken = 1

\* The cursors, and what has been reported at each of their positions.
BufferInv ==
  /\ emitPos <= readPos
  /\ pc # "emit" /\ pc \notin Ending => emitPos = readPos
  /\ reported = {i \in 1..emitPos : Relevant(log[i])}

ControlInv == OnceInv /\ CloseInv /\ FdInv /\ ErrInv
Inv == TypeOK /\ ControlInv /\ BufferInv
-----------------------------------------------------------------------------
(* Type correctness.                                                       *)

\* The queue stays as it is or takes one more record.
Grows == UNCHANGED log \/ \E e \in Records : log' = Append(log, e)

\* What a change of the directory leaves in the queue: the records that were
\* there and at most one more.
LEMMA EnqueueGrows ==
  ASSUME TypeOK, NEW r \in Records, Enqueue(r)
  PROVE  /\ Grows
         /\ log' \in Seq(Records)
         /\ missed' \in Nat
         /\ Len(log') >= Len(log)
         /\ \A i \in 1..Len(log) : log'[i] = log[i]
<1>1. [mask |-> "Q_OVERFLOW", name |-> NoName] \in Records
  BY DEF Records
<1>2. log \in Seq(Records) /\ missed \in Nat
  BY DEF TypeOK
<1>3. ASSUME NEW e \in Records, log' = Append(log, e)
      PROVE  /\ log' \in Seq(Records)
             /\ Len(log') >= Len(log)
             /\ \A i \in 1..Len(log) : log'[i] = log[i]
  BY <1>2, <1>3
<1>4. missed' \in Nat
  BY <1>2 DEF Enqueue
<1>5. Grows
  BY <1>1 DEF Enqueue, Grows
<1>6. CASE UNCHANGED log
  BY <1>2, <1>4, <1>5, <1>6
<1>7. QED
  BY <1>3, <1>4, <1>5, <1>6 DEF Grows

\* The kernel moves nothing but the directory, the watch and the queue, and
\* the queue only grows.
LEMMA KernelStep ==
  ASSUME TypeOK, Kernel
  PROVE  /\ present' \subseteq Names
         /\ changes' \in Nat
         /\ watch' \in {"none", "live", "dropped"}
         /\ Grows
         /\ log' \in Seq(Records)
         /\ missed' \in Nat
         /\ Len(log') >= Len(log)
         /\ \A i \in 1..Len(log) : log'[i] = log[i]
         /\ UNCHANGED <<loopVars, closeVars>>
<1>1. CASE DirVanishes
  <2>1. [mask |-> "IGNORED", name |-> NoName] \in Records
    BY DEF Records
  <2>2. QED
    BY <1>1, <2>1, EnqueueGrows DEF DirVanishes, TypeOK
<1>2. ASSUME NEW n \in Names, NEW mask \in WatchMask, Notify(mask, n)
      PROVE  /\ Grows
             /\ log' \in Seq(Records)
             /\ missed' \in Nat
             /\ Len(log') >= Len(log)
             /\ \A i \in 1..Len(log) : log'[i] = log[i]
  <2>1. [mask |-> mask, name |-> n] \in Records
    BY DEF Records
  <2>2. QED
    BY <1>2, <2>1, EnqueueGrows DEF Notify, TypeOK, Grows
<1>3. ASSUME NEW n \in Names, Appear(n) \/ Disappear(n)
      PROVE  /\ present' \subseteq Names
             /\ changes' \in Nat
             /\ \E mask \in WatchMask : Notify(mask, n)
             /\ UNCHANGED <<watch, loopVars, closeVars>>
  BY <1>3 DEF Appear, Disappear, WatchMask, TypeOK
<1>4. QED
  BY <1>1, <1>2, <1>3 DEF Kernel, TypeOK

LEMMA TypeInit == Init => TypeOK
BY DEF Init, TypeOK, Constructing, Channel

LEMMA TypeStep == TypeOK /\ [Next]_vars => TypeOK'
<1> SUFFICES ASSUME TypeOK, [Next]_vars
             PROVE  TypeOK'
  OBVIOUS
<1>1. CASE Kernel
  <2>1. readPos' \in 0..Len(log')
    <3>1. readPos \in 0..Len(log) /\ Len(log) \in Nat
      BY DEF TypeOK
    <3>2. readPos' = readPos /\ Len(log') >= Len(log) /\ Len(log') \in Nat
      BY <1>1, KernelStep DEF loopVars, bufferVars
    <3>3. QED
      BY <3>1, <3>2
  <2>2. QED
    BY <1>1, <2>1, KernelStep DEF TypeOK, loopVars, closeVars, bufferVars, chanVars
<1>2. CASE newWatcher
  BY <1>2 DEF newWatcher, InotifyInit, AddWatch, Pipe2, Goto, Constructing, TypeOK,
              Fds, kernelVars, bufferVars, chanVars
<1>3. CASE LoopStep
  <2>1. CASE Read
    BY <2>1, LimitAssumption DEF Read, Goto, TypeOK, Channel, kernelVars, closeVars, chanVars
  <2>2. CASE EmitSkip
    BY <2>2 DEF EmitSkip, TypeOK, Channel, kernelVars, closeVars, chanVars
  <2>3. CASE Fail
    BY <2>3 DEF Fail, Goto, TypeOK, kernelVars, closeVars, bufferVars
  <2>6. CASE CloseEvents
    BY <2>6 DEF CloseEvents, Goto, TypeOK, Channel, kernelVars, closeVars, bufferVars
  <2>7. CASE CloseDone
    BY <2>7 DEF CloseDone, Goto, TypeOK, Channel, kernelVars, closeVars, bufferVars
  <2>4. ASSUME NEW to \in {"poll", "read", "fail", "close_events"},
               NEW from, Jump(from, to)
        PROVE  TypeOK'
    BY <2>4 DEF Jump, Goto, TypeOK, Channel, kernelVars, closeVars, bufferVars, chanVars
  <2>5. QED
    BY <1>3, <2>1, <2>2, <2>3, <2>4, <2>6, <2>7
       DEF LoopStep, LoopRuns, PollWake, PollRecords, PollFails, ReadAgain, ReadFails, EmitQuit,
           EmitDone
<1>4. CASE EmitSend
  BY <1>4 DEF EmitSend, TypeOK, Channel, kernelVars, closeVars, chanVars
<1>5. CASE ReceiveErr
  BY <1>5 DEF ReceiveErr, TypeOK, Channel, kernelVars, closeVars, bufferVars
<1>6. ASSUME NEW c \in Closers, CallClose(c) \/ CloseStep(c)
      PROVE  TypeOK'
  <2>1. CASE CloseRelease(c)
    BY <2>1 DEF CloseRelease, FirstErr, Step, TypeOK, Channel, Fds, loopVars, bufferVars, chanVars
  <2>2. ASSUME NEW from, NEW to \in {"once", "quit", "wake", "await", "release", "returned"},
               Step(c, from, to)
        PROVE  closer' \in [Closers -> {"idle", "once", "quit", "wake", "await", "release",
                                        "returned"}]
    BY <2>2 DEF Step, TypeOK
  <2>3. CASE CallClose(c)
    BY <2>2, <2>3 DEF CallClose, TypeOK, kernelVars, loopVars, bufferVars, chanVars
  <2>4. CASE OnceEnter(c)
    BY <2>2, <2>4 DEF OnceEnter, TypeOK, kernelVars, loopVars, bufferVars, chanVars
  <2>5. CASE OncePass(c)
    BY <2>2, <2>5 DEF OncePass, TypeOK, kernelVars, loopVars, bufferVars, chanVars
  <2>6. CASE CloseQuit(c)
    BY <2>2, <2>6 DEF CloseQuit, TypeOK, Channel, kernelVars, loopVars, bufferVars, chanVars
  <2>7. CASE CloseWake(c)
    BY <2>2, <2>7 DEF CloseWake, TypeOK, kernelVars, loopVars, bufferVars, chanVars
  <2>8. CASE CloseAwait(c)
    BY <2>2, <2>8 DEF CloseAwait, TypeOK, kernelVars, loopVars, bufferVars, chanVars
  <2>9. QED
    BY <1>6, <2>1, <2>3, <2>4, <2>5, <2>6, <2>7, <2>8 DEF CloseStep
<1>7. CASE UNCHANGED vars
  BY <1>7 DEF vars, kernelVars, loopVars, closeVars, bufferVars, chanVars, TypeOK, Channel
<1>8. QED
  BY <1>1, <1>2, <1>3, <1>4, <1>5, <1>6, <1>7 DEF Next

\* Every reachable state of the Watcher is well typed.
THEOREM TypeCorrect == Spec => []TypeOK
BY TypeInit, TypeStep, PTL DEF Spec
-----------------------------------------------------------------------------
(* The control invariant.                                                  *)

controlVars == <<pc, chanVars, closeVars>>
Running == {"poll", "read", "emit", "fail"}

LEMMA ControlInit == Init => ControlInv
BY DEF Init, ControlInv, OnceInv, CloseInv, FdInv, ErrInv, Started, Constructing, Inside,
       Ending, Fds

LEMMA ControlFrame ==
  ASSUME ControlInv, UNCHANGED controlVars
  PROVE  ControlInv'
BY DEF controlVars, chanVars, closeVars, ControlInv, OnceInv, CloseInv, FdInv, ErrInv,
       Started

\* A step of the constructor: nobody can have called Close yet.
LEMMA ControlConstruct ==
  ASSUME TypeOK, ControlInv, newWatcher
  PROVE  ControlInv'
<1>1. UNCHANGED <<pipe, quit, once, closer, events, errs, errsTaken, done>>
  BY DEF newWatcher, InotifyInit, AddWatch, Pipe2, chanVars
<1>2. pc \in {"inotify_init", "add_watch", "pipe"}
      /\ pc' \in {"add_watch", "pipe", "refused", "poll"}
  BY DEF newWatcher, InotifyInit, AddWatch, Pipe2, Goto
<1>3. OnceInv'
  BY <1>1, <1>2 DEF ControlInv, OnceInv, Started, Constructing
<1>4. CloseInv'
  BY <1>1, <1>2 DEF ControlInv, CloseInv
<1>5. FdInv'
  BY <1>1, <1>2 DEF ControlInv, FdInv, OnceInv, newWatcher, InotifyInit, AddWatch, Pipe2,
                    Goto, Started, Constructing, Fds, TypeOK
<1>6. ErrInv'
  BY <1>1, <1>2 DEF ControlInv, ErrInv, Ending
<1>7. QED
  BY <1>3, <1>4, <1>5, <1>6 DEF ControlInv

\* The goroutine moves on, and neither stops nor touches a channel.
LEMMA ControlRun ==
  ASSUME TypeOK, ControlInv, pc \in Running, pc' \in Running, UNCHANGED <<chanVars, closeVars>>
  PROVE  ControlInv'
<1>1. OnceInv' /\ CloseInv'
  BY DEF ControlInv, OnceInv, CloseInv, Started, Constructing, Running, chanVars, closeVars
<1>2. FdInv' /\ ErrInv'
  BY DEF ControlInv, FdInv, ErrInv, Started, Constructing, Running, Ending, chanVars, closeVars
<1>3. QED
  BY <1>1, <1>2 DEF ControlInv

\* The goroutine leaves its loop with quit closed or with an error sent.
LEMMA ControlLeave ==
  ASSUME TypeOK, ControlInv, pc \in Running, pc' = "close_events",
         UNCHANGED <<events, errsTaken, done, closeVars>>,
         \/ quit = "closed" /\ UNCHANGED errs
         \/ errs' = 1
  PROVE  ControlInv'
<1>1. OnceInv' /\ CloseInv'
  BY DEF ControlInv, OnceInv, CloseInv, Started, Constructing, Running, closeVars
<1>2. FdInv'
  BY DEF ControlInv, FdInv, Started, Constructing, Running, closeVars
<1>3. ErrInv'
  BY DEF ControlInv, ErrInv, Running, Ending, closeVars
<1>4. QED
  BY <1>1, <1>2, <1>3 DEF ControlInv

LEMMA ControlLoop ==
  ASSUME TypeOK, ControlInv, LoopStep
  PROVE  ControlInv'
<1>1. CASE PollRecords \/ ReadAgain \/ EmitDone \/ PollFails \/ ReadFails
  BY <1>1, ControlRun DEF PollRecords, ReadAgain, EmitDone, PollFails, ReadFails, Jump, Goto,
                          Running
<1>2. CASE Read
  BY <1>2, ControlRun DEF Read, Goto, Running
<1>3. CASE EmitSkip
  BY <1>3, ControlFrame DEF EmitSkip, controlVars
<1>4. CASE PollWake
  <2>1. quit = "closed"
    BY <1>4 DEF PollWake, ControlInv, CloseInv
  <2>2. QED
    BY <1>4, <2>1, ControlLeave DEF PollWake, Jump, Goto, Running, chanVars
<1>5. CASE EmitQuit
  BY <1>5, ControlLeave DEF EmitQuit, Jump, Goto, Running, chanVars
<1>6. CASE Fail
  <2>1. errs' = 1
    BY <1>6 DEF Fail, Goto, ControlInv, ErrInv, Ending
  <2>2. QED
    BY <1>6, <2>1, ControlLeave DEF Fail, Goto, Running, chanVars
<1>7. CASE CloseEvents
  <2>1. OnceInv' /\ FdInv'
    BY <1>7 DEF CloseEvents, Goto, ControlInv, OnceInv, FdInv, Started, Constructing, closeVars
  <2>2. CloseInv' /\ ErrInv'
    BY <1>7 DEF CloseEvents, Goto, ControlInv, CloseInv, ErrInv, Ending, closeVars
  <2>3. QED
    BY <2>1, <2>2 DEF ControlInv
<1>8. CASE CloseDone
  <2>1. OnceInv' /\ FdInv'
    BY <1>8 DEF CloseDone, Goto, ControlInv, OnceInv, FdInv, Started, Constructing, closeVars
  <2>2. CloseInv' /\ ErrInv'
    BY <1>8 DEF CloseDone, Goto, ControlInv, CloseInv, ErrInv, Ending, closeVars
  <2>3. QED
    BY <2>1, <2>2 DEF ControlInv
<1>9. QED
  BY <1>1, <1>2, <1>3, <1>4, <1>5, <1>6, <1>7, <1>8 DEF LoopStep, LoopRuns

\* Only one caller is inside closeOnce, and it closes the descriptors only
\* after done.
LEMMA ControlClose ==
  ASSUME TypeOK, ControlInv, NEW c \in Closers, CallClose(c) \/ CloseStep(c)
  PROVE  ControlInv'
<1> USE DEF ControlInv
<1>1. ASSUME NEW from, NEW to, Step(c, from, to)
      PROVE  /\ closer[c] = from /\ closer'[c] = to
             /\ \A d \in Closers : d # c => closer'[d] = closer[d]
  BY <1>1 DEF Step, TypeOK
<1>2. UNCHANGED <<pc, chanVars>>
  BY DEF CallClose, CloseStep, OnceEnter, OncePass, CloseQuit, CloseWake, CloseAwait,
         CloseRelease, loopVars
<1>3. Started
  BY <1>1 DEF CallClose, CloseStep, OnceEnter, OncePass, CloseQuit, CloseWake, CloseAwait,
              CloseRelease, OnceInv
<1>4. Started'
  BY <1>2, <1>3 DEF Started
<1>5. CASE CallClose(c)
  <2>1. OnceInv'
    BY <1>1, <1>4, <1>5 DEF CallClose, OnceInv, Inside
  <2>2. CloseInv' /\ FdInv' /\ ErrInv'
    BY <1>1, <1>2, <1>4, <1>5 DEF CallClose, CloseInv, FdInv, ErrInv, Inside, Started,
                                      chanVars
  <2>3. QED
    BY <2>1, <2>2
<1>6. CASE OnceEnter(c)
  <2>1. OnceInv'
    BY <1>1, <1>4, <1>6 DEF OnceEnter, OnceInv, Inside
  <2>2. CloseInv' /\ FdInv' /\ ErrInv'
    BY <1>1, <1>2, <1>4, <1>6 DEF OnceEnter, CloseInv, FdInv, ErrInv, Inside, Started,
                                      chanVars
  <2>3. QED
    BY <2>1, <2>2
<1>7. CASE OncePass(c)
  <2>1. OnceInv'
    BY <1>1, <1>4, <1>7 DEF OncePass, OnceInv, Inside
  <2>2. CloseInv' /\ FdInv' /\ ErrInv'
    BY <1>1, <1>2, <1>4, <1>7 DEF OncePass, CloseInv, FdInv, ErrInv, Inside, Started,
                                      chanVars
  <2>3. QED
    BY <2>1, <2>2
<1>8. ASSUME closer[c] \in Inside
      PROVE  once = "running"
  BY <1>8 DEF OnceInv, TypeOK, Inside
<1>9. CASE CloseQuit(c)
  <2>1. OnceInv'
    BY <1>1, <1>4, <1>8, <1>9 DEF CloseQuit, OnceInv, Inside
  <2>2. CloseInv' /\ FdInv' /\ ErrInv'
    BY <1>1, <1>2, <1>4, <1>9 DEF CloseQuit, CloseInv, FdInv, ErrInv, Inside, Started,
                                      chanVars
  <2>3. QED
    BY <2>1, <2>2
<1>10. CASE CloseWake(c)
  <2>1. OnceInv'
    BY <1>1, <1>4, <1>8, <1>10 DEF CloseWake, OnceInv, Inside
  <2>2. CloseInv' /\ FdInv' /\ ErrInv'
    BY <1>1, <1>2, <1>4, <1>10 DEF CloseWake, CloseInv, FdInv, ErrInv, Inside, Started,
                                      chanVars
  <2>3. QED
    BY <2>1, <2>2
<1>11. CASE CloseAwait(c)
  <2>1. OnceInv'
    BY <1>1, <1>4, <1>8, <1>11 DEF CloseAwait, OnceInv, Inside
  <2>2. CloseInv' /\ FdInv' /\ ErrInv'
    BY <1>1, <1>2, <1>4, <1>11 DEF CloseAwait, CloseInv, FdInv, ErrInv, Inside, Started,
                                      chanVars
  <2>3. QED
    BY <2>1, <2>2
<1>12. CASE CloseRelease(c)
  <2>1. pc = "exited"
    BY <1>1, <1>12 DEF CloseRelease, CloseInv
  <2>2. OnceInv'
    BY <1>1, <1>4, <1>8, <1>12 DEF CloseRelease, OnceInv, Inside
  <2>3. CloseInv' /\ FdInv' /\ ErrInv'
    BY <1>1, <1>2, <1>4, <1>12, <2>1 DEF CloseRelease, CloseInv, FdInv, ErrInv, Inside, Started,
                                      chanVars
  <2>4. QED
    BY <2>2, <2>3
<1>13. QED
  BY <1>5, <1>6, <1>7, <1>9, <1>10, <1>11, <1>12 DEF CloseStep

LEMMA ControlStep == TypeOK /\ ControlInv /\ [Next]_vars => ControlInv'
<1> SUFFICES ASSUME TypeOK, ControlInv, [Next]_vars
             PROVE  ControlInv'
  OBVIOUS
<1>1. CASE Kernel
  BY <1>1, KernelStep, ControlFrame DEF controlVars, loopVars
<1>2. CASE newWatcher
  BY <1>2, ControlConstruct
<1>3. CASE LoopStep
  BY <1>3, ControlLoop
<1>4. CASE EmitSend
  BY <1>4, ControlFrame DEF EmitSend, controlVars
<1>5. CASE ReceiveErr
  BY <1>5 DEF ReceiveErr, ControlInv, OnceInv, CloseInv, FdInv, ErrInv, Started, TypeOK,
              closeVars
<1>6. ASSUME NEW c \in Closers, CallClose(c) \/ CloseStep(c)
      PROVE  ControlInv'
  BY <1>6, ControlClose
<1>7. CASE UNCHANGED vars
  BY <1>7, ControlFrame DEF vars, loopVars, controlVars
<1>8. QED
  BY <1>1, <1>2, <1>3, <1>4, <1>5, <1>6, <1>7 DEF Next
-----------------------------------------------------------------------------
(* The buffer invariant.                                                   *)

LEMMA BufferInit == Init => BufferInv
BY DEF Init, BufferInv, Ending

\* The queue may grow while nothing of the buffer moves.
LEMMA BufferFrame ==
  ASSUME TypeOK, BufferInv, UNCHANGED bufferVars,
         log' \in Seq(Records), Len(log') >= Len(log),
         \A i \in 1..Len(log) : log'[i] = log[i],
         \/ UNCHANGED pc
         \/ emitPos = readPos
         \/ pc' = "emit" \/ pc' \in Ending
  PROVE  BufferInv'
<1>1. emitPos \in Nat /\ readPos \in 0..Len(log) /\ Len(log) \in Nat
  BY DEF TypeOK
<1>2. emitPos' <= readPos'
  BY DEF BufferInv, bufferVars
<1>3. pc' # "emit" /\ pc' \notin Ending => emitPos' = readPos'
  BY DEF BufferInv, bufferVars
<1>4. \A i \in 1..emitPos : log'[i] = log[i]
  BY <1>1 DEF BufferInv
<1>5. reported' = {i \in 1..emitPos' : Relevant(log'[i])}
  BY <1>4 DEF BufferInv, bufferVars
<1>6. QED
  BY <1>2, <1>3, <1>5 DEF BufferInv

LEMMA BufferStep == TypeOK /\ BufferInv /\ [Next]_vars => BufferInv'
<1> SUFFICES ASSUME TypeOK, BufferInv, [Next]_vars
             PROVE  BufferInv'
  OBVIOUS
<1>1. emitPos \in Nat /\ readPos \in 0..Len(log) /\ log \in Seq(Records) /\ Len(log) \in Nat
  BY DEF TypeOK
<1>2. ASSUME UNCHANGED <<log, bufferVars>>,
             \/ UNCHANGED pc
             \/ emitPos = readPos
             \/ pc' = "emit" \/ pc' \in Ending
      PROVE  BufferInv'
  BY <1>1, <1>2, BufferFrame
<1>3. CASE Kernel
  BY <1>3, KernelStep, BufferFrame DEF loopVars
<1>4. CASE newWatcher
  <2>1. emitPos = readPos /\ UNCHANGED <<log, bufferVars>>
    BY <1>4 DEF newWatcher, InotifyInit, AddWatch, Pipe2, Goto, BufferInv, Ending, kernelVars
  <2>2. QED
    BY <1>2, <2>1
<1>5. CASE Read
  <2>1. emitPos = readPos
    BY <1>5 DEF Read, Goto, BufferInv, Ending
  <2>2. readPos' \in Nat /\ readPos <= readPos' /\ readPos' <= Len(log)
    BY <1>1, <1>5, LimitAssumption DEF Read, BufferInv
  <2>3. QED
    BY <1>1, <1>5, <2>1, <2>2 DEF Read, Goto, BufferInv, Ending, kernelVars
<1>6. ASSUME Emitting, UNCHANGED <<log, pc, readPos>>, emitPos' = emitPos + 1,
             \/ ~Relevant(Record) /\ UNCHANGED reported
             \/ Relevant(Record) /\ reported' = reported \cup {emitPos + 1}
      PROVE  BufferInv'
  <2>1. 1..emitPos' = 1..emitPos \cup {emitPos + 1}
    BY <1>1, <1>6
  <2>2. reported' = {i \in 1..emitPos' : Relevant(log'[i])}
    BY <1>1, <1>6, <2>1 DEF BufferInv, Record
  <2>3. QED
    BY <1>1, <1>6, <2>2 DEF BufferInv, Emitting, Ending
<1>7. CASE EmitSkip
  BY <1>6, <1>7 DEF EmitSkip, kernelVars
<1>8. CASE EmitSend
  BY <1>6, <1>8 DEF EmitSend, kernelVars
<1>9. CASE PollWake \/ PollRecords \/ PollFails \/ ReadAgain \/ ReadFails \/ EmitQuit \/ EmitDone
  BY <1>2, <1>9 DEF PollWake, PollRecords, PollFails, ReadAgain, ReadFails, EmitQuit, EmitDone,
                    Jump, Goto, BufferInv, Ending, kernelVars
<1>10. CASE Fail \/ CloseEvents \/ CloseDone
  BY <1>2, <1>10 DEF Fail, CloseEvents, CloseDone, Goto, Ending, kernelVars
<1>11. CASE ReceiveErr
  BY <1>2, <1>11 DEF ReceiveErr, kernelVars
<1>12. ASSUME NEW c \in Closers, CallClose(c) \/ CloseStep(c)
       PROVE  BufferInv'
  <2>1. UNCHANGED <<log, pc, bufferVars>>
    BY <1>12 DEF CallClose, CloseStep, OnceEnter, OncePass, CloseQuit, CloseWake, CloseAwait,
                 CloseRelease, kernelVars, loopVars
  <2>2. QED
    BY <1>2, <2>1
<1>13. CASE UNCHANGED vars
  BY <1>2, <1>13 DEF vars, kernelVars, loopVars
<1>14. QED
  BY <1>3, <1>4, <1>5, <1>7, <1>8, <1>9, <1>10, <1>11, <1>12, <1>13 DEF Next, LoopStep, LoopRuns
-----------------------------------------------------------------------------
(* The theorems.                                                           *)

LEMMA Invariance == Spec => []Inv
<1>1. Init => Inv
  BY TypeInit, ControlInit, BufferInit DEF Inv
<1>2. Inv /\ [Next]_vars => Inv'
  BY TypeStep, ControlStep, BufferStep DEF Inv
<1>3. QED
  BY <1>1, <1>2, PTL DEF Spec

\* Neither the goroutine nor Close uses a descriptor that Close, or a failing
\* constructor, has closed (watch.go:101-110).
THEOREM DescriptorsFresh == Spec => []NoStaleDescriptor
<1>1. Inv => NoStaleDescriptor
  <2> SUFFICES ASSUME Inv
               PROVE  NoStaleDescriptor
    OBVIOUS
  <2>1. pc \in {"poll", "read"} => fds["ifd"] = "open" /\ fds["wakeR"] = "open"
    BY DEF Inv, ControlInv, FdInv, Started, Constructing, Fds
  <2>2. ASSUME NEW c \in Closers, closer[c] \in {"wake", "release"}
        PROVE  fds["wakeW"] = "open"
    <3>1. once = "running"
      BY <2>2 DEF Inv, TypeOK, ControlInv, OnceInv, Inside
    <3>2. Started
      BY <3>1 DEF Inv, ControlInv, OnceInv
    <3>3. QED
      BY <3>1, <3>2 DEF Inv, ControlInv, FdInv, Fds
  <2>3. QED
    BY <2>1, <2>2 DEF NoStaleDescriptor
<1>2. QED
  BY Invariance, <1>1, PTL

\* Once a Close has returned, to whichever caller, it is over.
LEMMA ReturnedIsOver ==
  ASSUME Inv, NEW c \in Closers, closer[c] = "returned"
  PROVE  /\ \A f \in Fds : fds[f] = "closed"
         /\ pc = "exited"
         /\ events = "closed"
<1>1. once = "complete"
  BY DEF Inv, TypeOK, ControlInv, OnceInv
<1>2. QED
  BY <1>1 DEF Inv, TypeOK, Channel, ControlInv, FdInv, CloseInv

\* A constructor that fails and a Close that returns leave no descriptor open
\* and no goroutine behind (watch.go:65-78, 101-110).
THEOREM NothingLeaks == Spec => []NoLeak
<1>1. Inv => NoLeak
  BY ReturnedIsOver DEF NoLeak, Inv, ControlInv, FdInv
<1>2. QED
  BY Invariance, <1>1, PTL

\* Errors gets at most one error, and has it before Events is closed unless
\* Close was called (watch.go:97-98).
THEOREM ErrorFirst == Spec => []ErrorBeforeEnd
<1>1. Inv => ErrorBeforeEnd
  BY DEF ErrorBeforeEnd, Inv, TypeOK, Channel, ControlInv, ErrInv, CloseInv, Ending
<1>2. QED
  BY Invariance, <1>1, PTL

\* No event reaches the consumer and no error is raised after a Close has
\* returned (watch.go:101-110).
THEOREM SilenceAfterClose == Spec => SilentAfterClose
<1>1. ASSUME Inv, [Next]_vars, NEW c \in Closers, closer[c] = "returned"
      PROVE  UNCHANGED reported /\ errs' + errsTaken' = errs + errsTaken
  <2>1. pc = "exited"
    BY <1>1, ReturnedIsOver
  <2>2. CASE ReceiveErr
    BY <1>1, <2>2 DEF ReceiveErr, bufferVars, Inv, TypeOK
  <2>3. CASE Kernel
    BY <1>1, <2>3, KernelStep DEF Inv, loopVars, bufferVars, chanVars
  <2>4. CASE \E d \in Closers : CallClose(d) \/ CloseStep(d)
    BY <2>4 DEF CallClose, CloseStep, OnceEnter, OncePass, CloseQuit, CloseWake, CloseAwait,
                CloseRelease, loopVars, bufferVars, chanVars
  <2>5. CASE UNCHANGED vars
    BY <2>5 DEF vars, loopVars, bufferVars, chanVars
  <2>6. ~(newWatcher \/ LoopStep \/ EmitSend)
    BY <2>1 DEF newWatcher, InotifyInit, AddWatch, Pipe2, LoopStep, LoopRuns, PollWake, PollRecords,
                PollFails, Read, ReadAgain, ReadFails, EmitSkip, EmitSend, EmitQuit, EmitDone,
                Emitting, Fail, CloseEvents, CloseDone, Jump, Goto
  <2>7. QED
    BY <1>1, <2>2, <2>3, <2>4, <2>5, <2>6 DEF Next
<1>2. Inv /\ [Next]_vars =>
        [(\E c \in Closers : closer[c] = "returned")
           => UNCHANGED reported /\ errs' + errsTaken' = errs + errsTaken]_vars
  BY <1>1
<1>3. QED
  BY Invariance, <1>2, PTL DEF Spec, SilentAfterClose
-----------------------------------------------------------------------------
(* The Watcher implements the feed.                                        *)

FeedEvents == ({"DeviceAdded", "DeviceRemoved"} \X Nodes) \cup {<<"ignored", NoName>>}

\* A record is noise in the feed exactly when emit passes it over.
LEMMA EventOfType ==
  ASSUME NEW r
  PROVE  /\ EventOf(r) \in FeedEvents
         /\ EventOf(r) # <<"ignored", NoName>> <=> Relevant(r)
BY DEF FeedEvents, EventOf, Relevant, DeviceAction

\* A new record of the queue is one more change of the feed, and changes
\* nothing of what was there.
LEMMA FeedGrows ==
  ASSUME log \in Seq(Records), NEW e \in Records, log' = Append(log, e)
  PROVE  [i \in DOMAIN log' |-> EventOf(log'[i])]
           = Append([i \in DOMAIN log |-> EventOf(log[i])], EventOf(e))
<1> DEFINE f == [i \in DOMAIN log |-> EventOf(log[i])]
           g == [i \in DOMAIN log' |-> EventOf(log'[i])]
<1>1. Len(log) \in Nat /\ DOMAIN log = 1..Len(log)
  BY LenProperties
<1>2. log' \in Seq(Records) /\ Len(log') = Len(log) + 1 /\ DOMAIN log' = 1..(Len(log) + 1)
  OBVIOUS
<1>3. \A i \in 1..(Len(log) + 1) :
        log'[i] = IF i = Len(log) + 1 THEN e ELSE log[i]
  OBVIOUS
<1>4. f \in Seq(FeedEvents) /\ Len(f) = Len(log)
  <2>1. f \in [1..Len(log) -> FeedEvents]
    BY <1>1, EventOfType
  <2>2. f \in Seq(FeedEvents)
    BY <1>1, <2>1, SeqDef
  <2>3. QED
    BY <1>1, <2>1, <2>2
<1>5. g \in Seq(FeedEvents) /\ Len(g) = Len(log) + 1
  <2>1. g \in [1..(Len(log) + 1) -> FeedEvents]
    BY <1>2, EventOfType
  <2>2. g \in Seq(FeedEvents)
    BY <1>1, <2>1, SeqDef
  <2>3. QED
    BY <1>1, <2>1, <2>2
<1>6. Append(f, EventOf(e)) \in Seq(FeedEvents)
      /\ Len(Append(f, EventOf(e))) = Len(log) + 1
      /\ \A i \in 1..(Len(log) + 1) :
           Append(f, EventOf(e))[i] = IF i = Len(log) + 1 THEN EventOf(e) ELSE f[i]
  BY <1>1, <1>4, EventOfType, AppendProperties
<1>7. \A i \in 1..(Len(log) + 1) : g[i] = Append(f, EventOf(e))[i]
  <2> SUFFICES ASSUME NEW i \in 1..(Len(log) + 1)
               PROVE  g[i] = Append(f, EventOf(e))[i]
    OBVIOUS
  <2>1. g[i] = EventOf(log'[i])
    BY <1>2
  <2>2. CASE i = Len(log) + 1
    BY <1>1, <1>3, <1>6, <2>1, <2>2
  <2>3. CASE i # Len(log) + 1
    <3>1. i \in DOMAIN log
      BY <1>1, <2>3
    <3>2. f[i] = EventOf(log[i])
      BY <3>1
    <3>3. QED
      BY <1>3, <1>6, <2>1, <2>3, <3>2
  <2>4. QED
    BY <2>2, <2>3
<1>8. QED
  BY <1>5, <1>6, <1>7, SeqEqual

\* The state function the mapping gives the feed.
FeedOfLog == [i \in DOMAIN log |-> EventOf(log[i])]
Over == events = "closed" \/ pc = "refused"

LEMMA FeedInitially == Init => Feed!FeedInit
<1> SUFFICES ASSUME Init
             PROVE  Feed!FeedInit
  OBVIOUS
<1>1. [i \in DOMAIN log |-> EventOf(log[i])] = <<>>
  BY DEF Init
<1>2. ~(events = "closed" \/ pc = "refused")
  BY DEF Init
<1>3. QED
  BY <1>1, <1>2 DEF Init, Feed!FeedInit

\* A step that changes neither the queue, nor what was reported, nor whether
\* the feed is over, is a stuttering step of the feed.
LEMMA FeedStutter ==
  ASSUME UNCHANGED <<log, reported>>, Over' <=> Over
  PROVE  UNCHANGED Feed!feedVars
BY DEF Feed!feedVars, Over

LEMMA FeedObserve ==
  ASSUME TypeOK, Grows, UNCHANGED <<reported, events, pc>>
  PROVE  [Feed!FeedNext]_(Feed!feedVars)
<1>1. CASE UNCHANGED log
  BY <1>1, FeedStutter DEF Over
<1>2. ASSUME NEW e \in Records, log' = Append(log, e)
      PROVE  Feed!FeedNext
  <2>1. [i \in DOMAIN log' |-> EventOf(log'[i])]
           = Append([i \in DOMAIN log |-> EventOf(log[i])], EventOf(e))
    BY <1>2, FeedGrows DEF TypeOK
  <2>2. Feed!Observe(EventOf(e))
    BY <2>1 DEF Feed!Observe
  <2>3. QED
    BY <2>2, EventOfType DEF Feed!FeedNext, FeedEvents
<1>3. QED
  BY <1>1, <1>2 DEF Grows

\* A send of emit reports the first relevant record not reported yet.
LEMMA FeedReport ==
  ASSUME Inv, EmitSend
  PROVE  Feed!FeedNext
<1> DEFINE i == emitPos + 1
<1>1. emitPos \in Nat /\ readPos \in 0..Len(log) /\ log \in Seq(Records) /\ DOMAIN log = 1..Len(log)
      /\ Len(log) \in Nat
  BY LenProperties DEF Inv, TypeOK
<1>2. i \in DOMAIN log
  BY <1>1 DEF EmitSend, Emitting, Inv, BufferInv
<1>3. pc = "emit" /\ events = "open"
  BY DEF EmitSend, Emitting, Inv, ControlInv, CloseInv
<1>4. Relevant(log[i])
  BY DEF EmitSend, Record
<1>5. FeedOfLog[i] # <<"ignored", NoName>>
  BY <1>2, <1>4, EventOfType DEF FeedOfLog
<1>6. i \notin reported
  BY <1>1 DEF Inv, BufferInv
<1>7. ASSUME NEW j \in 1..(i - 1), FeedOfLog[j] # <<"ignored", NoName>>
      PROVE  j \in reported
  <2>1. j \in 1..emitPos /\ j \in DOMAIN log
    BY <1>1, <1>2
  <2>2. Relevant(log[j])
    BY <1>7, <2>1, EventOfType DEF FeedOfLog
  <2>3. QED
    BY <2>1, <2>2 DEF Inv, BufferInv
<1>8. Feed!Report(i)
  <2>1. Feed!Due(i)
    BY <1>5, <1>6, <1>7 DEF Feed!Due, FeedOfLog
  <2>2. log' = log /\ reported' = reported \cup {i}
        /\ (events' = "closed" \/ pc' = "refused") = (events = "closed" \/ pc = "refused")
    BY DEF EmitSend, kernelVars, chanVars
  <2>3. QED
    BY <1>3, <2>1, <2>2 DEF Feed!Report
<1>9. i \in DOMAIN FeedOfLog
  BY <1>2 DEF FeedOfLog
<1>10. QED
  BY <1>8, <1>9 DEF Feed!FeedNext, FeedOfLog

LEMMA FeedEnd ==
  ASSUME UNCHANGED <<log, reported>>, ~Over, Over'
  PROVE  Feed!FeedNext
<1>1. Feed!End
  BY DEF Feed!End, Over
<1>2. QED
  BY <1>1 DEF Feed!FeedNext

LEMMA FeedStep == Inv /\ [Next]_vars => [Feed!FeedNext]_(Feed!feedVars)
<1> SUFFICES ASSUME Inv, [Next]_vars
             PROVE  [Feed!FeedNext]_(Feed!feedVars)
  OBVIOUS
<1>1. CASE Kernel
  BY <1>1, KernelStep, FeedObserve DEF Inv, loopVars, bufferVars, chanVars
<1>2. CASE newWatcher
  <2>1. UNCHANGED <<log, reported>> /\ ~Over
    BY <1>2 DEF newWatcher, InotifyInit, AddWatch, Pipe2, Goto, kernelVars, bufferVars, Over,
                Inv, ControlInv, CloseInv
  <2>2. QED
    BY <2>1, FeedStutter, FeedEnd
<1>3. CASE CloseEvents
  <2>1. UNCHANGED <<log, reported>> /\ ~Over /\ Over'
    BY <1>3 DEF CloseEvents, Goto, kernelVars, bufferVars, Over, Inv, ControlInv, CloseInv
  <2>2. QED
    BY <2>1, FeedEnd
<1>4. CASE EmitSend
  BY <1>4, FeedReport
<1>5. CASE LoopStep /\ ~CloseEvents
  <2>1. UNCHANGED <<log, reported, events>> /\ pc # "refused" /\ pc' # "refused"
    BY <1>5 DEF LoopStep, LoopRuns, PollWake, PollRecords, PollFails, Read, ReadAgain, ReadFails,
                EmitSkip, Emitting, EmitQuit, EmitDone, Fail, CloseDone, Jump, Goto,
                kernelVars, bufferVars, chanVars
  <2>2. QED
    BY <2>1, FeedStutter DEF Over
<1>6. CASE ReceiveErr
  BY <1>6, FeedStutter DEF ReceiveErr, kernelVars, bufferVars, Over
<1>7. CASE \E c \in Closers : CallClose(c) \/ CloseStep(c)
  <2>1. UNCHANGED <<log, reported, events, pc>>
    BY <1>7 DEF CallClose, CloseStep, OnceEnter, OncePass, CloseQuit, CloseWake, CloseAwait,
                CloseRelease, kernelVars, loopVars, bufferVars, chanVars
  <2>2. QED
    BY <2>1, FeedStutter DEF Over
<1>8. CASE UNCHANGED vars
  BY <1>8, FeedStutter DEF vars, kernelVars, loopVars, bufferVars, chanVars, Over
<1>9. QED
  BY <1>1, <1>2, <1>3, <1>4, <1>5, <1>6, <1>7, <1>8 DEF Next

\* The Watcher implements the feed: every node change of the inotify queue is
\* handed over at most once, in order, none skipped, and none after Events is
\* closed (watch.go:113-181).
THEOREM Refinement == Spec => ImplementsFeed
<1>1. Init => Feed!FeedInit
  BY FeedInitially
<1>2. Inv /\ [Next]_vars => [Feed!FeedNext]_(Feed!feedVars)
  BY FeedStep
<1>3. QED
  BY Invariance, <1>1, <1>2, PTL DEF Spec, ImplementsFeed, Feed!FeedSafety
-----------------------------------------------------------------------------
(* The client.  A step of it is a step of the Watcher or leaves it alone,  *)
(* so all that is proved above holds here too.  That nothing is missed     *)
(* needs to know what the records on their way say: for every node the     *)
(* last of them tells whether it is there, and a node without one is in    *)
(* the program's view exactly when it is there.                            *)

\* The records about a node that are still on their way.
About(n) == {i \in (emitPos + 1)..Len(log) : Relevant(log[i]) /\ log[i].name = n}

\* The watch exists and the kernel has dropped no record.
Told == watch = "live" /\ missed = 0

\* Nobody lists before the constructor is through, and before there is a watch
\* nothing is queued.
StartInv ==
  /\ client # "creating" => pc \notin {"inotify_init", "add_watch", "pipe"}
  /\ pc \in {"inotify_init", "add_watch"} => watch = "none" /\ log = <<>>

\* The last record about a node tells whether it is there.
LastWord ==
  Told => \A n \in Nodes : \A i \in About(n) :
            (\A j \in About(n) : j <= i) => (log[i].mask \in Added <=> n \in present)

\* What changed while the directory was being read is on its way.
TouchedTold == Told /\ client = "listing" => \A n \in touched : About(n) # {}

\* What is not on its way is known.
ViewRight ==
  Told /\ client = "ranging" =>
    \A n \in Nodes : About(n) = {} => (n \in view <=> n \in Known)

ViewInv == StartInv /\ LastWord /\ TouchedTold /\ ViewRight
ClientInv == Inv /\ ClientTypeOK /\ ViewInv
-----------------------------------------------------------------------------
(* The client's steps are steps of the Watcher.                            *)

LEMMA ClientSteps == [ClientNext]_allVars => [Next]_vars
<1> SUFFICES ASSUME [ClientNext]_allVars PROVE [Next]_vars
  OBVIOUS
<1>1. CASE Program
  <2>1. CASE RangeNext \/ TakeErr
    BY <2>1 DEF RangeNext, TakeErr, Next
  <2>2. CASE Created \/ ListBegin \/ ListEnd \/ ListPart \/ RangeEnd
    BY <2>2 DEF Created, ListBegin, ListEnd, ListPart, RangeEnd
  <2> QED  BY <1>1, <2>1, <2>2 DEF Program
<1>2. CASE Background
  BY <1>2 DEF Background, Next, Kernel
<1>3. ASSUME NEW n \in Names, Change(n) PROVE Next
  BY <1>3 DEF Change, Next, Kernel
<1>4. CASE UNCHANGED allVars
  BY <1>4 DEF allVars
<1> QED  BY <1>1, <1>2, <1>3, <1>4 DEF ClientNext

\* What is proved of the Watcher holds of the one the program uses.
LEMMA ClientIsWatcher == ClientSafety => Spec
<1>1. ClientInit => Init
  BY DEF ClientInit
<1> QED  BY <1>1, ClientSteps, PTL DEF ClientSafety, Spec

LEMMA WatcherInv == Inv /\ [ClientNext]_allVars => Inv'
BY ClientSteps, TypeStep, ControlStep, BufferStep DEF Inv
-----------------------------------------------------------------------------
(* Types.                                                                  *)

LEMMA ClientTypeInit == ClientInit => ClientTypeOK
BY TypeInit DEF ClientInit, ClientTypeOK

LEMMA ClientTypeStep == ClientTypeOK /\ [ClientNext]_allVars => ClientTypeOK'
<1> SUFFICES ASSUME ClientTypeOK, [ClientNext]_allVars PROVE ClientTypeOK'
  OBVIOUS
<1>1. TypeOK'
  BY ClientSteps, TypeStep DEF ClientTypeOK
<1>2. CASE Created \/ ListBegin \/ RangeEnd \/ TakeErr
  BY <1>1, <1>2 DEF Created, ListBegin, RangeEnd, TakeErr, ClientTypeOK
<1>3. CASE ListEnd \/ ListPart
  BY <1>1, <1>3 DEF ListEnd, ListPart, ClientTypeOK
<1>4. CASE RangeNext
  BY <1>1, <1>4 DEF RangeNext, Apply, EmitSend, Relevant, ClientTypeOK
<1>5. CASE Background \/ UNCHANGED allVars
  BY <1>1, <1>5 DEF Background, allVars, clientVars, ClientTypeOK
<1>6. ASSUME NEW n \in Names, Change(n) PROVE ClientTypeOK'
  BY <1>1, <1>6 DEF Change, ClientTypeOK
<1> QED  BY <1>2, <1>3, <1>4, <1>5, <1>6 DEF ClientNext, Program

\* Every reachable state of the program and its Watcher is well typed.
THEOREM ClientTypeCorrect == ClientSafety => []ClientTypeOK
<1> QED  BY ClientTypeInit, ClientTypeStep, PTL DEF ClientSafety
-----------------------------------------------------------------------------
(* The start.                                                              *)

LEMMA StartStep ==
  ASSUME Inv, StartInv, [ClientNext]_allVars
  PROVE  StartInv'
<1> USE DEF StartInv
<1>1. CASE Created
  BY <1>1 DEF Created, Started, Constructing, vars, loopVars, kernelVars
<1>2. CASE ListBegin \/ ListEnd \/ ListPart \/ RangeEnd
  BY <1>2 DEF ListBegin, ListEnd, ListPart, RangeEnd, vars, loopVars, kernelVars
<1>3. CASE RangeNext \/ TakeErr
  BY <1>3 DEF RangeNext, TakeErr, EmitSend, ReceiveErr, kernelVars
<1>4. CASE Background
  <2>1. CASE DirVanishes
    BY <1>4, <2>1 DEF Background, clientVars, DirVanishes, loopVars
  <2>2. CASE newWatcher
    BY <1>4, <2>2 DEF Background, clientVars, newWatcher, InotifyInit, AddWatch, Pipe2, Goto,
                      kernelVars
  <2>3. CASE LoopStep
    <3>1. /\ pc \notin {"inotify_init", "add_watch", "pipe"}
          /\ pc' \notin {"inotify_init", "add_watch", "pipe"}
      BY <2>3 DEF LoopStep, LoopRuns, PollWake, PollRecords, Read, ReadAgain, EmitSkip, Emitting,
                  EmitQuit, EmitDone, Fail, CloseEvents, CloseDone, PollFails, ReadFails, Jump,
                  Goto
    <3> QED  BY <3>1
  <2>4. ASSUME NEW c \in Closers, CallClose(c) \/ CloseStep(c) PROVE StartInv'
    <3>1. UNCHANGED <<pc, log>> /\ watch' \in {watch, "none"}
      BY <2>4 DEF CallClose, CloseStep, OnceEnter, OncePass, CloseQuit, CloseWake, CloseAwait,
                  CloseRelease, kernelVars, loopVars
    <3> QED  BY <1>4, <3>1 DEF Background, clientVars
  <2> QED  BY <1>4, <2>1, <2>2, <2>3, <2>4 DEF Background
<1>5. ASSUME NEW n \in Names, Change(n) PROVE StartInv'
  <2>1. UNCHANGED <<pc, client, watch>>
    BY <1>5 DEF Change, Appear, Disappear, loopVars
  <2>2. watch = "none" => UNCHANGED log
    BY <1>5 DEF Change, Appear, Disappear, Notify
  <2> QED  BY <2>1, <2>2
<1>6. CASE UNCHANGED allVars
  BY <1>6 DEF allVars, vars, clientVars, loopVars, kernelVars
<1> QED  BY <1>1, <1>2, <1>3, <1>4, <1>5, <1>6 DEF ClientNext, Program
-----------------------------------------------------------------------------
(* The records on their way.                                               *)

\* Passing over a record of no interest takes none of them away.
LEMMA AboutFrame ==
  ASSUME TypeOK, NEW n, UNCHANGED log,
         \/ UNCHANGED emitPos
         \/ emitPos' = emitPos + 1 /\ ~Relevant(log[emitPos + 1])
  PROVE  About(n)' = About(n)
<1>1. emitPos \in Nat /\ Len(log) \in Nat
  BY DEF TypeOK
<1>2. CASE UNCHANGED emitPos
  BY <1>2 DEF About
<1>3. CASE emitPos' = emitPos + 1 /\ ~Relevant(log[emitPos + 1])
  <2>1. \A i \in (emitPos + 1)..Len(log) : i = emitPos + 1 \/ i \in (emitPos' + 1)..Len(log)
    BY <1>1, <1>3
  <2>2. (emitPos' + 1)..Len(log) \subseteq (emitPos + 1)..Len(log)
    BY <1>1, <1>3
  <2> QED  BY <1>3, <2>1, <2>2 DEF About
<1> QED  BY <1>2, <1>3

\* A step of which the program and the directory see nothing.
LEMMA ViewFrame ==
  ASSUME LastWord, TouchedTold, ViewRight,
         UNCHANGED <<log, present, client, touched, view, unlisted>>,
         \A n : About(n)' = About(n), Told' => Told
  PROVE  LastWord' /\ TouchedTold' /\ ViewRight'
<1>1. LastWord'
  BY DEF LastWord
<1>2. TouchedTold'
  BY DEF TouchedTold
<1>3. ViewRight'
  BY DEF ViewRight, Known
<1> QED  BY <1>1, <1>2, <1>3

\* A program that neither lists nor ranges claims nothing.
LEMMA ViewIdle ==
  ASSUME TypeOK, LastWord, UNCHANGED <<log, emitPos, present, watch, missed>>,
         client' \notin {"listing", "ranging"}
  PROVE  LastWord' /\ TouchedTold' /\ ViewRight'
<1>1. \A n : About(n)' = About(n)
  BY AboutFrame
<1>2. LastWord'
  BY <1>1 DEF LastWord, Told
<1> QED  BY <1>2 DEF TouchedTold, ViewRight

LEMMA ViewProgram ==
  ASSUME ClientInv, Created \/ ListBegin \/ ListEnd \/ ListPart \/ RangeEnd \/ TakeErr
  PROVE  LastWord' /\ TouchedTold' /\ ViewRight'
<1>1. UNCHANGED <<log, emitPos, present, watch, missed>>
  BY DEF Created, ListBegin, ListEnd, ListPart, RangeEnd, TakeErr, ReceiveErr, vars, loopVars, bufferVars,
         kernelVars
<1>2. \A n : About(n)' = About(n)
  BY <1>1, AboutFrame DEF ClientInv, Inv
<1>3. LastWord'
  BY <1>1, <1>2 DEF ClientInv, ViewInv, LastWord, Told
<1>4. CASE Created \/ RangeEnd \/ TakeErr
  BY <1>1, <1>4, ViewIdle DEF ClientInv, Inv, ViewInv, Created, RangeEnd, TakeErr
<1>5. CASE ListBegin
  BY <1>3, <1>5 DEF ListBegin, TouchedTold, ViewRight
<1>6. CASE ListEnd
  <2>1. PICK seen \in SUBSET touched : view' = ((present \cap Nodes) \ touched) \cup seen
    BY <1>6 DEF ListEnd
  <2>2. ASSUME Told', NEW n \in Nodes, About(n)' = {}
        PROVE  n \in view' <=> n \in Known'
    <3>1. n \notin touched /\ unlisted' = {}
      BY <1>1, <1>2, <1>6, <2>2 DEF ListEnd, ClientInv, ViewInv, TouchedTold, Told
    <3> QED  BY <1>1, <2>1, <3>1 DEF Known
  <2> QED  BY <1>3, <1>6, <2>2 DEF ListEnd, TouchedTold, ViewRight
<1>7. CASE ListPart
  <2>1. /\ view' \in SUBSET ((present \cap Nodes) \cup touched)
        /\ unlisted' = ((present \cap Nodes) \ touched) \ view'
    BY <1>7 DEF ListPart
  <2>2. ASSUME Told', NEW n \in Nodes, About(n)' = {}
        PROVE  n \in view' <=> n \in Known'
    <3>1. n \notin touched
      BY <1>1, <1>2, <1>7, <2>2 DEF ListPart, ClientInv, ViewInv, TouchedTold, Told
    <3> QED  BY <1>1, <2>1, <3>1 DEF Known
  <2> QED  BY <1>3, <1>7, <2>2 DEF ListPart, TouchedTold, ViewRight
<1> QED  BY <1>4, <1>5, <1>6, <1>7

\* The program receives the first of the records about a node.  If it is also
\* the last, it is what the program now goes by.
LEMMA ViewRange ==
  ASSUME ClientInv, RangeNext
  PROVE  LastWord' /\ TouchedTold' /\ ViewRight'
<1> DEFINE p == emitPos + 1
<1>1. /\ client = "ranging" /\ client' = "ranging"
      /\ emitPos' = p /\ Relevant(log[p])
      /\ view' = Apply(log[p], view)
      /\ unlisted' = unlisted \ {log[p].name}
      /\ UNCHANGED <<log, present, watch, missed>>
  BY DEF RangeNext, EmitSend, Record, kernelVars
<1>2. emitPos \in Nat /\ Len(log) \in Nat /\ p \in 1..Len(log)
  <2>1. emitPos \in Nat /\ readPos \in 0..Len(log) /\ Len(log) \in Nat
    BY DEF ClientInv, Inv, TypeOK
  <2>2. emitPos < readPos
    BY DEF RangeNext, EmitSend, Emitting
  <2> QED  BY <2>1, <2>2
<1> HIDE DEF p
<1>3. \A n : About(n)' = About(n) \ {p}
  <2>1. (p + 1)..Len(log) = (p..Len(log)) \ {p}
    BY <1>2
  <2>2. emitPos + 1 = p
    BY DEF p
  <2> QED  BY <1>1, <2>1, <2>2 DEF About
<1>4. \A n : About(n) \subseteq p..Len(log)
  BY DEF About, p
<1>5. LastWord'
  <2> SUFFICES ASSUME Told', NEW n \in Nodes, NEW i \in About(n)',
                      \A j \in About(n)' : j <= i
               PROVE  log[i].mask \in Added <=> n \in present
    BY <1>1 DEF LastWord
  <2>1. Told
    BY <1>1 DEF Told
  <2>2. i \in About(n)
    BY <1>3
  <2>3. \A j \in About(n) : j <= i
    BY <1>2, <1>3, <1>4, <2>2
  <2> QED  BY <2>1, <2>2, <2>3 DEF ClientInv, ViewInv, LastWord
<1>6. TouchedTold'
  BY <1>1 DEF TouchedTold
<1>7. ViewRight'
  <2> SUFFICES ASSUME Told', NEW n \in Nodes, About(n)' = {}
               PROVE  n \in view' <=> n \in Known'
    BY <1>1 DEF ViewRight
  <2>1. Told
    BY <1>1 DEF Told
  <2>2. CASE log[p].name = n
    <3>1. p \in About(n)
      BY <1>1, <1>2, <2>2 DEF About, p
    <3>2. \A j \in About(n) : j <= p
      BY <1>2, <1>3
    <3>3. log[p].mask \in Added <=> n \in present
      BY <2>1, <3>1, <3>2 DEF ClientInv, ViewInv, LastWord
    <3>4. n \in view' <=> log[p].mask \in Added
      BY <1>1, <2>2 DEF Apply, DeviceAction
    <3>5. n \in Known' <=> n \in present
      BY <1>1, <2>2 DEF Known
    <3> QED  BY <3>3, <3>4, <3>5
  <2>3. CASE log[p].name # n
    <3>1. p \notin About(n)
      BY <2>3 DEF About
    <3>2. About(n) = {}
      BY <1>3, <3>1
    <3>3. n \in view <=> n \in Known
      BY <1>1, <2>1, <3>2 DEF ClientInv, ViewInv, ViewRight
    <3>4. n \in view' <=> n \in view
      BY <1>1, <2>3 DEF Apply
    <3>5. n \in Known' <=> n \in Known
      BY <1>1, <2>3 DEF Known
    <3> QED  BY <3>3, <3>4, <3>5
  <2> QED  BY <2>2, <2>3
<1> QED  BY <1>5, <1>6, <1>7

LEMMA ViewBackground ==
  ASSUME ClientInv, Background
  PROVE  LastWord' /\ TouchedTold' /\ ViewRight'
<1> USE DEF ClientInv, Inv, ViewInv
<1>1. UNCHANGED <<client, touched, view, unlisted>>
  BY DEF Background, clientVars
<1>2. ASSUME ~Told' PROVE LastWord' /\ TouchedTold' /\ ViewRight'
  BY <1>2 DEF LastWord, TouchedTold, ViewRight
<1>3. ASSUME UNCHANGED <<log, present, missed>>, watch' \in {watch, "none"},
             \/ UNCHANGED emitPos
             \/ emitPos' = emitPos + 1 /\ ~Relevant(log[emitPos + 1])
      PROVE  LastWord' /\ TouchedTold' /\ ViewRight'
  <2>1. \A n : About(n)' = About(n)
    BY <1>3, AboutFrame
  <2>2. Told' => Told
    BY <1>3 DEF Told
  <2> QED  BY <1>1, <1>3, <2>1, <2>2, ViewFrame
<1>4. CASE DirVanishes
  BY <1>2, <1>4 DEF DirVanishes, Told
<1>5. CASE InotifyInit \/ Pipe2
  BY <1>3, <1>5 DEF InotifyInit, Pipe2, kernelVars, bufferVars
<1>6. CASE AddWatch
  <2>1. log' = <<>> /\ emitPos' \in Nat /\ client' = "creating"
    BY <1>1, <1>6 DEF AddWatch, Goto, StartInv, TypeOK, bufferVars
  <2>2. \A n : About(n)' = {}
    BY <2>1 DEF About
  <2> QED  BY <2>1, <2>2 DEF LastWord, TouchedTold, ViewRight
<1>7. CASE LoopStep
  <2>1. CASE EmitSkip
    BY <1>3, <2>1 DEF EmitSkip, Record, kernelVars
  <2>2. CASE LoopStep /\ ~EmitSkip
    BY <1>3, <2>2 DEF LoopStep, LoopRuns, PollWake, PollRecords, Read, ReadAgain, EmitQuit,
                      EmitDone, Fail, CloseEvents, CloseDone, PollFails, ReadFails, Jump,
                      kernelVars, bufferVars
  <2> QED  BY <1>7, <2>1, <2>2
<1>8. ASSUME NEW c \in Closers, CallClose(c) \/ CloseStep(c)
      PROVE  LastWord' /\ TouchedTold' /\ ViewRight'
  BY <1>3, <1>8 DEF CallClose, CloseStep, OnceEnter, OncePass, CloseQuit, CloseWake, CloseAwait,
                    CloseRelease, kernelVars, loopVars, bufferVars
<1> QED  BY <1>4, <1>5, <1>6, <1>7, <1>8 DEF Background, newWatcher

\* A change the kernel reports is one more record about that node, and the last.
LEMMA Announced ==
  ASSUME TypeOK, Told', NEW n \in Names, NEW mask, watch' = watch, Notify(mask, n)
  PROVE  /\ Told
         /\ log' = Append(log, [mask |-> mask, name |-> n])
<1>1. Told /\ missed' = missed
  BY DEF TypeOK, Told, Notify, Enqueue
<1>2. CASE watch = "live" /\ Enqueue([mask |-> mask, name |-> n])
  BY <1>1, <1>2 DEF TypeOK, Enqueue
<1> QED  BY <1>1, <1>2 DEF Notify, Told

LEMMA ViewChange ==
  ASSUME ClientInv, NEW n \in Names, Change(n)
  PROVE  LastWord' /\ TouchedTold' /\ ViewRight'
<1> DEFINE last == Len(log) + 1
<1>1. PICK mask \in WatchMask :
        /\ Notify(mask, n)
        /\ mask \in Added <=> n \in present'
  BY DEF Change, Appear, Disappear, WatchMask, Added, Removed
<1>2. /\ UNCHANGED <<watch, emitPos, client, view, unlisted>>
      /\ \A m \in Names \ {n} : m \in present' <=> m \in present
      /\ touched' \subseteq touched \cup ({n} \cap Nodes)
  BY DEF Change, Appear, Disappear, loopVars, bufferVars
<1>3. CASE ~Told'
  BY <1>3 DEF LastWord, TouchedTold, ViewRight
<1>4. CASE Told'
  <2>1. Told /\ log' = Append(log, [mask |-> mask, name |-> n])
    BY <1>1, <1>2, <1>4, Announced DEF ClientInv, Inv
  <2>2. emitPos \in Nat /\ Len(log) \in Nat /\ emitPos <= Len(log)
    BY DEF ClientInv, Inv, TypeOK, BufferInv
  <2>3. /\ Len(log') = last
        /\ \A i \in 1..Len(log) : log'[i] = log[i]
        /\ log'[last] = [mask |-> mask, name |-> n]
    BY <2>1, AppendProperties DEF ClientInv, Inv, TypeOK
  <2>4. (emitPos + 1)..Len(log') = ((emitPos + 1)..Len(log)) \cup {last}
    BY <2>2, <2>3
  <2>5. \A m \in Nodes \ {n} : About(m)' = About(m)
    BY <1>2, <2>2, <2>3, <2>4 DEF About
  <2>6. n \in Nodes => last \in About(n)'
    BY <1>2, <2>2, <2>3, <2>4 DEF About, Relevant
  <2>7. \A m : About(m)' \subseteq 1..last /\ About(m) \subseteq 1..Len(log)
    BY <2>2, <2>3, <1>2 DEF About
  <2> HIDE DEF last
  <2>8. LastWord'
    <3> SUFFICES ASSUME NEW m \in Nodes, NEW i \in About(m)', \A j \in About(m)' : j <= i
                 PROVE  log'[i].mask \in Added <=> m \in present'
      BY DEF LastWord
    <3>1. CASE m = n
      <4>1. i = last
        BY <2>2, <2>6, <2>7, <3>1 DEF last
      <4> QED  BY <1>1, <2>3, <3>1, <4>1
    <3>2. CASE m # n
      <4>1. i \in About(m) /\ \A j \in About(m) : j <= i
        BY <2>5, <3>2
      <4>2. log'[i] = log[i]
        BY <2>3, <2>7, <4>1
      <4>3. log[i].mask \in Added <=> m \in present
        BY <2>1, <4>1 DEF ClientInv, ViewInv, LastWord
      <4> QED  BY <1>2, <3>2, <4>2, <4>3 DEF Names
    <3> QED  BY <3>1, <3>2
  <2>9. TouchedTold'
    <3> SUFFICES ASSUME client = "listing", NEW m \in touched' PROVE About(m)' # {}
      BY <1>2 DEF TouchedTold
    <3>1. CASE m = n
      BY <1>2, <2>6, <3>1 DEF ClientInv, ClientTypeOK
    <3>2. CASE m # n
      BY <1>2, <2>1, <2>5, <3>2 DEF ClientInv, ClientTypeOK, ViewInv, TouchedTold
    <3> QED  BY <3>1, <3>2
  <2>10. ViewRight'
    <3> SUFFICES ASSUME client = "ranging", NEW m \in Nodes, About(m)' = {}
                 PROVE  m \in view <=> m \in Known'
      BY <1>2 DEF ViewRight
    <3>1. m # n
      BY <2>6
    <3>2. m \in view <=> m \in Known
      BY <2>1, <2>5, <3>1 DEF ClientInv, ViewInv, ViewRight
    <3>3. m \in Known' <=> m \in Known
      BY <1>2, <3>1 DEF Known, Names
    <3> QED  BY <3>2, <3>3
  <2> QED  BY <2>8, <2>9, <2>10
<1> QED  BY <1>3, <1>4
-----------------------------------------------------------------------------
(* The theorems.                                                           *)

LEMMA ClientInvInit == ClientInit => ClientInv
<1> SUFFICES ASSUME ClientInit PROVE ClientInv
  OBVIOUS
<1>1. Inv /\ ClientTypeOK
  BY TypeInit, ControlInit, BufferInit, ClientTypeInit DEF ClientInit, Inv
<1>2. ViewInv
  BY DEF ClientInit, Init, ViewInv, StartInv, LastWord, TouchedTold, ViewRight, Told
<1> QED  BY <1>1, <1>2 DEF ClientInv

LEMMA ClientInvStep == ClientInv /\ [ClientNext]_allVars => ClientInv'
<1> SUFFICES ASSUME ClientInv, [ClientNext]_allVars PROVE ClientInv'
  OBVIOUS
<1>1. Inv' /\ ClientTypeOK' /\ StartInv'
  BY WatcherInv, ClientTypeStep, StartStep DEF ClientInv, ViewInv
<1>2. LastWord' /\ TouchedTold' /\ ViewRight'
  <2>1. CASE UNCHANGED allVars
    <3>1. \A n : About(n)' = About(n)
      BY <2>1, AboutFrame DEF ClientInv, Inv, allVars, vars, kernelVars, loopVars, bufferVars
    <3>2. UNCHANGED <<log, present, client, touched, view, unlisted, watch, missed>>
      BY <2>1 DEF allVars, vars, kernelVars, clientVars
    <3> QED  BY <3>1, <3>2, ViewFrame DEF ClientInv, ViewInv, Told
  <2> QED  BY <2>1, ViewProgram, ViewRange, ViewBackground, ViewChange DEF ClientNext, Program
<1> QED  BY <1>1, <1>2 DEF ClientInv, ViewInv

LEMMA ClientInvariance == ClientSafety => []ClientInv
<1> QED  BY ClientInvInit, ClientInvStep, PTL DEF ClientSafety

\* Creating the Watcher before listing misses nothing (watch.go:37-40): while
\* the watch lives and no record was dropped, a program to which nothing is on
\* its way has exactly the nodes that are there, but for those that a listing cut
\* short left out and of which it has been told nothing since.
THEOREM MissesNothing == ClientSafety => []NothingMissed
<1>1. ClientInv => NothingMissed
  <2> SUFFICES ASSUME ClientInv, client = "ranging", Told, Pending = {}
               PROVE  view = Known
    BY DEF NothingMissed, Told
  <2>1. \A n \in Nodes : About(n) = {}
    BY DEF About, Pending
  <2>2. \A n \in Nodes : n \in view <=> n \in Known
    BY <2>1 DEF ClientInv, ViewInv, ViewRight
  <2> QED  BY <2>2 DEF ClientInv, ClientTypeOK, Known
<1> QED  BY <1>1, ClientInvariance, PTL

\* The program too gets every node change of the inotify queue at most once, in
\* order and none skipped, and lists without disturbing that (watch.go:113-181).
THEOREM ClientGetsFeed == ClientSafety => ImplementsFeed
<1> QED  BY ClientIsWatcher, Refinement
=============================================================================

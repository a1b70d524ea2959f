---------------------------- MODULE HotplugFeed ----------------------------
(***************************************************************************)
(* What a Watcher promises its consumer, without inotify, file             *)
(* descriptors, batches or goroutines (watch.go, the comments on Watcher,  *)
(* Events and Close): the changes of the directory form a feed; those that *)
(* concern an evdev node are handed to the consumer one at a time, each    *)
(* once, in the order they happened, with none skipped; the feed may end,  *)
(* and after that nothing is handed over.                                  *)
(***************************************************************************)
EXTENDS Naturals, Sequences

CONSTANTS
  DeviceEvents,  \* what the consumer can be told: an action and a node
  Noise          \* a change the consumer is never told about

VARIABLES
  feed,      \* every change the watch took note of, in order
  reported,  \* the positions of feed that were handed to the consumer
  ended      \* the Events channel is closed

feedVars == <<feed, reported, ended>>

FeedInit ==
  /\ feed = <<>>
  /\ reported = {}
  /\ ended = FALSE

\* A change of the directory, of a node or of something else.
Observe(e) ==
  /\ feed' = Append(feed, e)
  /\ UNCHANGED <<reported, ended>>

\* Position i is due: it concerns a node and everything before it that
\* concerns a node has been reported.
Due(i) ==
  /\ feed[i] # Noise
  /\ i \notin reported
  /\ \A j \in 1..(i - 1) : feed[j] # Noise => j \in reported

Report(i) ==
  /\ ~ended
  /\ Due(i)
  /\ reported' = reported \cup {i}
  /\ UNCHANGED <<feed, ended>>

End ==
  /\ ~ended
  /\ ended' = TRUE
  /\ UNCHANGED <<feed, reported>>

FeedNext ==
  \/ \E e \in DeviceEvents \cup {Noise} : Observe(e)
  \/ \E i \in DOMAIN feed : Report(i)
  \/ End

FeedSafety == FeedInit /\ [][FeedNext]_feedVars

\* With a consumer that keeps receiving, whatever is due gets reported.
FeedSpec == FeedSafety /\ WF_feedVars(\E i \in DOMAIN feed : Report(i))
=============================================================================

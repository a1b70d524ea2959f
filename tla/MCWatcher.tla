----------------------------- MODULE MCWatcher -----------------------------
(***************************************************************************)
(* Watcher on small instances: two nodes and a file that is no node, two   *)
(* callers of Close, every system call able to fail.                       *)
(***************************************************************************)
EXTENDS Watcher, TLC

AllCalls == Calls
NoCalls  == {}

\* The nodes are alike and so are the callers; used for safety only.
Symmetry == Permutations(Nodes) \cup Permutations(Closers)
=============================================================================

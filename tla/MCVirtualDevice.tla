--------------------------- MODULE MCVirtualDevice ---------------------------
(***************************************************************************)
(* VirtualDevice with two writers and one of them, or both, to close it: a *)
(* key, an axis and a property are registered, a second key is not.        *)
(***************************************************************************)
EXTENDS VirtualDevice, TLC

CapsKeyAndAxis ==
  [t \in CodeTypes |->
     CASE t = "EV_KEY" -> {"KEY_A"} [] t = "EV_REL" -> {"REL_X"}
       [] t = "EV_MSC" -> {} [] t = "PROP" -> {"INPUT_PROP_POINTER"}]

KeysAB == {[type |-> "EV_KEY", code |-> "KEY_A"], [type |-> "EV_KEY", code |-> "KEY_B"]}

Symmetry == Permutations(Threads \ Closers)
=============================================================================

-------------------------- MODULE MCHotplugClient --------------------------
(***************************************************************************)
(* HotplugClient on small instances.                                       *)
(***************************************************************************)
EXTENDS HotplugClient

NoCalls   == {}
SomeCalls == {"poll", "read", "read_dir"}
=============================================================================

----------------------------- MODULE MCRemapper -----------------------------
(***************************************************************************)
(* Remapper on small instances: two frames, of which MapFunc makes two     *)
(* keys of one and drops the other or passes it on; a macro of one key.    *)
(***************************************************************************)
EXTENDS Remapper, TLC

NoFiles == {}

OnlyKeys(keys) == [t \in {"EV_KEY", "EV_REL", "EV_MSC", "PROP"} |-> IF t = "EV_KEY" THEN keys ELSE {}]
SourceKeys == OnlyKeys({"KEY_A"})
ExtraKeys == OnlyKeys({"KEY_B"})

ComboAndDrop == <<<<"KEY_B", "KEY_A">>, <<>>>>
PassThrough == <<<<"KEY_A">>, <<"KEY_A">>>>

MacroKey == [type |-> "EV_KEY", code |-> "KEY_A", frame |-> 0]
MacroSync == [type |-> "EV_SYN", code |-> "SYN_REPORT", frame |-> 0]
NoMacro == <<>>
JustAKey == <<MacroKey>>
TwoKeys == <<MacroKey, MacroKey, MacroSync>>
=============================================================================

----------------------------- MODULE MCListing -----------------------------
EXTENDS ListingClients

Codes(of) == [t \in DOMAIN MaxCode |-> IF t \in DOMAIN of THEN of[t] ELSE {}]

\* A keyboard, whose last key is the highest code, a mouse, and a tablet that
\* lacks the space bar: every mask at its edges, and types without a mask.
KeyboardKind ==
  [types |-> {EV_SYN, EV_KEY, EV_MSC, EV_LED, 20},
   codes |-> Codes([t \in {EV_KEY, EV_MSC, EV_LED} |->
               CASE t = EV_KEY -> {KEY_A, KEY_Z, KEY_SPACE, 0, KEY_MAX}
                 [] t = EV_MSC -> {4, MSC_MAX} [] OTHER -> {0, 1, 2, LED_MAX}]),
   props |-> {}]

MouseKind ==
  [types |-> {EV_SYN, EV_KEY, EV_REL},
   codes |-> Codes([t \in {EV_KEY, EV_REL} |->
               IF t = EV_KEY THEN {272, 273} ELSE {0, 1, 7, 8, REL_MAX}]),
   props |-> {0, INPUT_PROP_MAX}]

TabletKind ==
  [types |-> {EV_SYN, EV_KEY, EV_ABS, EV_FF, EV_MAX},
   codes |-> Codes([t \in {EV_KEY, EV_ABS, EV_FF} |->
               CASE t = EV_KEY -> {KEY_A, KEY_Z} [] t = EV_ABS -> {0, ABS_MAX}
                 [] OTHER -> {80, FF_MAX}]),
   props |-> {1, 7, 8}]

TwoKinds == {KeyboardKind, MouseKind}
AllKinds == {KeyboardKind, MouseKind, TabletKind}
TwoPaths == 1..2
UpToTwo == 0..2
One == {1}
AllPrograms == {"lsinput", "monitor", "monitor -grab", "keyboards"}
JustLsinput == {"lsinput"}
ArgumentsUsed == {<<1>>, <<1, 1>>, <<2, 1>>}
NoArguments == {}
=============================================================================

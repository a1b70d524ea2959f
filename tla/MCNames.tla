------------------------------ MODULE MCNames ------------------------------
(***************************************************************************)
(* Names on two kinds of headers: the kernel's, as far as Codes has them,  *)
(* and all short headers over a few lines in which aliases, sums, limits   *)
(* and values that are not understood meet.                                *)
(***************************************************************************)
EXTENDS Names, Codes

LinesOf(block) == [i \in DOMAIN block |-> Define(block[i][1], <<Lit(block[i][2])>>)]

Alias(name, of) == Define(name, <<Sym(of)>>)
Count(p) == Define(<<p, "CNT">>, <<Sym(<<p, "MAX">>), Lit(1)>>)

Kernel ==
  [codes |-> LinesOf(InputProp \o EvType \o SYN \o REL \o ABS \o MSC \o LED \o REP \o SND \o SW)
               \o <<Define(<<"KEY", "MUTE">>, <<Lit(113)>>),
                    Define(<<"KEY", "BRIGHTNESS_MIN">>, <<Lit(KEY_BRIGHTNESS_MIN)>>),
                    Alias(<<"KEY", "MIN_INTERESTING">>, <<"KEY", "MUTE">>),
                    Define(<<"KEY", "MAX">>, <<Lit(KEY_MAX)>>), Count("KEY")>>,
   input |-> <<Define(<<"EV", "VERSION">>, <<Lit(65537)>>), Define(<<"ID", "BUS">>, <<Lit(0)>>)>>
               \o LinesOf(BusType)]

\* Lines that may stand in any order that defines a symbol before its use.
Pool ==
  {Define(<<"BTN", "MOUSE">>, <<Lit(272)>>),
   Alias(<<"BTN", "LEFT">>, <<"BTN", "MOUSE">>),
   Define(<<"KEY", "OK">>, <<Lit(272)>>),
   Define(<<"KEY", "MAX">>, <<Lit(272)>>),
   Count("KEY"),
   Define(<<"SW", "LID">>, <<Lit(272)>>),
   Define(<<"SW", "SIZE">>, <<Other>>),
   Alias(<<"SW", "ODD">>, <<"SW", "SIZE">>),
   Define(<<"SW", "BIG">>, <<Lit(65536)>>)}

Uses(line) == {line.expr[k][2] : k \in {j \in DOMAIN line.expr : line.expr[j][1] = "symbol"}}

Ordered(s) ==
  \A i \in DOMAIN s : Uses(s[i]) \subseteq {s[j].name : j \in 1..(i - 1)}

Short(n) == {s \in UNION {[1..k -> Pool] : k \in 0..n} : IsInjective(s) /\ Ordered(s)}

\* A bus may have the value of a symbol of the other header.
Input == {<<>>, <<Define(<<"BUS", "PCI">>, <<Lit(1)>>),
                  Define(<<"BUS", "ODD">>, <<Sym(<<"BTN", "MOUSE">>), Lit(2)>>)>>}

HeadersUnderTest ==
  {Kernel} \cup
  {h \in [codes : Short(4), input : Input] : Ordered(h.codes \o h.input)}

\* The kernel's headers and KEY_BRIGHTNESS_MAX.
KernelHeaders ==
  {[Kernel EXCEPT !.codes = Append(@, Define(<<"KEY", "BRIGHTNESS", "MAX">>,
                                              <<Lit(KEY_BRIGHTNESS_MAX)>>))]}
=============================================================================

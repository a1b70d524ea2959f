------------------------------- MODULE Names -------------------------------
(***************************************************************************)
(* names.go: the lookups, by value and by name, in the tables that the     *)
(* generator wrote.                                                        *)
(***************************************************************************)
EXTENDS Generator

\* A map literal, looked up.
Has(table, k) == \E i \in DOMAIN table : table[i][1] = k
At(table, k)  == table[CHOOSE i \in DOMAIN table : table[i][1] = k][2]

\* A fallback is a name with the number in it, <<"KEY", "?", 511>>.
NameOr(table, v, p) == IF Has(table, v) THEN At(table, v) ELSE <<p, "?", v>>

EvTypeString(v)    == NameOr(source.evTypeNames, v, "EV")
BusTypeString(v)   == NameOr(source.busNames, v, "BUS")
InputPropString(v) == NameOr(source.propNames, v, "INPUT_PROP")

codePrefixForType(t) ==
  IF t \in CodeTypes THEN t ELSE "CODE"

\* Mutant: the codes of all types are looked through.
CodeNameOfAny(t, c) ==
  LET all == UNION {ToSet(source.evCodeNames[u]) : u \in CodeTypes}
  IN IF \E e \in all : e[1] = c THEN (CHOOSE e \in all : e[1] = c)[2]
     ELSE <<codePrefixForType(t), "?", c>>

\* Types that have no table of codes, EV_FF for one, fall through.
CodeName(t, c) ==
  NameOr(IF t \in CodeTypes THEN source.evCodeNames[t] ELSE <<>>, c,
         codePrefixForType(t))

\* Values and whether there are any.
ByNameIn(table, name) == IF Has(table, name) THEN <<At(table, name), TRUE>> ELSE <<0, FALSE>>

EvTypeByName(name) == ByNameIn(source.evTypeByName, name)
EvCodeByName(name) == ByNameIn(source.evCodeByName, name)
-----------------------------------------------------------------------------
Values(p) == {0, TooBig - 1} \cup
  {source.consts[i][2] : i \in {j \in DOMAIN source.consts : Prefix(source.consts[j][1]) = p}}

CodeValues(t) == UNION {Values(p) : p \in {q \in DOMAIN prefixType : prefixType[q] = t}}

\* Names and values lead to each other, though all types share one table of
\* names and aliases share values (names.go:31-33, 49-51): the name of a code is
\* of its type and resolves to that code, different codes of a type have different
\* names, and a fallback is never a name that resolves.  Every name that does
\* resolves to a code which has a name.
NamesResolve ==
  codesFile = "new" =>
    /\ \A t \in CodeTypes \cup {"FF"} : \A c \in IF t = "FF" THEN {0} ELSE CodeValues(t) :
         LET n == CodeName(t, c)
         IN \/ /\ EvCodeByName(n) = <<c, TRUE>>
               /\ prefixType[Prefix(n)] = t
            \/ /\ n = <<codePrefixForType(t), "?", c>>
               /\ ~EvCodeByName(n)[2]
               /\ \A i \in DOMAIN source.evCodeByName :
                    source.evCodeByName[i][2] = c => prefixType[Prefix(source.evCodeByName[i][1])] # t
    /\ \A v \in Values("EV") :
         LET n == EvTypeString(v)
         IN EvTypeByName(n) = <<v, TRUE>> \/ n = <<"EV", "?", v>>
    /\ \A v \in Values("BUS") : Has(source.busNames, v) => Prefix(BusTypeString(v)) = "BUS"
    /\ \A v \in Values("INPUT_PROP") :
         Has(source.propNames, v) => Prefix(InputPropString(v)) = "INPUT_PROP"

\* CodeName returns the constant name for a code, and a fallback for unknown
\* ones (names.go:31-33), and EvCodeByName resolves a code or alias name
\* (names.go:49-51): every constant that is not the limit of its type is known
\* by its name.
ConstantsKnown ==
  codesFile = "new" =>
    \A i \in DOMAIN source.consts :
      LET n == source.consts[i][1]
      IN Prefix(n) \in DOMAIN prefixType /\ n \notin {<<Prefix(n), "MAX">>, <<Prefix(n), "CNT">>}
           => EvCodeByName(n)[2]
=============================================================================

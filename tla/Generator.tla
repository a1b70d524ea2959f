----------------------------- MODULE Generator -----------------------------
(***************************************************************************)
(* internal/gen/main.go, which go generate runs to make codes.go out of    *)
(* the kernel's headers: it goes through the defines of                    *)
(* input-event-codes.h and input.h line by line, resolving every value     *)
(* against the symbols met so far, and writes constants and tables.        *)
(*                                                                         *)
(* A name is the tuple of its parts that matter, <<"KEY", "MAX">> or       *)
(* <<"KEY", "BRIGHTNESS", "MAX">>: the prefix up to the underscore, the    *)
(* rest, and the last word when it is MAX or CNT.  A value is what stands  *)
(* between plus signs, each a literal, a symbol or something else.  Layout *)
(* is left out: a table is the entries of its map literal in their order.  *)
(***************************************************************************)
EXTENDS Integers, Sequences, SequencesExt

CONSTANT Headers  \* the pairs of headers: records of two sequences of lines

\* A define of a header.  A word has letters, digits and underscores.
Lit(n) == <<"literal", n>>
Sym(s) == <<"symbol", s>>
Other  == <<"other">>
Define(name, expr) == [name |-> name, expr |-> expr]

Nonempty(S) == Seq(S) \ {<<>>}
SymName == Nonempty(STRING \ {"?"})
Term    == ({"literal"} \X Nat) \cup ({"symbol"} \X SymName) \cup {Other}
Line    == [name : SymName, expr : Nonempty(Term)]

NoValue == -1
TooBig  == 65536  \* the first number that does not fit 16 bits

VARIABLES
  header,    \* the headers that are installed
  at,        \* the header being read, or "emit", "write", "done", "failed"
  pos,       \* how many of its lines have been read
  syms,      \* every resolved symbol
  defs,      \* the defines resolved in this header
  order,     \* the defines that are wanted, in file order
  source,    \* what emit made
  codesFile  \* codes.go: "old" until written, "cut" when writing failed

genVars == <<header, at, pos, syms, defs, order, source, codesFile>>

\* The EvType whose code space a prefix belongs to; KEY_ and BTN_ share one.  No
\* name has two of the prefixes, so the order a map is gone through in is no matter.
prefixType ==
  [p \in {"SYN", "KEY", "BTN", "REL", "ABS", "MSC", "SW", "LED", "SND", "REP"} |->
     IF p = "BTN" THEN "KEY" ELSE p]

CodeTypes == {prefixType[p] : p \in DOMAIN prefixType}

Prefix(name) == Head(name)
isMaxOrCnt(name) == Last(name) \in {"MAX", "CNT"}

\* What run asks collect for, header by header.
Wanted(h, name) ==
  IF h = "codes" THEN Prefix(name) \in {"EV", "INPUT_PROP"} \cup DOMAIN prefixType
                 ELSE Prefix(name) = "BUS"
-----------------------------------------------------------------------------
\* A literal that fits 16 bits, or a symbol that was resolved before.
ResolveTerm(t, known) ==
  CASE t[1] = "literal" /\ t[2] < TooBig -> t[2]
    [] t[1] = "symbol" /\ t[2] \in DOMAIN known -> known[t[2]]
    [] OTHER -> NoValue

\* The sum, in 16 bits, unless a part of it is not understood.
resolve(expr, known) ==
  LET sum[k \in 0..Len(expr)] ==
        IF k = 0 THEN 0
        ELSE LET left  == sum[k - 1]
                 right == ResolveTerm(expr[k], known)
             IN IF NoValue \in {left, right} THEN NoValue ELSE (left + right) % TooBig
  IN sum[Len(expr)]

\* Mutant: whether a value is understood is not asked.
ParseAnything ==
  /\ at \in {"codes", "input"}
  /\ pos < Len(header[at])
  /\ LET d == header[at][pos + 1]
         v == resolve(d.expr, syms)
     IN /\ syms' = [n \in DOMAIN syms \cup {d.name} |-> IF n = d.name THEN v ELSE syms[n]]
        /\ defs' = Append(defs, [name |-> d.name, value |-> v])
  /\ pos' = pos + 1
  /\ UNCHANGED <<header, at, order, source, codesFile>>

\* parseHeader, a line.
ParseLine ==
  /\ at \in {"codes", "input"}
  /\ pos < Len(header[at])
  /\ LET d == header[at][pos + 1]
         v == resolve(d.expr, syms)
     IN \/ /\ v = NoValue
           /\ UNCHANGED <<syms, defs>>
        \/ /\ v # NoValue
           /\ syms' = [n \in DOMAIN syms \cup {d.name} |-> IF n = d.name THEN v ELSE syms[n]]
           /\ defs' = Append(defs, [name |-> d.name, value |-> v])
  /\ pos' = pos + 1
  /\ UNCHANGED <<header, at, order, source, codesFile>>

\* The elements at some of the places of a sequence, in their order.
Selected(s, places) ==
  LET upto[n \in 0..Len(s)] ==
        IF n = 0 THEN <<>>
        ELSE IF n \in places THEN Append(upto[n - 1], s[n]) ELSE upto[n - 1]
  IN upto[Len(s)]

\* The end of a header: collect keeps what is wanted, and goes on to the next.
Collect ==
  /\ at \in {"codes", "input"}
  /\ pos = Len(header[at])
  /\ order' = order \o Selected(defs, {i \in DOMAIN defs : Wanted(at, defs[i].name)})
  /\ at' = IF at = "codes" THEN "input" ELSE "emit"
  /\ pos' = 0
  /\ defs' = <<>>
  /\ UNCHANGED <<header, syms, source, codesFile>>

\* Mutant: the scanner's error is dropped, and what it read is taken for all.
ReadStops ==
  /\ at \in {"codes", "input"}
  /\ order' = order \o Selected(defs, {i \in DOMAIN defs : Wanted(at, defs[i].name)})
  /\ at' = IF at = "codes" THEN "input" ELSE "emit"
  /\ pos' = 0
  /\ defs' = <<>>
  /\ UNCHANGED <<header, syms, source, codesFile>>

\* A header cannot be opened, or not be read to its end.
ReadFails ==
  /\ at \in {"codes", "input"}
  /\ at' = "failed"
  /\ UNCHANGED <<header, pos, syms, defs, order, source, codesFile>>
-----------------------------------------------------------------------------
Of(ds, ps) == Selected(ds, {i \in DOMAIN ds : Prefix(ds[i].name) \in ps})
Named(ds)  == Selected(ds, {i \in DOMAIN ds : ~isMaxOrCnt(ds[i].name)})
CodesOf(ds, t) == Of(ds, {p \in DOMAIN prefixType : prefixType[p] = t})

ByValue(ds) == [i \in DOMAIN ds |-> <<ds[i].value, ds[i].name>>]
ByName(ds)  == [i \in DOMAIN ds |-> <<ds[i].name, ds[i].value>>]

\* Mutant: aliases are not looked for.
EveryName(ds) == ds

\* The first name of every value.
FirstOnly(ds) ==
  Selected(ds, {i \in DOMAIN ds : \A j \in 1..(i - 1) : ds[j].value # ds[i].value})

\* The constants and the six tables.
emit(ds) ==
  [consts       |-> ByName(ds),
   evTypeNames  |-> ByValue(Named(Of(ds, {"EV"}))),
   evTypeByName |-> ByName(Named(Of(ds, {"EV"}))),
   evCodeNames  |-> [t \in CodeTypes |-> ByValue(FirstOnly(Named(CodesOf(ds, t))))],
   evCodeByName |-> ByName(Named(Of(ds, DOMAIN prefixType))),
   busNames     |-> ByValue(Of(ds, {"BUS"})),
   propNames    |-> ByValue(Named(Of(ds, {"INPUT_PROP"})))]

Emit ==
  /\ at = "emit"
  /\ at' = "write"
  /\ source' = emit(order)
  /\ UNCHANGED <<header, pos, syms, defs, order, codesFile>>

\* os.WriteFile empties the file before it writes.
Write ==
  /\ at = "write"
  /\ \/ at' = "done" /\ codesFile' = "new"
     \/ at' = "failed" /\ codesFile' \in {"old", "cut"}
  /\ UNCHANGED <<header, pos, syms, defs, order, source>>
-----------------------------------------------------------------------------
GenInit ==
  /\ header \in Headers
  /\ at = "codes"
  /\ pos = 0
  /\ syms = <<>>
  /\ defs = <<>>
  /\ order = <<>>
  /\ source = emit(<<>>)
  /\ codesFile = "old"

GenNext == ParseLine \/ Collect \/ ReadFails \/ Emit \/ Write

GenSpec == GenInit /\ [][GenNext]_genVars
-----------------------------------------------------------------------------
GenTypeOK ==
  /\ header \in Headers
  /\ at \in {"codes", "input", "emit", "write", "done", "failed"}
  /\ at \in {"codes", "input"} => pos \in 0..Len(header[at])
  /\ \A n \in DOMAIN syms : syms[n] \in 0..(TooBig - 1)
  /\ codesFile \in {"old", "new", "cut"}

\* What C makes of the headers, whatever the order things stand in: the value of
\* a line, and NoValue when a part of it is none that fits 16 bits.
All(h) == h.codes \o h.input

LinesFor(h, s) == {i \in DOMAIN All(h) : All(h)[i].name = s}

Total(ns) ==
  LET sum[k \in 0..Len(ns)] == IF k = 0 THEN 0 ELSE sum[k - 1] + ns[k]
  IN sum[Len(ns)]

CTerm(h, values, t) ==
  CASE t[1] = "literal" /\ t[2] < TooBig -> t[2]
    [] t[1] = "symbol" /\ LinesFor(h, t[2]) # {} -> values[CHOOSE i \in LinesFor(h, t[2]) : TRUE]
    [] OTHER -> NoValue

CLine(h, values, i) ==
  LET parts == [k \in DOMAIN All(h)[i].expr |-> CTerm(h, values, All(h)[i].expr[k])]
  IN IF \E k \in DOMAIN parts : parts[k] = NoValue THEN NoValue ELSE Total(parts)

CValues(h) ==
  LET values[i \in DOMAIN All(h)] == CLine(h, values, i)
  IN values

\* Headers as the kernel's are.  C has a symbol defined once; it is used only below
\* its definition, which parseHeader relies on (gen/main.go:106-107); no sum needs
\* more than 16 bits; among the types, the buses and the properties there are no
\* aliases, limits aside, and the buses have no limit.
DefinedOnce(h) == \A i, j \in DOMAIN All(h) : All(h)[i].name = All(h)[j].name => i = j

DefinedBefore(h) ==
  \A i \in DOMAIN All(h) : \A k \in DOMAIN All(h)[i].expr :
    All(h)[i].expr[k][1] = "symbol" => \A j \in LinesFor(h, All(h)[i].expr[k][2]) : j < i

NoAliases(h, p) ==
  \A i, j \in {k \in DOMAIN All(h) : /\ Prefix(All(h)[k].name) = p
                                     /\ ~isMaxOrCnt(All(h)[k].name)
                                     /\ CValues(h)[k] # NoValue} :
    CValues(h)[i] = CValues(h)[j] => i = j

LikeTheKernel(h) ==
  /\ h \in [codes : Seq(Line), input : Seq(Line)]
  /\ DefinedOnce(h) /\ DefinedBefore(h)
  /\ \A i \in DOMAIN All(h) : CValues(h)[i] < TooBig
  /\ \A p \in {"EV", "BUS", "INPUT_PROP"} : NoAliases(h, p)
  /\ \A i \in DOMAIN All(h) : Prefix(All(h)[i].name) = "BUS" => ~isMaxOrCnt(All(h)[i].name)

ASSUME HeadersAssumption == \A h \in Headers : LikeTheKernel(h)

CValue(i) == CValues(header)[i]
Name(i)   == All(header)[i].name

\* The lines codes.go is about, and those of some prefixes that are no limits.
Relevant == {i \in DOMAIN All(header) :
               /\ CValue(i) # NoValue
               /\ Wanted(IF i <= Len(header.codes) THEN "codes" ELSE "input", Name(i))}

Lines(ps) == {i \in Relevant : Prefix(Name(i)) \in ps /\ ~isMaxOrCnt(Name(i))}

CodeLines(t) == Lines({p \in DOMAIN prefixType : prefixType[p] = t})

\* codes.go is the source of truth (gen/main.go:9-10), so it had better be true:
\* when the generator has succeeded, every define of the two headers is in its
\* place with the value C gives it, aliases and sums included, and the name of
\* a code is the one defined first (gen/main.go:247-248), that is not a limit.
TablesRight ==
  LET ValueName(is) == {<<CValue(i), Name(i)>> : i \in is}
      NameValue(is) == {<<Name(i), CValue(i)>> : i \in is}
      First(is) == {i \in is : \A j \in is : CValue(j) = CValue(i) => i <= j}
  IN
  codesFile = "new" =>
    /\ ToSet(source.consts) = NameValue(Relevant)
    /\ ToSet(source.evTypeNames) = ValueName(Lines({"EV"}))
    /\ ToSet(source.evTypeByName) = NameValue(Lines({"EV"}))
    /\ \A t \in CodeTypes : ToSet(source.evCodeNames[t]) = ValueName(First(CodeLines(t)))
    /\ ToSet(source.evCodeByName) = NameValue(Lines(DOMAIN prefixType))
    /\ ToSet(source.busNames) = ValueName(Lines({"BUS"}))
    /\ ToSet(source.propNames) = ValueName(Lines({"INPUT_PROP"}))

\* Go refuses a map literal that has a constant key twice, and nothing but the
\* next build would tell: whatever aliases the headers give codes, the tables
\* have every key once (gen/main.go:250-262).
KeysUnique ==
  LET Unique(entries) == \A i, j \in DOMAIN entries : entries[i][1] = entries[j][1] => i = j
  IN /\ \A t \in CodeTypes : Unique(source.evCodeNames[t])
     /\ Unique(source.evTypeNames) /\ Unique(source.evTypeByName)
     /\ Unique(source.evCodeByName)
     /\ Unique(source.busNames) /\ Unique(source.propNames)
=============================================================================

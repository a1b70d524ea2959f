--------------------------- MODULE GeneratorProofs ---------------------------
(***************************************************************************)
(* What is proved of the generator and of the lookups in its tables, for   *)
(* all headers that are as the kernel's (HeadersAssumption).  The          *)
(* generator works on lists of defines; each of them is shown to list the  *)
(* lines it should, in their order, with the values C gives them.          *)
(***************************************************************************)
EXTENDS Names, SequenceTheorems, Induction

\* ds has what e says of the lines in I, the earlier ones first: h says which of
\* them each element is about.
Lists(h, e, ds, I) ==
  /\ h \in [1..Len(ds) -> Nat]
  /\ \A j, k \in 1..Len(ds) : j < k => h[j] < h[k]
  /\ I = {h[j] : j \in 1..Len(ds)}
  /\ \A j \in 1..Len(ds) : ds[j] = e[h[j]]

LEMMA ListsEmpty ==
  ASSUME NEW e
  PROVE  \E h : Lists(h, e, <<>>, {})
<1>1. Len(<<>>) = 0 /\ 1..0 = {}
  OBVIOUS
<1>2. Lists([j \in 1..0 |-> 0], e, <<>>, {})
  BY <1>1 DEF Lists
<1> QED  BY <1>2

LEMMA ListsAppend ==
  ASSUME NEW E, NEW e, NEW ds \in Seq(E), NEW I, NEW h, Lists(h, e, ds, I),
         NEW i \in Nat, \A x \in I : x < i, e[i] \in E
  PROVE  \E g : Lists(g, e, Append(ds, e[i]), I \cup {i})
<1> DEFINE cs == Append(ds, e[i])
           g  == [j \in 1..Len(cs) |-> IF j <= Len(ds) THEN h[j] ELSE i]
<1>1. /\ Len(cs) = Len(ds) + 1 /\ cs[Len(cs)] = e[i]
      /\ \A j \in 1..Len(ds) : cs[j] = ds[j]
  BY AppendProperties
<1>2. Len(ds) \in Nat
  BY LenProperties
<1>3. /\ h \in [1..Len(ds) -> Nat]
      /\ \A j, k \in 1..Len(ds) : j < k => h[j] < h[k]
      /\ I = {h[j] : j \in 1..Len(ds)}
      /\ \A j \in 1..Len(ds) : ds[j] = e[h[j]]
  BY DEF Lists
<1> HIDE DEF cs
<1>4. \A j \in 1..Len(cs) : j \in 1..Len(ds) \/ (j = Len(cs) /\ ~(j <= Len(ds)))
  BY <1>1, <1>2
<1>5. \A j \in 1..Len(ds) : j \in 1..Len(cs) /\ j <= Len(ds) /\ g[j] = h[j]
  BY <1>1, <1>2
<1>6. Len(cs) \in 1..Len(cs) /\ g[Len(cs)] = i
  BY <1>1, <1>2
<1>7. g \in [1..Len(cs) -> Nat]
  BY <1>3, <1>4
<1>8. \A j, k \in 1..Len(cs) : j < k => g[j] < g[k]
  <2> SUFFICES ASSUME NEW j \in 1..Len(cs), NEW k \in 1..Len(cs), j < k PROVE g[j] < g[k]
    OBVIOUS
  <2>1. j \in 1..Len(ds)
    BY <1>1, <1>2
  <2>2. g[j] = h[j] /\ h[j] \in I
    BY <1>3, <1>5, <2>1
  <2>3. CASE k \in 1..Len(ds)
    BY <1>3, <1>5, <2>1, <2>3
  <2>4. CASE k = Len(cs)
    BY <1>6, <2>2, <2>4
  <2> QED  BY <1>4, <2>3, <2>4
<1>9. I \cup {i} = {g[j] : j \in 1..Len(cs)}
  BY <1>3, <1>4, <1>5, <1>6
<1>10. \A j \in 1..Len(cs) : cs[j] = e[g[j]]
  <2> SUFFICES ASSUME NEW j \in 1..Len(cs) PROVE cs[j] = e[g[j]]
    OBVIOUS
  <2>1. CASE j \in 1..Len(ds)
    BY <1>1, <1>3, <1>5, <2>1
  <2>2. CASE j = Len(cs)
    BY <1>1, <1>6, <2>2
  <2> QED  BY <1>4, <2>1, <2>2
<1> HIDE DEF g
<1>11. Lists(g, e, cs, I \cup {i})
  BY <1>7, <1>8, <1>9, <1>10 DEF Lists
<1> QED  BY <1>11 DEF cs

LEMMA ListsConcat ==
  ASSUME NEW E, NEW e, NEW a \in Seq(E), NEW b \in Seq(E), NEW I, NEW J,
         NEW g, Lists(g, e, a, I), NEW h, Lists(h, e, b, J), \A x \in I : \A y \in J : x < y
  PROVE  \E f : Lists(f, e, a \o b, I \cup J)
<1> DEFINE c == a \o b
           f == [j \in 1..Len(c) |-> IF j <= Len(a) THEN g[j] ELSE h[j - Len(a)]]
<1>1. /\ Len(c) = Len(a) + Len(b)
      /\ \A j \in 1..Len(c) : c[j] = IF j <= Len(a) THEN a[j] ELSE b[j - Len(a)]
  BY ConcatProperties
<1>2. Len(a) \in Nat /\ Len(b) \in Nat
  BY LenProperties
<1>3. /\ g \in [1..Len(a) -> Nat]
      /\ \A j, k \in 1..Len(a) : j < k => g[j] < g[k]
      /\ I = {g[j] : j \in 1..Len(a)}
      /\ \A j \in 1..Len(a) : a[j] = e[g[j]]
  BY DEF Lists
<1>4. /\ h \in [1..Len(b) -> Nat]
      /\ \A j, k \in 1..Len(b) : j < k => h[j] < h[k]
      /\ J = {h[j] : j \in 1..Len(b)}
      /\ \A j \in 1..Len(b) : b[j] = e[h[j]]
  BY DEF Lists
<1> HIDE DEF c
<1>5. \A j \in 1..Len(c) : \/ j \in 1..Len(a) /\ j <= Len(a)
                           \/ ~(j <= Len(a)) /\ j - Len(a) \in 1..Len(b)
  BY <1>1, <1>2
<1>6. \A j \in 1..Len(a) : j \in 1..Len(c) /\ j <= Len(a) /\ f[j] = g[j]
  BY <1>1, <1>2
<1>7. \A j \in 1..Len(b) : Len(a) + j \in 1..Len(c) /\ f[Len(a) + j] = h[j]
  BY <1>1, <1>2
<1>8. \A j \in 1..Len(c) : ~(j <= Len(a)) => f[j] = h[j - Len(a)]
  OBVIOUS
<1> HIDE DEF f
<1>9. \A j \in 1..Len(c) : f[j] \in Nat /\ (f[j] \in I \/ f[j] \in J)
  BY <1>3, <1>4, <1>5, <1>6, <1>8
<1>10. f \in [1..Len(c) -> Nat]
  BY <1>9 DEF f
<1>11. \A j, k \in 1..Len(c) : j < k => f[j] < f[k]
  <2> SUFFICES ASSUME NEW j \in 1..Len(c), NEW k \in 1..Len(c), j < k PROVE f[j] < f[k]
    OBVIOUS
  <2>1. CASE k \in 1..Len(a)
    <3>1. j \in 1..Len(a)
      BY <1>2, <2>1
    <3> QED  BY <1>3, <1>6, <2>1, <3>1
  <2>2. CASE ~(k <= Len(a)) /\ j \in 1..Len(a)
    <3>1. f[j] \in I
      BY <1>3, <1>6, <2>2
    <3>2. f[k] \in J
      BY <1>4, <1>5, <1>8, <2>2
    <3> QED  BY <3>1, <3>2
  <2>3. CASE ~(k <= Len(a)) /\ ~(j <= Len(a))
    <3>1. /\ j - Len(a) \in 1..Len(b) /\ k - Len(a) \in 1..Len(b)
          /\ f[j] = h[j - Len(a)] /\ f[k] = h[k - Len(a)]
      BY <1>5, <1>8, <2>3
    <3>2. j - Len(a) < k - Len(a)
      BY <1>1, <1>2
    <3> QED  BY <1>4, <3>1, <3>2
  <2> QED  BY <1>5, <2>1, <2>2, <2>3
<1>12. I \cup J = {f[j] : j \in 1..Len(c)}
  <2>1. ASSUME NEW x \in I PROVE x \in {f[j] : j \in 1..Len(c)}
    BY <1>3, <1>6
  <2>2. ASSUME NEW x \in J PROVE x \in {f[j] : j \in 1..Len(c)}
    BY <1>4, <1>7
  <2> QED  BY <1>9, <2>1, <2>2
<1>13. \A j \in 1..Len(c) : c[j] = e[f[j]]
  <2> SUFFICES ASSUME NEW j \in 1..Len(c) PROVE c[j] = e[f[j]]
    OBVIOUS
  <2>1. CASE j \in 1..Len(a) /\ j <= Len(a)
    BY <1>1, <1>3, <1>6, <2>1
  <2>2. CASE ~(j <= Len(a)) /\ j - Len(a) \in 1..Len(b)
    BY <1>1, <1>4, <1>8, <2>2
  <2> QED  BY <1>5, <2>1, <2>2
<1>14. Lists(f, e, c, I \cup J)
  BY <1>10, <1>11, <1>12, <1>13 DEF Lists
<1> QED  BY <1>14 DEF c
-----------------------------------------------------------------------------
(* Selected keeps what is listed in its order.                             *)

Selects(f, s, places, m) ==
  f = [n \in 0..m |-> IF n = 0 THEN <<>>
        ELSE IF n \in places THEN Append(f[n - 1], s[n]) ELSE f[n - 1]]

LEMMA SelectsExists == ASSUME NEW s, NEW places PROVE \A m \in Nat : \E f : Selects(f, s, places, m)
<1> DEFINE S == {m \in Nat : \E f : Selects(f, s, places, m)}
<1>1. 0 \in S
  <2>1. Selects([n \in 0..0 |-> <<>>], s, places, 0)
    BY DEF Selects
  <2> QED  BY <2>1
<1>2. ASSUME NEW m \in S PROVE m + 1 \in S
  <2>1. PICK f : Selects(f, s, places, m)
    OBVIOUS
  <2> DEFINE g == [n \in 0..(m + 1) |->
                     IF n = 0 THEN <<>>
                     ELSE IF n \in places THEN Append(f[n - 1], s[n]) ELSE f[n - 1]]
  <2>2. m \in Nat
    OBVIOUS
  <2>3. \A n \in 0..m : g[n] = f[n]
    <3>1. \A n \in 0..m : f[n] = IF n = 0 THEN <<>>
                     ELSE IF n \in places THEN Append(f[n - 1], s[n]) ELSE f[n - 1]
      BY <2>1 DEF Selects
    <3>2. 0..m \subseteq 0..(m + 1)
      BY <2>2
    <3> QED  BY <3>1, <3>2
  <2>4. \A n \in 0..(m + 1) : n # 0 => n - 1 \in 0..m
    OBVIOUS
  <2>5. Selects(g, s, places, m + 1)
    BY <2>3, <2>4 DEF Selects
  <2> HIDE DEF g
  <2> QED  BY <2>5
<1> HIDE DEF S
<1>3. Nat \subseteq S
  BY <1>1, <1>2, SetInduction
<1> QED  BY <1>3 DEF S

\* What h says the first m elements are about, of those at some places.
About(h, places, m) == {h[j] : j \in places \cap 1..m}

LEMMA SelectedLists ==
  ASSUME NEW E, NEW e, NEW ds \in Seq(E), NEW I, NEW h, Lists(h, e, ds, I), NEW places
  PROVE  /\ Selected(ds, places) \in Seq(E)
         /\ \E g : Lists(g, e, Selected(ds, places), About(h, places, Len(ds)))
<1> DEFINE L == Len(ds)
           J(n) == About(h, places, n)
<1>1. L \in Nat /\ \A j \in 1..L : ds[j] \in E
  BY LenProperties, ElementOfSeq
<1>2. /\ h \in [1..L -> Nat]
      /\ \A j, k \in 1..L : j < k => h[j] < h[k]
      /\ \A j \in 1..L : ds[j] = e[h[j]]
  BY DEF Lists
<1> HIDE DEF L
<1>3. \E f : Selects(f, ds, places, L)
  BY <1>1, SelectsExists
<1>4. PICK f : Selects(f, ds, places, L) /\ Selected(ds, places) = f[L]
  <2>1. Selects(CHOOSE f : Selects(f, ds, places, L), ds, places, L)
    BY <1>3
  <2> QED  BY <2>1 DEF Selected, Selects, L
<1>5. \A n \in 0..L : f[n] = IF n = 0 THEN <<>>
        ELSE IF n \in places THEN Append(f[n - 1], ds[n]) ELSE f[n - 1]
  BY <1>4 DEF Selects
<1> DEFINE Right(n) == f[n] \in Seq(E) /\ \E g : Lists(g, e, f[n], J(n))
           S == {n \in Nat : n <= L => Right(n)}
<1> HIDE DEF J, Right
<1>6. 0 \in S
  <2>1. f[0] = <<>>
    BY <1>1, <1>5
  <2>2. J(0) = {}
    BY DEF J, About
  <2>3. <<>> \in Seq(E)
    OBVIOUS
  <2>4. Right(0)
    BY <2>1, <2>2, <2>3, ListsEmpty DEF Right
  <2> QED  BY <2>4
<1>7. ASSUME NEW n \in S, n \in Nat PROVE n + 1 \in S
  <2> SUFFICES ASSUME n + 1 <= L PROVE Right(n + 1)
    BY <1>7
  <2>1. n + 1 \in 1..L /\ n + 1 \in 0..L /\ n + 1 # 0 /\ (n + 1) - 1 = n /\ n <= L
    BY <1>1, <1>7
  <2>2. Right(n)
    BY <2>1
  <2>3. f[n + 1] = IF n + 1 \in places THEN Append(f[n], ds[n + 1]) ELSE f[n]
    BY <1>5, <2>1
  <2>4. CASE n + 1 \in places
    <3> DEFINE i == h[n + 1]
    <3>1. i \in Nat /\ ds[n + 1] = e[i] /\ e[i] \in E
      BY <1>1, <1>2, <2>1
    <3>2. \A x \in J(n) : x < i
      <4> SUFFICES ASSUME NEW j \in 1..n PROVE h[j] < i
        BY DEF J, About
      <4>1. j \in 1..L /\ j < n + 1
        BY <1>1, <1>7, <2>1
      <4> QED  BY <1>2, <2>1, <4>1
    <3>3. J(n + 1) = J(n) \cup {i}
      <4>1. 1..(n + 1) = 1..n \cup {n + 1}
        BY <1>7
      <4> QED  BY <2>4, <4>1 DEF J, About
    <3>4. f[n + 1] = Append(f[n], e[i])
      BY <2>3, <2>4, <3>1
    <3> HIDE DEF i
    <3>5. f[n] \in Seq(E)
      BY <2>2 DEF Right
    <3>6. PICK k : Lists(k, e, f[n], J(n))
      BY <2>2 DEF Right
    <3>7. \E g : Lists(g, e, Append(f[n], e[i]), J(n) \cup {i})
      BY <3>1, <3>2, <3>5, <3>6, ListsAppend
    <3>8. Append(f[n], e[i]) \in Seq(E)
      BY <3>1, <3>5, AppendProperties
    <3> QED  BY <3>3, <3>4, <3>7, <3>8 DEF Right
  <2>5. CASE n + 1 \notin places
    <3>1. J(n + 1) = J(n)
      <4>1. 1..(n + 1) = 1..n \cup {n + 1}
        BY <1>7
      <4> QED  BY <2>5, <4>1 DEF J, About
    <3> QED  BY <2>2, <2>3, <2>5, <3>1 DEF Right
  <2> QED  BY <2>4, <2>5
<1> HIDE DEF S
<1>8. Nat \subseteq S
  BY <1>6, <1>7, SetInduction
<1>9. Right(L)
  BY <1>1, <1>8 DEF S
<1> QED  BY <1>4, <1>9 DEF L, Right, J
-----------------------------------------------------------------------------
(* The sums: what C adds up, and what resolve does.                        *)

Value == Nat \cup {NoValue}

LEMMA ModSmall == \A n \in Nat : n < TooBig => n % TooBig = n
BY DEF TooBig

Adds(t, ns, m) == t = [k \in 0..m |-> IF k = 0 THEN 0 ELSE t[k - 1] + ns[k]]

LEMMA TotalIs ==
  ASSUME NEW m \in Nat, NEW ns, ns \in Seq(Nat), Len(ns) = m
  PROVE  \E t \in [0..m -> Nat] :
           /\ t[0] = 0
           /\ \A k \in 1..m : t[k] = t[k - 1] + ns[k]
           /\ Total(ns) = t[m]
<1> DEFINE G == [p \in Nat \X Nat |-> IF p[1] \in 1..m THEN p[2] + ns[p[1]] ELSE p[2]]
<1>1. \A k \in 1..m : ns[k] \in Nat
  BY ElementOfSeq
<1>2. G \in [Nat \X Nat -> Nat]
  BY <1>1
<1> HIDE DEF G
<1>3. PICK f \in [0..m -> Nat] : Recurs(f, 0, G, m)
  BY <1>1, <1>2, RecursionExists
<1>4. \A k \in 1..m : k # 0 /\ k - 1 \in 0..m /\ k \in Nat /\ k \in 0..m
  OBVIOUS
<1>5. \A k \in 1..m : G[<<k, f[k - 1]>>] = f[k - 1] + ns[k]
  BY <1>4 DEF G
<1>6. \A k \in 0..m : k = 0 \/ k \in 1..m
  OBVIOUS
<1>7. Adds(f, ns, m)
  BY <1>3, <1>5, <1>6 DEF Recurs, Adds
<1>8. PICK t : Adds(t, ns, m) /\ Total(ns) = t[m]
  <2>1. Adds(CHOOSE t : Adds(t, ns, m), ns, m)
    BY <1>7
  <2> QED  BY <2>1 DEF Total, Adds
<1>9. \A k \in 0..m : t[k] = IF k = 0 THEN 0 ELSE t[k - 1] + ns[k]
  BY <1>8 DEF Adds
<1>10. t[0] = 0 /\ \A k \in 1..m : t[k] = t[k - 1] + ns[k]
  BY <1>4, <1>9
<1> DEFINE S == {k \in Nat : k <= m => t[k] \in Nat}
<1>11. 0 \in S
  BY <1>10
<1>12. ASSUME NEW k \in S, k \in Nat PROVE k + 1 \in S
  <2> SUFFICES ASSUME k + 1 <= m PROVE t[k + 1] \in Nat
    BY <1>12
  <2>1. k + 1 \in 1..m /\ (k + 1) - 1 = k /\ k <= m
    BY <1>12
  <2>2. t[k] \in Nat /\ ns[k + 1] \in Nat
    BY <1>1, <2>1
  <2> QED  BY <1>10, <2>1, <2>2
<1> HIDE DEF S
<1>13. Nat \subseteq S
  BY <1>11, <1>12, SetInduction
<1>14. t \in [0..m -> Nat]
  <2>1. \A k \in 0..m : t[k] \in Nat
    BY <1>13 DEF S
  <2>2. t = [k \in 0..m |-> t[k]]
    BY <1>8 DEF Adds
  <2> QED  BY <2>1, <2>2
<1> QED  BY <1>8, <1>10, <1>14

Plus(a, b) == IF NoValue \in {a, b} THEN NoValue ELSE (a + b) % TooBig

Resolves(f, expr, known, m) ==
  f = [k \in 0..m |-> IF k = 0 THEN 0 ELSE Plus(f[k - 1], ResolveTerm(expr[k], known))]

LEMMA PlusType == \A a, b \in Value : Plus(a, b) \in Value
<1> SUFFICES ASSUME NEW a \in Value, NEW b \in Value, a # NoValue, b # NoValue
             PROVE  (a + b) % TooBig \in Value
  BY DEF Value, Plus
<1>1. a \in Nat /\ b \in Nat
  BY DEF Value
<1> QED  BY <1>1, SMT DEF Value, TooBig

LEMMA ResolveIs ==
  ASSUME NEW expr \in Seq(Term), NEW m, m = Len(expr), NEW known,
         \A k \in 1..m : ResolveTerm(expr[k], known) \in Value
  PROVE  \E f : /\ f[0] = 0
                /\ \A k \in 1..m : f[k] = Plus(f[k - 1], ResolveTerm(expr[k], known))
                /\ resolve(expr, known) = f[m]
<1> DEFINE G == [p \in Nat \X Value |->
                  IF p[1] \in 1..m THEN Plus(p[2], ResolveTerm(expr[p[1]], known)) ELSE p[2]]
<1>1. m \in Nat
  BY LenProperties
<1>2. G \in [Nat \X Value -> Value]
  <2>1. ASSUME NEW p \in Nat \X Value PROVE G[p] \in Value
    BY PlusType
  <2> QED  BY <2>1
<1> HIDE DEF G
<1>3. 0 \in Value
  BY DEF Value
<1>4. PICK f \in [0..m -> Value] : Recurs(f, 0, G, m)
  BY <1>1, <1>2, <1>3, RecursionExists
<1>5. \A k \in 1..m : k # 0 /\ k - 1 \in 0..m /\ k \in Nat /\ k \in 0..m
  BY <1>1
<1>6. \A k \in 1..m : G[<<k, f[k - 1]>>] = Plus(f[k - 1], ResolveTerm(expr[k], known))
  BY <1>5 DEF G
<1>7. \A k \in 0..m : k = 0 \/ k \in 1..m
  BY <1>1
<1>8. Resolves(f, expr, known, m)
  BY <1>4, <1>6, <1>7 DEF Recurs, Resolves
<1>9. PICK t : Resolves(t, expr, known, m) /\ resolve(expr, known) = t[m]
  <2>1. Resolves(CHOOSE t : Resolves(t, expr, known, m), expr, known, m)
    BY <1>8
  <2>2. resolve(expr, known) = (CHOOSE t : Resolves(t, expr, known, m))[m]
    BY DEF resolve, Resolves, Plus
  <2> QED  BY <2>1, <2>2
<1>10. \A k \in 0..m : t[k] = IF k = 0 THEN 0 ELSE Plus(t[k - 1], ResolveTerm(expr[k], known))
  BY <1>9 DEF Resolves
<1>11. 0 \in 0..m
  BY <1>1
<1>12. t[0] = 0 /\ \A k \in 1..m : t[k] = Plus(t[k - 1], ResolveTerm(expr[k], known))
  BY <1>5, <1>10, <1>11
<1> QED  BY <1>9, <1>12

\* Of parts that fit in 16 bits together, resolve makes their total; it makes
\* nothing of the line if it does not understand one.
LEMMA ResolveSum ==
  ASSUME NEW expr \in Seq(Term), NEW m, m = Len(expr), NEW known, NEW parts \in [1..m -> Value],
         \A k \in 1..m : ResolveTerm(expr[k], known) = parts[k],
         (\A k \in 1..m : parts[k] # NoValue) => Total(parts) < TooBig
  PROVE  resolve(expr, known) = IF \E k \in 1..m : parts[k] = NoValue THEN NoValue
                                ELSE Total(parts)
<1>1. m \in Nat
  BY LenProperties
<1>2. PICK f : /\ f[0] = 0
               /\ \A k \in 1..m : f[k] = Plus(f[k - 1], parts[k])
               /\ resolve(expr, known) = f[m]
  <2>1. \A k \in 1..m : ResolveTerm(expr[k], known) \in Value
    OBVIOUS
  <2>2. \E f : /\ f[0] = 0
               /\ \A k \in 1..m : f[k] = Plus(f[k - 1], ResolveTerm(expr[k], known))
               /\ resolve(expr, known) = f[m]
    BY <2>1, ResolveIs
  <2> QED  BY <2>2
<1>3. CASE \E k \in 1..m : parts[k] = NoValue
  <2>1. PICK k \in 1..m : parts[k] = NoValue
    BY <1>3
  <2> DEFINE S == {n \in Nat : k + n <= m => f[k + n] = NoValue}
  <2>2. 0 \in S
    <3>1. f[k] = NoValue /\ k + 0 = k
      BY <1>2, <2>1 DEF Plus
    <3> QED  BY <3>1
  <2>3. ASSUME NEW n \in S, n \in Nat PROVE n + 1 \in S
    <3> SUFFICES ASSUME k + (n + 1) <= m PROVE f[k + (n + 1)] = NoValue
      BY <2>3
    <3>1. k + (n + 1) \in 1..m /\ (k + (n + 1)) - 1 = k + n /\ k + n <= m
      BY <1>1, <2>1, <2>3
    <3>2. f[k + n] = NoValue
      BY <3>1
    <3> QED  BY <1>2, <3>1, <3>2 DEF Plus
  <2> HIDE DEF S
  <2>4. Nat \subseteq S
    BY <2>2, <2>3, SetInduction
  <2>5. m - k \in Nat /\ k + (m - k) = m /\ m <= m
    BY <1>1, <2>1
  <2>6. f[m] = NoValue
    <3>1. m - k \in S
      BY <2>4, <2>5
    <3> QED  BY <2>5, <3>1 DEF S
  <2> QED  BY <1>2, <1>3, <2>6
<1>4. CASE \A k \in 1..m : parts[k] # NoValue
  <2>1. \A k \in 1..m : parts[k] \in Nat
    BY <1>4 DEF Value
  <2>2. parts \in [1..m -> Nat]
    BY <2>1
  <2>3. parts \in Seq(Nat) /\ Len(parts) = m
    BY <1>1, <2>2, SeqDef, LenProperties
  <2>4. PICK t \in [0..m -> Nat] : /\ t[0] = 0
                                   /\ \A k \in 1..m : t[k] = t[k - 1] + parts[k]
                                   /\ Total(parts) = t[m]
    BY <1>1, <2>3, TotalIs
  <2>5. \A k \in 1..m : t[k - 1] <= t[k]
    <3> SUFFICES ASSUME NEW k \in 1..m PROVE t[k - 1] <= t[k]
      OBVIOUS
    <3>1. k - 1 \in 0..m /\ t[k - 1] \in Nat /\ parts[k] \in Nat
      BY <1>1, <2>1
    <3> QED  BY <2>4, <3>1
  <2>6. \A k \in 0..m : t[k] <= t[m]
    <3> DEFINE S == {n \in Nat : n <= m => t[m - n] <= t[m]}
    <3>1. 0 \in S
      <4>1. m - 0 = m /\ t[m] \in Nat
        BY <1>1
      <4> QED  BY <4>1
    <3>2. ASSUME NEW n \in S, n \in Nat PROVE n + 1 \in S
      <4> SUFFICES ASSUME n + 1 <= m PROVE t[m - (n + 1)] <= t[m]
        BY <3>2
      <4>1. /\ m - n \in 1..m /\ (m - n) - 1 = m - (n + 1) /\ n <= m
            /\ m - (n + 1) \in 0..m /\ m - n \in 0..m /\ m \in 0..m
        BY <1>1, <3>2
      <4>2. t[m - n] <= t[m]
        BY <4>1
      <4>4. t[m - (n + 1)] <= t[m - n]
        <5> DEFINE k == m - n
        <5>1. k \in 1..m /\ k - 1 = m - (n + 1)
          BY <4>1
        <5> HIDE DEF k
        <5>2. t[k - 1] <= t[k]
          BY <2>5, <5>1
        <5> QED  BY <5>1, <5>2 DEF k
      <4>3. t[m - n] \in Nat /\ t[m] \in Nat /\ t[m - (n + 1)] \in Nat
        BY <4>1
      <4> QED  BY <4>2, <4>3, <4>4
    <3> HIDE DEF S
    <3>3. Nat \subseteq S
      BY <3>1, <3>2, SetInduction
    <3>4. \A k \in 0..m : m - k \in Nat /\ m - k <= m /\ m - (m - k) = k
      BY <1>1
    <3> QED  BY <3>3, <3>4 DEF S
  <2>7. t[m] < TooBig
    BY <1>4, <2>4
  <2> DEFINE S == {n \in Nat : n <= m => f[n] = t[n]}
  <2>8. 0 \in S
    BY <1>2, <2>4
  <2>9. ASSUME NEW n \in S, n \in Nat PROVE n + 1 \in S
    <3> SUFFICES ASSUME n + 1 <= m PROVE f[n + 1] = t[n + 1]
      BY <2>9
    <3>1. n + 1 \in 1..m /\ n + 1 \in 0..m /\ m \in 0..m /\ n \in 0..m /\ (n + 1) - 1 = n /\ n <= m
      BY <1>1, <2>9
    <3>2. f[n] = t[n] /\ parts[n + 1] # NoValue /\ parts[n + 1] \in Nat
      BY <1>4, <2>1, <3>1
    <3>3. t[n] \in Nat /\ t[n + 1] \in Nat /\ t[m] \in Nat /\ t[n + 1] = t[n] + parts[n + 1]
      BY <2>4, <3>1
    <3>4. t[n] # NoValue
      BY <3>3 DEF NoValue
    <3>5. f[n + 1] = t[n + 1] % TooBig
      BY <1>2, <3>1, <3>2, <3>3, <3>4 DEF Plus
    <3>6. t[n + 1] < TooBig
      BY <2>6, <2>7, <3>1, <3>3
    <3>7. t[n + 1] \in Nat
      BY <3>3
    <3>8. t[n + 1] % TooBig = t[n + 1]
      BY <3>6, <3>7, ModSmall
    <3> QED  BY <3>5, <3>8
  <2> HIDE DEF S
  <2>10. Nat \subseteq S
    BY <2>8, <2>9, SetInduction
  <2>11. f[m] = t[m]
    BY <1>1, <2>10 DEF S
  <2> QED  BY <1>2, <1>4, <2>4, <2>11
<1> QED  BY <1>3, <1>4
-----------------------------------------------------------------------------
(* What C makes of a line depends on earlier lines only, so CValues exist. *)

LEMMA HeaderType ==
  ASSUME NEW h \in Headers
  PROVE  /\ h.codes \in Seq(Line) /\ h.input \in Seq(Line)
         /\ All(h) \in Seq(Line)
         /\ Len(All(h)) \in Nat /\ Len(h.codes) \in Nat /\ Len(h.input) \in Nat
         /\ Len(All(h)) = Len(h.codes) + Len(h.input)
         /\ DOMAIN All(h) = 1..Len(All(h))
         /\ \A i \in 1..Len(h.codes) : All(h)[i] = h.codes[i]
         /\ \A i \in 1..Len(h.input) : All(h)[Len(h.codes) + i] = h.input[i]
<1>1. h.codes \in Seq(Line) /\ h.input \in Seq(Line)
  BY HeadersAssumption DEF LikeTheKernel
<1>2. /\ All(h) \in Seq(Line)
      /\ Len(All(h)) = Len(h.codes) + Len(h.input)
      /\ \A i \in 1..Len(All(h)) :
           All(h)[i] = IF i <= Len(h.codes) THEN h.codes[i] ELSE h.input[i - Len(h.codes)]
  BY <1>1, ConcatProperties DEF All
<1>3. Len(All(h)) \in Nat /\ Len(h.codes) \in Nat /\ Len(h.input) \in Nat
  BY <1>1, <1>2, LenProperties
<1>4. DOMAIN All(h) = 1..Len(All(h))
  BY <1>2, LenProperties
<1>5. \A a, b \in Nat : \A i \in 1..a : i \in 1..(a + b) /\ i <= a
  OBVIOUS
<1>6. \A a, b \in Nat : \A i \in 1..b : a + i \in 1..(a + b) /\ ~(a + i <= a) /\ (a + i) - a = i
  OBVIOUS
<1> QED  BY <1>1, <1>2, <1>3, <1>4, <1>5, <1>6

LEMMA LineType ==
  ASSUME NEW h \in Headers, NEW i \in 1..Len(All(h))
  PROVE  /\ All(h)[i].name \in SymName
         /\ All(h)[i].expr \in Seq(Term)
         /\ Len(All(h)[i].expr) \in Nat
         /\ DOMAIN All(h)[i].expr = 1..Len(All(h)[i].expr)
         /\ \A k \in 1..Len(All(h)[i].expr) : All(h)[i].expr[k] \in Term
<1>1. All(h)[i] \in Line
  BY HeaderType, ElementOfSeq
<1>2. All(h)[i].name \in SymName /\ All(h)[i].expr \in Seq(Term)
  BY <1>1 DEF Line, Nonempty
<1> QED  BY <1>2, LenProperties, ElementOfSeq

Uses(h, i, s) ==
  \E k \in 1..Len(All(h)[i].expr) : /\ All(h)[i].expr[k][1] = "symbol"
                                    /\ All(h)[i].expr[k][2] = s

\* The symbols of a line are those of earlier lines, or of none.
LEMMA SymbolEarlier ==
  ASSUME NEW h \in Headers, NEW i \in 1..Len(All(h)), NEW s, Uses(h, i, s),
         NEW j \in LinesFor(h, s)
  PROVE  /\ LinesFor(h, s) = {j}
         /\ j \in 1..(i - 1) /\ j \in 1..Len(All(h))
         /\ All(h)[j].name = s
<1>1. Len(All(h)) \in Nat /\ DOMAIN All(h) = 1..Len(All(h))
  BY HeaderType
<1>2. DOMAIN All(h)[i].expr = 1..Len(All(h)[i].expr)
  BY LineType
<1>3. DefinedOnce(h) /\ DefinedBefore(h)
  BY HeadersAssumption DEF LikeTheKernel
<1>4. j \in 1..Len(All(h)) /\ All(h)[j].name = s
  BY <1>1 DEF LinesFor
<1>5. j < i
  BY <1>1, <1>2, <1>3 DEF DefinedBefore, Uses
<1>6. LinesFor(h, s) = {j}
  BY <1>1, <1>3, <1>4 DEF DefinedOnce, LinesFor
<1> QED  BY <1>1, <1>4, <1>5, <1>6

\* What a symbol then stands for.
LEMMA SymbolTerm ==
  ASSUME NEW h \in Headers, NEW i \in 1..Len(All(h)), NEW s, Uses(h, i, s), LinesFor(h, s) # {}
  PROVE  \E j \in 1..(i - 1) : /\ j \in 1..Len(All(h))
                               /\ All(h)[j].name = s
                               /\ LinesFor(h, s) = {j}
                               /\ (CHOOSE l \in LinesFor(h, s) : TRUE) = j
<1>1. PICK j \in LinesFor(h, s) : TRUE
  OBVIOUS
<1>2. /\ LinesFor(h, s) = {j} /\ j \in 1..(i - 1) /\ j \in 1..Len(All(h))
      /\ All(h)[j].name = s
  BY <1>1, SymbolEarlier
<1>3. (CHOOSE l \in LinesFor(h, s) : TRUE) = j
  BY <1>2
<1> QED  BY <1>2, <1>3

\* The parts of a line.
CParts(h, v, i) == [k \in DOMAIN All(h)[i].expr |-> CTerm(h, v, All(h)[i].expr[k])]

LEMMA PartsAgree ==
  ASSUME NEW h \in Headers, NEW i \in 1..Len(All(h)), NEW v, NEW w,
         \A j \in 1..(i - 1) : v[j] = w[j]
  PROVE  CLine(h, v, i) = CLine(h, w, i)
<1>1. DOMAIN All(h)[i].expr = 1..Len(All(h)[i].expr)
  BY LineType
<1>2. ASSUME NEW k \in 1..Len(All(h)[i].expr)
      PROVE  CTerm(h, v, All(h)[i].expr[k]) = CTerm(h, w, All(h)[i].expr[k])
  <2> DEFINE t == All(h)[i].expr[k]
  <2> HIDE DEF t
  <2>1. CASE t[1] = "symbol" /\ LinesFor(h, t[2]) # {}
    <3>1. Uses(h, i, t[2])
      BY <2>1 DEF t, Uses
    <3>2. PICK j \in 1..(i - 1) : (CHOOSE l \in LinesFor(h, t[2]) : TRUE) = j
      BY <2>1, <3>1, SymbolTerm
    <3>3. CTerm(h, v, t) = v[j] /\ CTerm(h, w, t) = w[j]
      BY <2>1, <3>2 DEF CTerm
    <3> QED  BY <3>3 DEF t
  <2>2. CASE ~(t[1] = "symbol" /\ LinesFor(h, t[2]) # {})
    BY <2>2 DEF CTerm, t
  <2> QED  BY <2>1, <2>2 DEF t
<1>3. CParts(h, v, i) = CParts(h, w, i)
  BY <1>1, <1>2 DEF CParts
<1> QED  BY <1>3 DEF CLine, CParts

LEMMA PartsType ==
  ASSUME NEW h \in Headers, NEW i \in 1..Len(All(h)), NEW v,
         \A j \in 1..(i - 1) : v[j] \in Value
  PROVE  CParts(h, v, i) \in [1..Len(All(h)[i].expr) -> Value]
<1>1. DOMAIN All(h)[i].expr = 1..Len(All(h)[i].expr)
  BY LineType
<1>2. ASSUME NEW k \in 1..Len(All(h)[i].expr)
      PROVE  CTerm(h, v, All(h)[i].expr[k]) \in Value
  <2> DEFINE t == All(h)[i].expr[k]
  <2>1. t \in Term
    BY LineType
  <2> HIDE DEF t
  <2>2. CASE t[1] = "literal" /\ t[2] < TooBig
    <3>1. t[2] \in Nat
      BY <2>1, <2>2 DEF Term, Other
    <3> QED  BY <2>2, <3>1 DEF CTerm, Value, t
  <2>3. CASE t[1] = "symbol" /\ LinesFor(h, t[2]) # {}
    <3>1. Uses(h, i, t[2])
      BY <2>3 DEF t, Uses
    <3>2. PICK j \in 1..(i - 1) : (CHOOSE l \in LinesFor(h, t[2]) : TRUE) = j
      BY <2>3, <3>1, SymbolTerm
    <3>3. CTerm(h, v, t) = v[j]
      BY <2>3, <3>2 DEF CTerm
    <3> QED  BY <3>3 DEF t
  <2>4. CASE ~(t[1] = "literal" /\ t[2] < TooBig) /\ ~(t[1] = "symbol" /\ LinesFor(h, t[2]) # {})
    <3>1. CTerm(h, v, t) = NoValue
      BY <2>4 DEF CTerm
    <3> QED  BY <3>1 DEF Value, t
  <2> QED  BY <2>2, <2>3, <2>4
<1> QED  BY <1>1, <1>2 DEF CParts

LEMMA LineSum ==
  ASSUME NEW h \in Headers, NEW i \in 1..Len(All(h)), NEW v,
         \A j \in 1..(i - 1) : v[j] \in Value
  PROVE  /\ CLine(h, v, i) \in Value
         /\ CLine(h, v, i) = IF \E k \in 1..Len(All(h)[i].expr) : CParts(h, v, i)[k] = NoValue
                             THEN NoValue ELSE Total(CParts(h, v, i))
<1> DEFINE parts == CParts(h, v, i)
           m == Len(All(h)[i].expr)
<1>1. m \in Nat /\ parts \in [1..m -> Value]
  BY LineType, PartsType
<1>2. CLine(h, v, i) = IF \E k \in DOMAIN parts : parts[k] = NoValue THEN NoValue ELSE Total(parts)
  BY DEF CLine, CParts
<1> HIDE DEF parts, m
<1>3. CLine(h, v, i) = IF \E k \in 1..m : parts[k] = NoValue THEN NoValue ELSE Total(parts)
  BY <1>1, <1>2
<1>4. CLine(h, v, i) \in Value
  <2>1. CASE \E k \in 1..m : parts[k] = NoValue
    BY <1>3, <2>1 DEF Value
  <2>2. CASE \A k \in 1..m : parts[k] # NoValue
    <3>1. \A k \in 1..m : parts[k] \in Nat
      BY <1>1, <2>2 DEF Value
    <3>2. parts \in [1..m -> Nat]
      BY <1>1, <3>1
    <3>3. parts \in Seq(Nat) /\ Len(parts) = m
      BY <1>1, <3>2, SeqDef, LenProperties
    <3>4. \E t \in [0..m -> Nat] : Total(parts) = t[m]
      BY <1>1, <3>3, TotalIs
    <3>5. Total(parts) \in Nat
      BY <1>1, <3>4
    <3> QED  BY <1>3, <2>2, <3>5 DEF Value
  <2> QED  BY <2>1, <2>2
<1> QED  BY <1>3, <1>4 DEF parts, m

Solves(v, h, m) == v = [i \in 1..m |-> CLine(h, v, i)]

LEMMA CValuesExist ==
  ASSUME NEW h \in Headers
  PROVE  \A m \in 0..Len(All(h)) : \E v \in [1..m -> Value] : Solves(v, h, m)
<1> DEFINE L == Len(All(h))
           S == {m \in Nat : m <= L => \E v \in [1..m -> Value] : Solves(v, h, m)}
<1>1. L \in Nat
  BY HeaderType
<1>2. 0 \in S
  <2> DEFINE v == [i \in 1..0 |-> 0]
  <2>1. 1..0 = {}
    OBVIOUS
  <2>2. v \in [1..0 -> Value] /\ Solves(v, h, 0)
    BY <2>1 DEF Solves
  <2> QED  BY <2>2
<1>3. ASSUME NEW m \in S, m \in Nat PROVE m + 1 \in S
  <2> SUFFICES ASSUME m + 1 <= L PROVE \E v \in [1..(m + 1) -> Value] : Solves(v, h, m + 1)
    BY <1>3
  <2>1. m <= L
    BY <1>1, <1>3
  <2>2. PICK v \in [1..m -> Value] : Solves(v, h, m)
    BY <2>1
  <2> DEFINE w == [i \in 1..(m + 1) |-> CLine(h, v, i)]
  <2> HIDE DEF S, L
  <2>3. \A i \in 1..(m + 1) : i \in 1..L /\ \A j \in 1..(i - 1) : j \in 1..m /\ j \in 1..(m + 1)
    BY <1>1, <1>3
  <2>4. \A i \in 1..m : v[i] = CLine(h, v, i)
    BY <2>2 DEF Solves
  <2>5. \A i \in 1..(m + 1) : CLine(h, v, i) \in Value
    BY <2>2, <2>3, LineSum DEF L
  <2>6. w \in [1..(m + 1) -> Value]
    BY <2>5
  <2>7. \A j \in 1..m : w[j] = v[j]
    <3>1. \A j \in 1..m : j \in 1..(m + 1)
      BY <1>3
    <3> QED  BY <2>4, <3>1
  <2>8. \A i \in 1..(m + 1) : CLine(h, v, i) = CLine(h, w, i)
    <3> HIDE DEF w
    <3> SUFFICES ASSUME NEW i \in 1..(m + 1) PROVE CLine(h, v, i) = CLine(h, w, i)
      OBVIOUS
    <3>1. i \in 1..Len(All(h)) /\ \A j \in 1..(i - 1) : v[j] = w[j]
      BY <2>3, <2>7 DEF L
    <3> QED  BY <3>1, PartsAgree
  <2>9. Solves(w, h, m + 1)
    BY <2>8 DEF Solves
  <2> HIDE DEF w
  <2> QED  BY <2>6, <2>9
<1> HIDE DEF S
<1>4. Nat \subseteq S
  BY <1>2, <1>3, SetInduction
<1> QED  BY <1>1, <1>4 DEF S

LEMMA CValuesRight ==
  ASSUME NEW h \in Headers
  PROVE  /\ \A i \in 1..Len(All(h)) : CValues(h)[i] = CLine(h, CValues(h), i)
         /\ \A i \in 1..Len(All(h)) : CValues(h)[i] \in Value
<1> DEFINE L == Len(All(h))
           c == CHOOSE v : Solves(v, h, L)
<1>1. L \in Nat /\ DOMAIN All(h) = 1..L
  BY HeaderType
<1>2. \E v : Solves(v, h, L)
  BY <1>1, CValuesExist
<1>3. Solves(c, h, L)
  BY <1>2
<1>4. CValues(h) = c
  BY <1>1 DEF CValues, Solves
<1> HIDE DEF c
<1>5. \A i \in 1..L : CValues(h)[i] = CLine(h, CValues(h), i)
  BY <1>3, <1>4 DEF Solves
<1> DEFINE S == {n \in Nat : \A i \in 1..n : i <= L => CValues(h)[i] \in Value}
<1>6. 0 \in S
  OBVIOUS
<1>7. ASSUME NEW n \in S, n \in Nat PROVE n + 1 \in S
  <2> SUFFICES ASSUME NEW i \in 1..(n + 1), i <= L PROVE CValues(h)[i] \in Value
    BY <1>7
  <2>1. \A j \in 1..(i - 1) : j \in 1..n /\ j <= L
    BY <1>1, <1>7
  <2>2. \A j \in 1..(i - 1) : CValues(h)[j] \in Value
    BY <2>1
  <2> HIDE DEF S
  <2>3. i \in 1..Len(All(h))
    BY <1>1, <1>7
  <2> QED  BY <1>5, <2>2, <2>3, LineSum
<1> HIDE DEF S
<1>8. Nat \subseteq S
  BY <1>6, <1>7, SetInduction
<1>9. \A i \in 1..L : CValues(h)[i] \in Value
  BY <1>1, <1>8 DEF S
<1> QED  BY <1>5, <1>9
-----------------------------------------------------------------------------
(* resolve, with the symbols of the lines above.                           *)

\* The symbols of the first n lines that have a value are known by it.
Knows(known, h, n) ==
  /\ DOMAIN known = {All(h)[j].name : j \in {k \in 1..n : CValues(h)[k] # NoValue}}
  /\ \A j \in 1..n : CValues(h)[j] # NoValue => known[All(h)[j].name] = CValues(h)[j]

LEMMA SymbolRight ==
  ASSUME NEW h \in Headers, NEW i \in 1..Len(All(h)), NEW known, Knows(known, h, i - 1),
         NEW t, t[1] = "symbol", Uses(h, i, t[2])
  PROVE  ResolveTerm(t, known) = CTerm(h, CValues(h), t)
<1> DEFINE V == CValues(h)
<1>0. i \in Nat /\ Len(All(h)) \in Nat /\ DOMAIN All(h) = 1..Len(All(h))
  BY HeaderType
<1>1. CASE LinesFor(h, t[2]) # {}
  <2>1. PICK j \in 1..(i - 1) : /\ j \in 1..Len(All(h))
                                /\ All(h)[j].name = t[2]
                                /\ LinesFor(h, t[2]) = {j}
                                /\ (CHOOSE l \in LinesFor(h, t[2]) : TRUE) = j
    BY <1>1, SymbolTerm
  <2>2. CTerm(h, V, t) = V[j]
    BY <1>1, <2>1 DEF CTerm
  <2>3. CASE V[j] # NoValue
    <3>1. t[2] \in DOMAIN known /\ known[t[2]] = V[j]
      BY <2>1, <2>3 DEF Knows
    <3> QED  BY <2>2, <3>1 DEF ResolveTerm
  <2>4. CASE V[j] = NoValue
    <3>1. ASSUME t[2] \in DOMAIN known PROVE FALSE
      <4>1. PICK k \in 1..(i - 1) : V[k] # NoValue /\ All(h)[k].name = t[2]
        BY <3>1 DEF Knows
      <4>2. k \in DOMAIN All(h)
        BY <1>0, <4>1
      <4>3. k \in LinesFor(h, t[2])
        BY <4>1, <4>2 DEF LinesFor
      <4> QED  BY <2>1, <2>4, <4>1, <4>3
    <3>2. ResolveTerm(t, known) = NoValue
      BY <3>1 DEF ResolveTerm
    <3> QED  BY <2>2, <2>4, <3>2
  <2> QED  BY <2>3, <2>4
<1>2. CASE LinesFor(h, t[2]) = {}
  <2>1. ASSUME t[2] \in DOMAIN known PROVE FALSE
    <3>1. PICK k \in 1..(i - 1) : V[k] # NoValue /\ All(h)[k].name = t[2]
      BY <2>1 DEF Knows
    <3>2. k \in DOMAIN All(h)
      BY <1>0, <3>1
    <3>3. k \in LinesFor(h, t[2])
      BY <3>1, <3>2 DEF LinesFor
    <3> QED  BY <1>2, <3>3
  <2>2. ResolveTerm(t, known) = NoValue /\ CTerm(h, V, t) = NoValue
    BY <1>2, <2>1 DEF ResolveTerm, CTerm
  <2> QED  BY <2>2
<1> QED  BY <1>1, <1>2

LEMMA TermRight ==
  ASSUME NEW h \in Headers, NEW i \in 1..Len(All(h)), NEW known, Knows(known, h, i - 1),
         NEW k \in 1..Len(All(h)[i].expr)
  PROVE  ResolveTerm(All(h)[i].expr[k], known) = CTerm(h, CValues(h), All(h)[i].expr[k])
<1> DEFINE t == All(h)[i].expr[k]
<1> HIDE DEF t
<1>1. CASE t[1] = "symbol"
  <2>1. Uses(h, i, t[2])
    BY <1>1 DEF Uses, t
  <2> QED  BY <1>1, <2>1, SymbolRight DEF t
<1>2. CASE t[1] # "symbol"
  BY <1>2 DEF ResolveTerm, CTerm, t
<1> QED  BY <1>1, <1>2

LEMMA ResolveRight ==
  ASSUME NEW h \in Headers, NEW i \in 1..Len(All(h)), NEW known, Knows(known, h, i - 1)
  PROVE  resolve(All(h)[i].expr, known) = CValues(h)[i]
<1> DEFINE V == CValues(h)
           expr == All(h)[i].expr
           m == Len(expr)
           parts == CParts(h, V, i)
<1>1. Len(All(h)) \in Nat /\ DOMAIN All(h) = 1..Len(All(h))
  BY HeaderType
<1>2. expr \in Seq(Term) /\ DOMAIN expr = 1..m
  BY LineType
<1>3. \A j \in 1..(i - 1) : V[j] \in Value
  BY <1>1, CValuesRight
<1>4. parts \in [1..m -> Value]
  BY <1>3, PartsType
<1>5. V[i] = IF \E k \in 1..m : parts[k] = NoValue THEN NoValue ELSE Total(parts)
  BY <1>3, LineSum, CValuesRight
<1>6. \A k \in 1..m : ResolveTerm(expr[k], known) = parts[k]
  BY <1>2, TermRight DEF CParts
<1>7. V[i] < TooBig
  BY <1>1, HeadersAssumption DEF LikeTheKernel
<1> HIDE DEF V, expr, m, parts
<1>8. (\A k \in 1..m : parts[k] # NoValue) => Total(parts) < TooBig
  BY <1>5, <1>7
<1>9. m = Len(expr)
  BY DEF m
<1>10. resolve(expr, known) = IF \E k \in 1..m : parts[k] = NoValue THEN NoValue ELSE Total(parts)
  BY <1>2, <1>4, <1>6, <1>8, <1>9, ResolveSum
<1> QED  BY <1>5, <1>10 DEF V, expr

Learnt(known, s, v) == [x \in DOMAIN known \cup {s} |-> IF x = s THEN v ELSE known[x]]

\* The symbols after one more line.
LEMMA KnowsMore ==
  ASSUME NEW h \in Headers, NEW n, n \in Nat, NEW m, m \in 1..Len(All(h)), m = n + 1,
         NEW known, Knows(known, h, n), NEW v, v = CValues(h)[m], NEW s, s = All(h)[m].name
  PROVE  /\ v = NoValue => Knows(known, h, m)
         /\ v # NoValue => Knows(Learnt(known, s, v), h, m)
<1> DEFINE V == CValues(h)
           A == All(h)
           more == [x \in DOMAIN known \cup {s} |-> IF x = s THEN v ELSE known[x]]
<1>0. more = Learnt(known, s, v)
  BY DEF Learnt
<1>1. Len(A) \in Nat /\ DOMAIN A = 1..Len(A) /\ DefinedOnce(h)
  BY HeaderType, HeadersAssumption DEF LikeTheKernel
<1>2. \A j \in 1..n : A[j].name # s
  <2>1. \A j \in 1..n : j \in 1..Len(A) /\ j # m
    BY <1>1
  <2> QED  BY <1>1, <2>1 DEF DefinedOnce
<1>3. 1..m = 1..n \cup {m}
  OBVIOUS
<1>4. /\ DOMAIN known = {A[j].name : j \in {k \in 1..n : V[k] # NoValue}}
      /\ \A j \in 1..n : V[j] # NoValue => known[A[j].name] = V[j]
  BY DEF Knows
<1> HIDE DEF V, A
<1>5. v = V[m] /\ s = A[m].name
  BY DEF V, A
<1>6. CASE v = NoValue
  <2>1. {k \in 1..m : V[k] # NoValue} = {k \in 1..n : V[k] # NoValue}
    BY <1>3, <1>5, <1>6
  <2>2. \A j \in 1..m : V[j] # NoValue => known[A[j].name] = V[j]
    BY <1>3, <1>4, <1>5, <1>6
  <2>3. Knows(known, h, m)
    BY <1>4, <2>1, <2>2 DEF Knows, V, A
  <2> QED  BY <1>6, <2>3
<1>7. CASE v # NoValue
  <2>1. {k \in 1..m : V[k] # NoValue} = {k \in 1..n : V[k] # NoValue} \cup {m}
    BY <1>3, <1>5, <1>7
  <2>2. DOMAIN more = {A[j].name : j \in {k \in 1..m : V[k] # NoValue}}
    BY <1>4, <1>5, <2>1
  <2>3. \A j \in 1..m : V[j] # NoValue => more[A[j].name] = V[j]
    <3> SUFFICES ASSUME NEW j \in 1..m, V[j] # NoValue PROVE more[A[j].name] = V[j]
      OBVIOUS
    <3>1. CASE j = m
      BY <1>5, <3>1
    <3>2. CASE j \in 1..n
      <4>1. A[j].name # s /\ A[j].name \in DOMAIN known /\ known[A[j].name] = V[j]
        BY <1>2, <1>4, <3>2
      <4> QED  BY <4>1
    <3> QED  BY <1>3, <3>1, <3>2
  <2> HIDE DEF more
  <2>4. Knows(more, h, m)
    BY <2>2, <2>3 DEF Knows, V, A
  <2> QED  BY <1>0, <1>7, <2>4
<1> QED  BY <1>6, <1>7
-----------------------------------------------------------------------------
(* Lists of the defines that some lines make.                              *)

Def == [name : SymName, value : 0..(TooBig - 1)]

Made(h) == [i \in 1..Len(All(h)) |-> [name |-> All(h)[i].name, value |-> CValues(h)[i]]]

\* The lines from a to b that have a value.
Valued(h, a, b) == {i \in a..b : CValues(h)[i] # NoValue}

AllValued(h) == Valued(h, 1, Len(All(h)))

ListOf(ds, h, I) ==
  /\ ds \in Seq(Def)
  /\ I \subseteq AllValued(h)
  /\ \E f : Lists(f, Made(h), ds, I)

LEMMA MadeType ==
  ASSUME NEW h \in Headers, NEW i \in AllValued(h)
  PROVE  /\ i \in 1..Len(All(h)) /\ i \in Nat
         /\ Made(h)[i] \in Def
         /\ Made(h)[i].name = All(h)[i].name
         /\ Made(h)[i].value = CValues(h)[i]
<1>1. Len(All(h)) \in Nat /\ DOMAIN All(h) = 1..Len(All(h))
  BY HeaderType
<1>2. i \in 1..Len(All(h)) /\ CValues(h)[i] # NoValue
  BY DEF AllValued, Valued
<1>3. Made(h)[i] = [name |-> All(h)[i].name, value |-> CValues(h)[i]]
  BY <1>2 DEF Made
<1>4. All(h)[i].name \in SymName
  BY <1>2, LineType
<1>5. CValues(h)[i] \in 0..(TooBig - 1)
  <2>1. CValues(h)[i] \in Nat
    BY <1>2, CValuesRight DEF Value
  <2>2. CValues(h)[i] < TooBig
    BY <1>1, <1>2, HeadersAssumption DEF LikeTheKernel
  <2>3. TooBig \in Nat
    BY SMT DEF TooBig
  <2> QED  BY <2>1, <2>2, <2>3
<1>6. Made(h)[i] \in Def
  BY <1>3, <1>4, <1>5 DEF Def
<1> QED  BY <1>1, <1>2, <1>3, <1>6

LEMMA ListOfNone == ASSUME NEW h PROVE ListOf(<<>>, h, {})
<1>1. <<>> \in Seq(Def) /\ {} \subseteq AllValued(h)
  OBVIOUS
<1> QED  BY <1>1, ListsEmpty DEF ListOf

LEMMA ListOfMore ==
  ASSUME NEW h \in Headers, NEW ds, NEW I, ListOf(ds, h, I),
         NEW i \in AllValued(h), \A x \in I : x < i,
         NEW d, d = [name |-> All(h)[i].name, value |-> CValues(h)[i]]
  PROVE  ListOf(Append(ds, d), h, I \cup {i})
<1>1. i \in Nat /\ Made(h)[i] \in Def /\ d = Made(h)[i]
  BY MadeType DEF Made
<1>2. ds \in Seq(Def) /\ I \subseteq AllValued(h)
  BY DEF ListOf
<1>3. PICK f : Lists(f, Made(h), ds, I)
  BY DEF ListOf
<1>4. \E g : Lists(g, Made(h), Append(ds, Made(h)[i]), I \cup {i})
  BY <1>1, <1>2, <1>3, ListsAppend
<1>5. Append(ds, d) \in Seq(Def)
  BY <1>1, <1>2, AppendProperties
<1> QED  BY <1>1, <1>2, <1>4, <1>5 DEF ListOf

LEMMA ListOfBoth ==
  ASSUME NEW h \in Headers, NEW a, NEW b, NEW I, NEW J, ListOf(a, h, I), ListOf(b, h, J),
         \A x \in I : \A y \in J : x < y
  PROVE  ListOf(a \o b, h, I \cup J)
<1>1. a \in Seq(Def) /\ b \in Seq(Def) /\ I \cup J \subseteq AllValued(h)
  BY DEF ListOf
<1>2. PICK f : Lists(f, Made(h), a, I)
  BY DEF ListOf
<1>3. PICK g : Lists(g, Made(h), b, J)
  BY DEF ListOf
<1>4. \E k : Lists(k, Made(h), a \o b, I \cup J)
  BY <1>1, <1>2, <1>3, ListsConcat
<1>5. a \o b \in Seq(Def)
  BY <1>1, ConcatProperties
<1> QED  BY <1>1, <1>4, <1>5 DEF ListOf

\* What is said of the elements of a list, and of its order.
LEMMA ListOfElements ==
  ASSUME NEW h \in Headers, NEW ds, NEW I, ListOf(ds, h, I)
  PROVE  \E f \in [1..Len(ds) -> I] :
           /\ Lists(f, Made(h), ds, I)
           /\ Len(ds) \in Nat /\ DOMAIN ds = 1..Len(ds)
           /\ \A j, k \in 1..Len(ds) : j < k => f[j] < f[k]
           /\ \A i \in I : \E j \in 1..Len(ds) : f[j] = i
           /\ \A j \in 1..Len(ds) : /\ ds[j] \in Def
                                    /\ ds[j].name = All(h)[f[j]].name
                                    /\ ds[j].value = CValues(h)[f[j]]
<1>1. ds \in Seq(Def) /\ I \subseteq AllValued(h)
  BY DEF ListOf
<1>2. PICK f : Lists(f, Made(h), ds, I)
  BY DEF ListOf
<1>3. /\ f \in [1..Len(ds) -> Nat]
      /\ \A j, k \in 1..Len(ds) : j < k => f[j] < f[k]
      /\ I = {f[j] : j \in 1..Len(ds)}
      /\ \A j \in 1..Len(ds) : ds[j] = Made(h)[f[j]]
  BY <1>2 DEF Lists
<1>4. Len(ds) \in Nat /\ DOMAIN ds = 1..Len(ds)
  BY <1>1, LenProperties
<1>5. f \in [1..Len(ds) -> I]
  BY <1>3
<1>6. \A i \in I : \E j \in 1..Len(ds) : f[j] = i
  BY <1>3
<1>7. ASSUME NEW j \in 1..Len(ds)
      PROVE  ds[j] \in Def /\ ds[j].name = All(h)[f[j]].name /\ ds[j].value = CValues(h)[f[j]]
  <2>1. f[j] \in AllValued(h) /\ ds[j] = Made(h)[f[j]]
    BY <1>1, <1>3, <1>5
  <2> QED  BY <2>1, MadeType
<1> QED  BY <1>2, <1>3, <1>4, <1>5, <1>6, <1>7

\* What is selected by the places of some of the lines is a list of these.
LEMMA ListOfSelected ==
  ASSUME NEW h \in Headers, NEW ds, NEW I, ListOf(ds, h, I),
         NEW f, Lists(f, Made(h), ds, I), NEW places, NEW J, J \subseteq I,
         \A j \in 1..Len(ds) : j \in places <=> f[j] \in J
  PROVE  ListOf(Selected(ds, places), h, J)
<1>1. ds \in Seq(Def) /\ I \subseteq AllValued(h)
  BY DEF ListOf
<1>2. I = {f[j] : j \in 1..Len(ds)}
  BY DEF Lists
<1>3. J = About(f, places, Len(ds))
  BY <1>2 DEF About
<1>4. /\ Selected(ds, places) \in Seq(Def)
      /\ \E g : Lists(g, Made(h), Selected(ds, places), J)
  BY <1>1, <1>3, SelectedLists
<1> QED  BY <1>1, <1>4 DEF ListOf

\* What emit, and before it Collect, take of a list.
WantedOf(ds, which) == Selected(ds, {i \in DOMAIN ds : Wanted(which, ds[i].name)})

WantedLines(h, I, which) == {i \in I : Wanted(which, All(h)[i].name)}

LEMMA WantedList ==
  ASSUME NEW h \in Headers, NEW ds, NEW I, ListOf(ds, h, I), NEW which
  PROVE  ListOf(WantedOf(ds, which), h, WantedLines(h, I, which))
<1>1. PICK f \in [1..Len(ds) -> I] :
        /\ Lists(f, Made(h), ds, I)
        /\ DOMAIN ds = 1..Len(ds)
        /\ \A j \in 1..Len(ds) : ds[j].name = All(h)[f[j]].name
  BY ListOfElements
<1> QED  BY <1>1, ListOfSelected DEF WantedOf, WantedLines

LEMMA OfList ==
  ASSUME NEW h \in Headers, NEW ds, NEW I, ListOf(ds, h, I), NEW ps
  PROVE  ListOf(Of(ds, ps), h, {i \in I : Prefix(All(h)[i].name) \in ps})
<1>1. PICK f \in [1..Len(ds) -> I] :
        /\ Lists(f, Made(h), ds, I)
        /\ DOMAIN ds = 1..Len(ds)
        /\ \A j \in 1..Len(ds) : ds[j].name = All(h)[f[j]].name
  BY ListOfElements
<1> QED  BY <1>1, ListOfSelected DEF Of

LEMMA NamedList ==
  ASSUME NEW h \in Headers, NEW ds, NEW I, ListOf(ds, h, I)
  PROVE  ListOf(Named(ds), h, {i \in I : ~isMaxOrCnt(All(h)[i].name)})
<1>1. PICK f \in [1..Len(ds) -> I] :
        /\ Lists(f, Made(h), ds, I)
        /\ DOMAIN ds = 1..Len(ds)
        /\ \A j \in 1..Len(ds) : ds[j].name = All(h)[f[j]].name
  BY ListOfElements
<1> QED  BY <1>1, ListOfSelected DEF Named

\* The first of the lines with its value.
Firsts(h, I) == {i \in I : \A j \in I : CValues(h)[j] = CValues(h)[i] => i <= j}

LEMMA FirstList ==
  ASSUME NEW h \in Headers, NEW ds, NEW I, ListOf(ds, h, I)
  PROVE  ListOf(FirstOnly(ds), h, Firsts(h, I))
<1> DEFINE V == CValues(h)
           places == {i \in DOMAIN ds : \A j \in 1..(i - 1) : ds[j].value # ds[i].value}
<1>1. PICK f \in [1..Len(ds) -> I] :
        /\ Lists(f, Made(h), ds, I)
        /\ Len(ds) \in Nat /\ DOMAIN ds = 1..Len(ds)
        /\ \A j, k \in 1..Len(ds) : j < k => f[j] < f[k]
        /\ \A i \in I : \E j \in 1..Len(ds) : f[j] = i
        /\ \A j \in 1..Len(ds) : ds[j].value = V[f[j]]
  BY ListOfElements
<1>2. I \subseteq Nat
  BY MadeType DEF ListOf
<1> HIDE DEF V
<1>3. ASSUME NEW j \in 1..Len(ds), j \in places PROVE f[j] \in Firsts(h, I)
  <2> SUFFICES ASSUME NEW i \in I, V[i] = V[f[j]] PROVE f[j] <= i
    BY DEF Firsts, V
  <2>1. PICK k \in 1..Len(ds) : f[k] = i
    BY <1>1
  <2>2. ds[k].value = ds[j].value
    BY <1>1, <2>1
  <2>3. ~(k \in 1..(j - 1))
    BY <1>3, <2>2
  <2>4. k = j \/ j < k
    BY <1>1, <2>3
  <2>5. f[j] \in Nat /\ f[k] \in Nat
    BY <1>1, <1>2
  <2>6. j < k => f[j] < f[k]
    BY <1>1
  <2> QED  BY <2>1, <2>4, <2>5, <2>6
<1>4. ASSUME NEW j \in 1..Len(ds), f[j] \in Firsts(h, I) PROVE j \in places
  <2> SUFFICES ASSUME NEW k \in 1..(j - 1), ds[k].value = ds[j].value PROVE FALSE
    BY <1>1
  <2>1. k \in 1..Len(ds) /\ k < j
    BY <1>1
  <2>2. V[f[k]] = V[f[j]] /\ f[k] \in I /\ f[k] < f[j]
    BY <1>1, <2>1
  <2>3. f[j] <= f[k]
    BY <1>4, <2>2 DEF Firsts, V
  <2>4. f[j] \in Nat /\ f[k] \in Nat
    BY <1>1, <1>2, <2>1
  <2> QED  BY <2>2, <2>3, <2>4
<1>5. Firsts(h, I) \subseteq I
  BY DEF Firsts
<1>6. FirstOnly(ds) = Selected(ds, places)
  BY DEF FirstOnly
<1> HIDE DEF places
<1> QED  BY <1>1, <1>3, <1>4, <1>5, <1>6, ListOfSelected
-----------------------------------------------------------------------------
(* The invariant.  What is read so far of a header is in defs and syms, and *)
(* what is kept of the headers in order; emit makes its tables of these.   *)

\* How many lines of the two headers are before those of one.
Before(h, which) == IF which = "codes" THEN 0 ELSE Len(h.codes)

Kept(n) == {i \in Relevant : i <= n}

Reading == at \in {"codes", "input"}

GenInv ==
  /\ GenTypeOK
  /\ Reading =>
       /\ Knows(syms, header, Before(header, at) + pos)
       /\ ListOf(defs, header, Valued(header, Before(header, at) + 1, Before(header, at) + pos))
       /\ ListOf(order, header, Kept(Before(header, at)))
       /\ source = emit(<<>>)
  /\ at \in {"emit", "write", "done"} => ListOf(order, header, Relevant)
  /\ source = emit(<<>>) \/ (source = emit(order) /\ ListOf(order, header, Relevant))
  /\ at \in {"write", "done"} => source = emit(order)
  /\ codesFile = "new" => at = "done"

LEMMA BeforeLines ==
  ASSUME NEW h \in Headers, NEW which \in {"codes", "input"}
  PROVE  /\ h[which] \in Seq(Line) /\ Len(h[which]) \in Nat
         /\ Before(h, which) \in Nat
         /\ Before(h, which) + Len(h[which]) <= Len(All(h))
         /\ \A n \in Nat : n < Len(h[which]) =>
              /\ Before(h, which) + n + 1 \in 1..Len(All(h))
              /\ h[which][n + 1] = All(h)[Before(h, which) + n + 1]
<1>1. /\ h.codes \in Seq(Line) /\ h.input \in Seq(Line)
      /\ Len(All(h)) \in Nat /\ Len(h.codes) \in Nat /\ Len(h.input) \in Nat
      /\ Len(All(h)) = Len(h.codes) + Len(h.input)
      /\ \A i \in 1..Len(h.codes) : All(h)[i] = h.codes[i]
      /\ \A i \in 1..Len(h.input) : All(h)[Len(h.codes) + i] = h.input[i]
  BY HeaderType
<1>2. \A a, b \in Nat : \A n \in Nat :
        /\ n < a => n + 1 \in 1..a /\ n + 1 \in 1..(a + b) /\ 0 + n + 1 = n + 1
        /\ n < b => /\ n + 1 \in 1..b /\ a + n + 1 \in 1..(a + b)
                    /\ a + (n + 1) = a + n + 1
  OBVIOUS
<1>3. \A a, b \in Nat : 0 + a <= a + b
  OBVIOUS
<1> DEFINE la == Len(h.codes)
           lb == Len(h.input)
<1>4. la \in Nat /\ lb \in Nat /\ Len(All(h)) = la + lb /\ la + lb <= la + lb
  BY <1>1
<1>5. CASE which = "codes"
  <2>1. h[which] = h.codes /\ Before(h, which) = 0
    BY <1>5 DEF Before
  <2>2. \A n \in Nat : n < la => h.codes[n + 1] = All(h)[n + 1]
    BY <1>1, <1>2
  <2> HIDE DEF la, lb
  <2>3. \A n \in Nat : n < la => 0 + n + 1 \in 1..Len(All(h)) /\ h.codes[n + 1] = All(h)[0 + n + 1]
    BY <1>2, <1>4, <2>2
  <2>4. Len(h[which]) = la
    BY <2>1 DEF la
  <2>5. 0 + la <= Len(All(h)) /\ 0 \in Nat
    BY <1>3, <1>4
  <2> QED  BY <1>1, <1>4, <2>1, <2>3, <2>4, <2>5
<1>6. CASE which = "input"
  <2>1. h[which] = h.input /\ Before(h, which) = la
    BY <1>6 DEF Before
  <2>2. \A n \in Nat : n < lb => h.input[n + 1] = All(h)[la + (n + 1)]
    BY <1>1, <1>2
  <2> HIDE DEF la, lb
  <2>3. \A n \in Nat : n < lb => /\ la + n + 1 \in 1..Len(All(h))
                                      /\ h.input[n + 1] = All(h)[la + n + 1]
    BY <1>2, <1>4, <2>2
  <2>4. Len(h[which]) = lb
    BY <2>1 DEF lb
  <2> QED  BY <1>1, <1>4, <2>1, <2>3, <2>4
<1> QED  BY <1>5, <1>6

\* Once more: a symbol that is known has a value of 16 bits.
LEMMA KnownType ==
  ASSUME NEW h \in Headers, NEW n \in Nat, n <= Len(All(h)), NEW known, Knows(known, h, n)
  PROVE  \A x \in DOMAIN known : known[x] \in 0..(TooBig - 1)
<1> SUFFICES ASSUME NEW x \in DOMAIN known PROVE known[x] \in 0..(TooBig - 1)
  OBVIOUS
<1>1. PICK j \in 1..n : CValues(h)[j] # NoValue /\ All(h)[j].name = x
  BY DEF Knows
<1>2. known[x] = CValues(h)[j]
  BY <1>1 DEF Knows
<1>3. Len(All(h)) \in Nat
  BY HeaderType
<1>4. j \in AllValued(h)
  BY <1>1, <1>3 DEF AllValued, Valued
<1>5. Made(h)[j] \in Def /\ Made(h)[j].value = CValues(h)[j]
  BY <1>4, MadeType
<1> QED  BY <1>2, <1>5 DEF Def

LEMMA GenInvInit == GenInit => GenInv
<1> SUFFICES ASSUME GenInit PROVE GenInv
  OBVIOUS
<1> USE DEF GenInit
<1>1. at = "codes" /\ pos = 0 /\ header \in Headers /\ syms = <<>> /\ defs = <<>> /\ order = <<>>
  OBVIOUS
<1>2. Len(header.codes) \in Nat
  BY HeaderType
<1>3. DOMAIN syms = {} /\ 1..0 = {}
  OBVIOUS
<1>4. GenTypeOK
  BY <1>2, <1>3 DEF GenTypeOK
<1>5. Before(header, at) = 0
  BY DEF Before
<1>6. Knows(syms, header, 0)
  BY <1>3 DEF Knows
<1>7. Valued(header, 1, 0) = {} /\ Kept(0) = {}
  <2>1. \A i \in Relevant : i \in Nat /\ i > 0
    BY HeaderType DEF Relevant
  <2> QED  BY <1>3, <2>1 DEF Valued, Kept
<1>8. ListOf(<<>>, header, {})
  BY ListOfNone
<1>9. Before(header, at) + pos = 0 /\ Before(header, at) + 1 = 1
  BY <1>5
<1>10. /\ Knows(syms, header, Before(header, at) + pos)
       /\ ListOf(defs, header, Valued(header, Before(header, at) + 1, Before(header, at) + pos))
       /\ ListOf(order, header, Kept(Before(header, at)))
       /\ source = emit(<<>>)
  BY <1>5, <1>6, <1>7, <1>8, <1>9
<1> QED  BY <1>1, <1>4, <1>10 DEF GenInv

LEMMA ValuedMore ==
  ASSUME NEW h, NEW a, a \in Nat, NEW n, n \in Nat, NEW m, m \in Nat, m = n + 1, a <= m
  PROVE  /\ CValues(h)[m] = NoValue => Valued(h, a, m) = Valued(h, a, n)
         /\ CValues(h)[m] # NoValue => Valued(h, a, m) = Valued(h, a, n) \cup {m}
<1>1. a..m = a..n \cup {m}
  OBVIOUS
<1> QED  BY <1>1 DEF Valued

LEMMA KeptMore ==
  ASSUME header \in Headers, NEW which \in {"codes", "input"}
  PROVE  Kept(Before(header, which))
           \cup {i \in Valued(header, Before(header, which) + 1,
                              Before(header, which) + Len(header[which])) :
                   Wanted(which, All(header)[i].name)}
         = IF which = "codes" THEN Kept(Before(header, "input")) ELSE Relevant
<1> DEFINE la == Len(header.codes)
           L  == Len(All(header))
           lb == Len(header.input)
<1>1. /\ la \in Nat /\ L \in Nat /\ DOMAIN All(header) = 1..L
      /\ L = la + lb /\ lb \in Nat
  BY HeaderType
<1>2. Relevant = {i \in 1..L : /\ CValues(header)[i] # NoValue
                               /\ Wanted(IF i <= la THEN "codes" ELSE "input", All(header)[i].name)}
  BY <1>1 DEF Relevant, CValue, Name
<1>0. Len(header["codes"]) = la /\ Len(header["input"]) = lb
  OBVIOUS
<1>3. Before(header, "codes") = 0 /\ Before(header, "input") = la
  BY DEF Before
<1>4. /\ Before(header, "codes") + Len(header["codes"]) = la
      /\ Before(header, "input") + Len(header["input"]) = L
  <2> HIDE DEF la, lb, L
  <2> QED  BY <1>0, <1>1, <1>3
<1> HIDE DEF la, lb, L
<1>5. CASE which = "codes"
  <2>1. \A i : i \in 1..la <=> i \in 1..L /\ i <= la
    BY <1>1
  <2>2. \A i \in 1..L : ~(i <= 0)
    BY <1>1
  <2>3. Kept(0) = {}
    BY <1>2, <2>2 DEF Kept
  <2>4. {i \in Valued(header, 0 + 1, la) : Wanted("codes", All(header)[i].name)} = Kept(la)
    BY <1>2, <2>1 DEF Valued, Kept
  <2> QED  BY <1>3, <1>4, <1>5, <2>3, <2>4
<1>6. CASE which = "input"
  <2>1. \A i : i \in (la + 1)..L <=> i \in 1..L /\ ~(i <= la)
    BY <1>1
  <2>2. {i \in Valued(header, la + 1, L) : Wanted("input", All(header)[i].name)}
          = {i \in Relevant : ~(i <= la)}
    BY <1>2, <2>1 DEF Valued
  <2>3. Relevant = Kept(la) \cup {i \in Relevant : ~(i <= la)}
    BY DEF Kept
  <2> QED  BY <1>3, <1>4, <1>6, <2>2, <2>3
<1> QED  BY <1>5, <1>6

LEMMA ParseLineInv == GenInv /\ ParseLine => GenInv'
<1> SUFFICES ASSUME GenInv, ParseLine PROVE GenInv'
  OBVIOUS
<1> DEFINE B == Before(header, at)
           d == header[at][pos + 1]
           v == resolve(d.expr, syms)
           n == B + pos
           m == B + pos + 1
<1>1. /\ Reading /\ at \in {"codes", "input"} /\ header \in Headers
      /\ pos < Len(header[at]) /\ pos \in 0..Len(header[at])
  BY DEF GenInv, GenTypeOK, Reading, ParseLine
<1>2. /\ pos' = pos + 1 /\ header' = header /\ at' = at /\ order' = order
      /\ source' = source /\ codesFile' = codesFile
      /\ \/ v = NoValue /\ syms' = syms /\ defs' = defs
         \/ /\ v # NoValue
            /\ syms' = [x \in DOMAIN syms \cup {d.name} |-> IF x = d.name THEN v ELSE syms[x]]
            /\ defs' = Append(defs, [name |-> d.name, value |-> v])
  BY DEF ParseLine
<1>3. /\ Len(header[at]) \in Nat /\ B \in Nat /\ B + Len(header[at]) <= Len(All(header))
      /\ pos \in Nat /\ B + pos + 1 \in 1..Len(All(header)) /\ d = All(header)[B + pos + 1]
      /\ Len(All(header)) \in Nat
  BY <1>1, BeforeLines, HeaderType
<1>4. /\ n \in Nat /\ m = n + 1 /\ m \in 1..Len(All(header)) /\ n = m - 1
      /\ B + 1 <= m /\ B + 1 \in Nat /\ m <= Len(All(header)) /\ m \in Nat
      /\ d = All(header)[m] /\ \A x : x \in (B + 1)..n => x < m
  BY <1>3
<1>5. /\ Knows(syms, header, n)
      /\ ListOf(defs, header, Valued(header, B + 1, n))
      /\ ListOf(order, header, Kept(B))
  BY <1>1 DEF GenInv
<1> HIDE DEF n, m, B
<1>6. v = CValues(header)[m] /\ d.name = All(header)[m].name
  BY <1>1, <1>3, <1>4, <1>5, ResolveRight
<1> HIDE DEF d, v
<1>7. Knows(syms', header, m)
  <2> DEFINE s == d.name
             more == Learnt(syms, s, v)
  <2> HIDE DEF s
  <2>1. s = All(header)[m].name
    BY <1>6 DEF s
  <2>2. (v = NoValue => Knows(syms, header, m)) /\ (v # NoValue => Knows(more, header, m))
    <3>1. /\ header \in Headers /\ n \in Nat /\ m \in 1..Len(All(header)) /\ m = n + 1
          /\ Knows(syms, header, n) /\ v = CValues(header)[m]
      BY <1>1, <1>4, <1>5, <1>6
    <3> QED  BY <2>1, <3>1, KnowsMore
  <2>3. v # NoValue => syms' = more
    BY <1>2 DEF s, Learnt
  <2> HIDE DEF more
  <2> QED  BY <1>2, <2>2, <2>3
<1>8. ListOf(defs', header, Valued(header, B + 1, m))
  <2>0. Valued(header, B + 1, m) = IF v = NoValue THEN Valued(header, B + 1, n)
                                        ELSE Valued(header, B + 1, n) \cup {m}
    <3> DEFINE a == B + 1
    <3>1. a \in Nat /\ a <= m /\ n \in Nat /\ m \in Nat /\ m = n + 1
      BY <1>4
    <3> HIDE DEF a
    <3>2. /\ CValues(header)[m] = NoValue => Valued(header, a, m) = Valued(header, a, n)
          /\ CValues(header)[m] # NoValue => Valued(header, a, m) = Valued(header, a, n) \cup {m}
      BY <3>1, ValuedMore
    <3> QED  BY <1>6, <3>2 DEF a
  <2>1. CASE v = NoValue
    BY <1>2, <1>5, <2>0, <2>1
  <2>2. CASE v # NoValue
    <3>1. m \in AllValued(header)
      BY <1>4, <1>6, <2>2 DEF AllValued, Valued
    <3>2. \A x \in Valued(header, B + 1, n) : x < m
      BY <1>4 DEF Valued
    <3>3. ListOf(defs', header, Valued(header, B + 1, n) \cup {m})
      <4> DEFINE e == [name |-> d.name, value |-> v]
                 V == Valued(header, B + 1, n)
      <4>1. e = [name |-> All(header)[m].name, value |-> CValues(header)[m]]
        BY <1>6
      <4>2. ListOf(defs, header, V)
        BY <1>5
      <4>3. m \in AllValued(header) /\ \A x \in V : x < m
        BY <3>1, <3>2
      <4> HIDE DEF e, V
      <4>4. ListOf(Append(defs, e), header, V \cup {m})
        BY <1>1, <4>1, <4>2, <4>3, ListOfMore
      <4>5. defs' = Append(defs, e)
        BY <1>2, <2>2 DEF e
      <4> QED  BY <4>4, <4>5 DEF V
    <3>4. Valued(header, B + 1, m) = Valued(header, B + 1, n) \cup {m}
      BY <2>0, <2>2
    <3> QED  BY <3>3, <3>4
  <2> QED  BY <2>1, <2>2
<1>9. Before(header', at') = B /\ B + pos' = m
  BY <1>2, <1>3 DEF B, m
<1>10. GenTypeOK'
  <2>1. \A x \in DOMAIN syms' : syms'[x] \in 0..(TooBig - 1)
    BY <1>1, <1>4, <1>7, KnownType
  <2>2. pos' \in 0..Len(header[at])
    BY <1>1, <1>2, <1>3
  <2> QED  BY <1>1, <1>2, <2>1, <2>2 DEF GenInv, GenTypeOK
<1>11. Relevant' = Relevant /\ Kept(B)' = Kept(B')
  BY <1>2 DEF Relevant, Kept, CValue, Name
<1>12. \A k : Kept(k)' = Kept(k)
  BY <1>11 DEF Kept
<1>13. codesFile # "new" /\ ~(at \in {"emit", "write", "done"})
  BY <1>1 DEF GenInv
<1>14. source' = emit(<<>>)
  BY <1>1, <1>2 DEF GenInv
<1>15. /\ Knows(syms', header', Before(header', at') + pos')
       /\ ListOf(defs', header', Valued(header', Before(header', at') + 1, Before(header', at') + pos'))
       /\ ListOf(order', header', Kept(Before(header, at))')
  BY <1>2, <1>5, <1>7, <1>8, <1>9, <1>12
<1> QED  BY <1>2, <1>10, <1>13, <1>14, <1>15 DEF GenInv

LEMMA CollectInv == GenInv /\ Collect => GenInv'
<1> SUFFICES ASSUME GenInv, Collect PROVE GenInv'
  OBVIOUS
<1> DEFINE B == Before(header, at)
           n == Before(header, at) + pos
           new == {i \in Valued(header, B + 1, n) : Wanted(at, All(header)[i].name)}
           kept == Selected(defs, {i \in DOMAIN defs : Wanted(at, defs[i].name)})
<1>1. /\ Reading /\ at \in {"codes", "input"} /\ header \in Headers
      /\ pos = Len(header[at])
  BY DEF GenInv, GenTypeOK, Reading, Collect
<1>2. /\ at' = IF at = "codes" THEN "input" ELSE "emit"
      /\ pos' = 0 /\ defs' = <<>> /\ order' = order \o kept
      /\ header' = header /\ syms' = syms /\ source' = source /\ codesFile' = codesFile
  BY DEF Collect
<1>3. /\ Knows(syms, header, n)
      /\ ListOf(defs, header, Valued(header, B + 1, n))
      /\ ListOf(order, header, Kept(B))
  BY <1>1 DEF GenInv
<1>4. /\ B \in Nat /\ Len(header[at]) \in Nat /\ n = B + Len(header[at])
  BY <1>1, BeforeLines
<1>5. \A i \in 1..B : \A j \in (B + 1)..n : i < j
  BY <1>4
<1>6. \A i \in Kept(B) : i \in 1..B
  <2>1. \A i \in Relevant : i \in 1..Len(All(header))
    BY <1>1, HeaderType DEF Relevant
  <2>2. \A i \in 1..Len(All(header)) : i <= B => i \in 1..B
    BY <1>4
  <2> QED  BY <2>1, <2>2 DEF Kept
<1>7. new \subseteq (B + 1)..n
  BY DEF Valued
<1>8. ListOf(kept, header, new)
  <2> DEFINE I == Valued(header, B + 1, n)
  <2>1. ListOf(defs, header, I)
    BY <1>3
  <2> HIDE DEF I
  <2>2. ListOf(WantedOf(defs, at), header, WantedLines(header, I, at))
    BY <1>1, <2>1, WantedList
  <2> QED  BY <2>2 DEF I, WantedOf, WantedLines
<1>9. Kept(B) \cup new = IF at = "codes" THEN Kept(Before(header, "input")) ELSE Relevant
  BY <1>1, <1>4, KeptMore
<1> HIDE DEF B, n, new, kept
<1>10. ListOf(order', header, Kept(B) \cup new)
  <2>1. \A x \in Kept(B) : \A y \in new : x < y
    BY <1>5, <1>6, <1>7
  <2> QED  BY <1>1, <1>2, <1>3, <1>8, <2>1, ListOfBoth
<1>11. Relevant' = Relevant /\ \A k : Kept(k)' = Kept(k)
  BY <1>2 DEF Relevant, Kept, CValue, Name
<1>12. codesFile # "new" /\ ~(at \in {"emit", "write", "done"})
  BY <1>1 DEF GenInv
<1>13. source' = emit(<<>>)
  BY <1>1, <1>2 DEF GenInv
<1>14. CASE at = "codes"
  <2>1. /\ at' = "input" /\ header' = header /\ pos' = 0
    BY <1>2, <1>14
  <2>2. /\ B = 0 /\ Before(header', at') = Len(header.codes)
        /\ Before(header, "input") = Len(header.codes)
    BY <1>14, <2>1 DEF Before, B
  <2>3. n = Len(header.codes) /\ Len(header.codes) \in Nat /\ Len(header.input) \in Nat
    BY <1>1, <1>4, <1>14, <2>2, HeaderType
  <2>4. Knows(syms', header', Before(header', at') + pos')
    BY <1>2, <1>3, <2>1, <2>2, <2>3
  <2>5. Valued(header', Before(header', at') + 1, Before(header', at') + pos') = {}
    <3>1. (Len(header.codes) + 1)..(Len(header.codes) + 0) = {}
      BY <2>3
    <3> QED  BY <2>1, <2>2, <3>1 DEF Valued
  <2>6. ListOf(defs', header', Valued(header', Before(header', at') + 1, Before(header', at') + pos'))
    BY <1>2, <2>5, ListOfNone
  <2>7. ListOf(order', header', Kept(Before(header, "input")))
    BY <1>2, <1>9, <1>10, <1>14
  <2>8. Kept(Before(header, "input")) = Kept(Before(header, at))'
    BY <1>11, <2>1, <2>2
  <2>9. GenTypeOK'
    <3>1. 0 \in 0..Len(header.input)
      BY <2>3
    <3> QED  BY <1>2, <2>1, <3>1 DEF GenInv, GenTypeOK
  <2> QED  BY <1>2, <1>12, <1>13, <2>1, <2>4, <2>6, <2>7, <2>8, <2>9 DEF GenInv
<1>15. CASE at = "input"
  <2>1. at' = "emit" /\ ~Reading'
    BY <1>2, <1>15 DEF Reading
  <2>2. ListOf(order', header', Relevant')
    BY <1>2, <1>9, <1>10, <1>11, <1>15
  <2>3. GenTypeOK'
    BY <1>2, <2>1 DEF GenInv, GenTypeOK
  <2> QED  BY <1>2, <1>12, <1>13, <2>1, <2>2, <2>3 DEF GenInv
<1> QED  BY <1>1, <1>14, <1>15

LEMMA ReadFailsInv == GenInv /\ ReadFails => GenInv'
<1> SUFFICES ASSUME GenInv, ReadFails PROVE GenInv'
  OBVIOUS
<1>1. /\ at' = "failed" /\ header' = header /\ syms' = syms /\ order' = order
      /\ source' = source /\ codesFile' = codesFile /\ ~Reading'
      /\ at \in {"codes", "input"}
  BY DEF ReadFails, Reading
<1>2. Relevant' = Relevant
  BY <1>1 DEF Relevant, CValue, Name
<1>3. GenTypeOK'
  BY <1>1 DEF GenInv, GenTypeOK
<1> QED  BY <1>1, <1>2, <1>3 DEF GenInv

LEMMA EmitInv == GenInv /\ Emit => GenInv'
<1> SUFFICES ASSUME GenInv, Emit PROVE GenInv'
  OBVIOUS
<1>1. /\ at = "emit" /\ at' = "write" /\ header' = header /\ syms' = syms /\ order' = order
      /\ source' = emit(order) /\ codesFile' = codesFile /\ ~Reading'
  BY DEF Emit, Reading
<1>2. Relevant' = Relevant
  BY <1>1 DEF Relevant, CValue, Name
<1>3. GenTypeOK'
  BY <1>1 DEF GenInv, GenTypeOK
<1>4. source' = emit(order')
  BY <1>1
<1> QED  BY <1>1, <1>2, <1>3, <1>4 DEF GenInv

LEMMA WriteInv == GenInv /\ Write => GenInv'
<1> SUFFICES ASSUME GenInv, Write PROVE GenInv'
  OBVIOUS
<1>1. /\ at = "write" /\ header' = header /\ syms' = syms /\ order' = order
      /\ source' = source /\ ~Reading'
      /\ \/ at' = "done" /\ codesFile' = "new"
         \/ at' = "failed" /\ codesFile' \in {"old", "cut"}
  BY DEF Write, Reading
<1>2. Relevant' = Relevant
  BY <1>1 DEF Relevant, CValue, Name
<1>3. GenTypeOK'
  BY <1>1 DEF GenInv, GenTypeOK
<1> QED  BY <1>1, <1>2, <1>3 DEF GenInv

LEMMA StutterInv == GenInv /\ UNCHANGED genVars => GenInv'
<1> SUFFICES ASSUME GenInv, UNCHANGED genVars PROVE GenInv'
  OBVIOUS
<1>1. /\ at' = at /\ pos' = pos /\ header' = header /\ syms' = syms /\ order' = order
      /\ defs' = defs /\ source' = source /\ codesFile' = codesFile
  BY DEF genVars
<1>2. Relevant' = Relevant
  BY <1>1 DEF Relevant, CValue, Name
<1>3. Kept(Before(header, at))' = Kept(Before(header, at))
  BY <1>1, <1>2 DEF Kept
<1>4. GenTypeOK'
  BY <1>1 DEF GenInv, GenTypeOK
<1> QED  BY <1>1, <1>2, <1>3, <1>4 DEF GenInv, Reading

\* Whatever the headers, what the generator has read, kept and made is what
\* stands in them, line by line (gen/main.go:60-131).
THEOREM GenInvariant == GenSpec => []GenInv
<1>1. GenInit => GenInv
  BY GenInvInit
<1>2. GenInv /\ [GenNext]_genVars => GenInv'
  BY ParseLineInv, CollectInv, ReadFailsInv, EmitInv, WriteInv, StutterInv DEF GenNext
<1> QED  BY <1>1, <1>2, PTL DEF GenSpec

\* The generator's state has its type: the place in a header is in it, and every
\* symbol has a value of 16 bits, which is what ParseUint was asked for
\* (gen/main.go:151-152).
THEOREM GenTypeCorrect == GenSpec => []GenTypeOK
<1>1. GenInv => GenTypeOK
  BY DEF GenInv
<1> QED  BY <1>1, GenInvariant, PTL
-----------------------------------------------------------------------------
(* The tables that are made of a list.                                     *)

\* The lines of some prefixes that are no limits, of those in I.
LinesOf(h, I, ps) == {i \in I : Prefix(All(h)[i].name) \in ps /\ ~isMaxOrCnt(All(h)[i].name)}

PrefixesOf(t) == {p \in DOMAIN prefixType : prefixType[p] = t}

LEMMA NamedOfList ==
  ASSUME NEW h \in Headers, NEW ds, NEW I, ListOf(ds, h, I), NEW ps
  PROVE  ListOf(Named(Of(ds, ps)), h, LinesOf(h, I, ps))
<1> DEFINE J == {i \in I : Prefix(All(h)[i].name) \in ps}
<1>1. ListOf(Of(ds, ps), h, J)
  BY OfList
<1>2. {i \in J : ~isMaxOrCnt(All(h)[i].name)} = LinesOf(h, I, ps)
  BY DEF LinesOf
<1> HIDE DEF J
<1>3. ListOf(Named(Of(ds, ps)), h, {i \in J : ~isMaxOrCnt(All(h)[i].name)})
  BY <1>1, NamedList
<1> QED  BY <1>2, <1>3

LEMMA FirstCodesList ==
  ASSUME NEW h \in Headers, NEW ds, NEW I, ListOf(ds, h, I), NEW t
  PROVE  ListOf(FirstOnly(Named(CodesOf(ds, t))), h, Firsts(h, LinesOf(h, I, PrefixesOf(t))))
<1>1. ListOf(Named(CodesOf(ds, t)), h, LinesOf(h, I, PrefixesOf(t)))
  BY NamedOfList DEF CodesOf, PrefixesOf
<1> QED  BY <1>1, FirstList

LEMMA BusList ==
  ASSUME NEW h \in Headers, NEW ds, NEW I, ListOf(ds, h, I)
  PROVE  ListOf(Of(ds, {"BUS"}), h, LinesOf(h, I, {"BUS"}))
<1> DEFINE J == {i \in I : Prefix(All(h)[i].name) \in {"BUS"}}
<1>1. ListOf(Of(ds, {"BUS"}), h, J)
  BY OfList
<1>2. \A i \in DOMAIN All(h) : Prefix(All(h)[i].name) = "BUS" => ~isMaxOrCnt(All(h)[i].name)
  BY HeadersAssumption DEF LikeTheKernel
<1>3. \A i \in I : i \in DOMAIN All(h)
  <2>1. I \subseteq AllValued(h)
    BY DEF ListOf
  <2> QED  BY <2>1, MadeType, HeaderType
<1>4. J = LinesOf(h, I, {"BUS"})
  BY <1>2, <1>3 DEF LinesOf
<1> QED  BY <1>1, <1>4

ValueName(h, is) == {<<CValues(h)[i], All(h)[i].name>> : i \in is}
NameValue(h, is) == {<<All(h)[i].name, CValues(h)[i]>> : i \in is}

LEMMA TableSets ==
  ASSUME NEW h \in Headers, NEW ds, NEW I, ListOf(ds, h, I)
  PROVE  /\ ToSet(ByValue(ds)) = ValueName(h, I)
         /\ ToSet(ByName(ds)) = NameValue(h, I)
<1>1. PICK f \in [1..Len(ds) -> I] :
        /\ DOMAIN ds = 1..Len(ds)
        /\ \A i \in I : \E j \in 1..Len(ds) : f[j] = i
        /\ \A j \in 1..Len(ds) : /\ ds[j].name = All(h)[f[j]].name
                                 /\ ds[j].value = CValues(h)[f[j]]
  BY ListOfElements
<1>2. ToSet(ByValue(ds)) = {<<ds[j].value, ds[j].name>> : j \in 1..Len(ds)}
  BY <1>1 DEF ToSet, ByValue
<1>3. ToSet(ByName(ds)) = {<<ds[j].name, ds[j].value>> : j \in 1..Len(ds)}
  BY <1>1 DEF ToSet, ByName
<1>4. ToSet(ByValue(ds)) \subseteq ValueName(h, I) /\ ToSet(ByName(ds)) \subseteq NameValue(h, I)
  <2>1. ASSUME NEW j \in 1..Len(ds)
        PROVE  /\ <<ds[j].value, ds[j].name>> \in ValueName(h, I)
               /\ <<ds[j].name, ds[j].value>> \in NameValue(h, I)
    <3>1. f[j] \in I /\ ds[j].name = All(h)[f[j]].name /\ ds[j].value = CValues(h)[f[j]]
      BY <1>1
    <3> QED  BY <3>1 DEF ValueName, NameValue
  <2> QED  BY <1>2, <1>3, <2>1
<1>5. ASSUME NEW i \in I
      PROVE  /\ <<CValues(h)[i], All(h)[i].name>> \in ToSet(ByValue(ds))
             /\ <<All(h)[i].name, CValues(h)[i]>> \in ToSet(ByName(ds))
  <2>1. PICK j \in 1..Len(ds) : f[j] = i
    BY <1>1
  <2>2. ds[j].name = All(h)[i].name /\ ds[j].value = CValues(h)[i]
    BY <1>1, <2>1
  <2> QED  BY <1>2, <1>3, <2>2
<1> QED  BY <1>4, <1>5 DEF ValueName, NameValue

\* No two of the lines have one value.
Distinct(h, I) == \A i, j \in I : CValues(h)[i] = CValues(h)[j] => i = j

UniqueKeys(entries) == \A i, j \in DOMAIN entries : entries[i][1] = entries[j][1] => i = j

LEMMA KeysOfList ==
  ASSUME NEW h \in Headers, NEW ds, NEW I, ListOf(ds, h, I)
  PROVE  /\ UniqueKeys(ByName(ds))
         /\ Distinct(h, I) => UniqueKeys(ByValue(ds))
<1>1. PICK f \in [1..Len(ds) -> I] :
        /\ Len(ds) \in Nat /\ DOMAIN ds = 1..Len(ds)
        /\ \A j, k \in 1..Len(ds) : j < k => f[j] < f[k]
        /\ \A j \in 1..Len(ds) : /\ ds[j].name = All(h)[f[j]].name
                                 /\ ds[j].value = CValues(h)[f[j]]
  BY ListOfElements
<1>2. \A i \in I : i \in Nat /\ i \in DOMAIN All(h)
  <2>1. I \subseteq AllValued(h)
    BY DEF ListOf
  <2> QED  BY <2>1, MadeType, HeaderType
<1>3. ASSUME NEW j \in 1..Len(ds), NEW k \in 1..Len(ds), f[j] = f[k] PROVE j = k
  <2>1. j < k \/ k < j \/ j = k
    BY <1>1
  <2>2. f[j] \in Nat /\ ~(f[j] < f[k]) /\ ~(f[k] < f[j])
    BY <1>2, <1>3
  <2> QED  BY <1>1, <2>1, <2>2
<1>4. ASSUME NEW j \in 1..Len(ds), NEW k \in 1..Len(ds), ds[j].name = ds[k].name PROVE j = k
  <2>1. DefinedOnce(h)
    BY HeadersAssumption DEF LikeTheKernel
  <2>2. f[j] \in DOMAIN All(h) /\ f[k] \in DOMAIN All(h) /\ All(h)[f[j]].name = All(h)[f[k]].name
    BY <1>1, <1>2, <1>4
  <2>3. f[j] = f[k]
    BY <2>1, <2>2 DEF DefinedOnce
  <2> QED  BY <1>3, <2>3
<1>5. UniqueKeys(ByName(ds))
  BY <1>1, <1>4 DEF UniqueKeys, ByName
<1>6. ASSUME Distinct(h, I), NEW j \in 1..Len(ds), NEW k \in 1..Len(ds), ds[j].value = ds[k].value
      PROVE  j = k
  <2>1. f[j] \in I /\ f[k] \in I /\ CValues(h)[f[j]] = CValues(h)[f[k]]
    BY <1>1, <1>6
  <2>2. f[j] = f[k]
    BY <1>6, <2>1 DEF Distinct
  <2> QED  BY <1>3, <2>2
<1>7. Distinct(h, I) => UniqueKeys(ByValue(ds))
  BY <1>1, <1>6 DEF UniqueKeys, ByValue
<1> QED  BY <1>5, <1>7

LEMMA FirstsDistinct ==
  ASSUME NEW h \in Headers, NEW I, I \subseteq Nat
  PROVE  Distinct(h, Firsts(h, I))
<1> SUFFICES ASSUME NEW i \in Firsts(h, I), NEW j \in Firsts(h, I), CValues(h)[i] = CValues(h)[j]
             PROVE  i = j
  BY DEF Distinct
<1>1. i \in Nat /\ j \in Nat /\ i <= j /\ j <= i
  BY DEF Firsts
<1> QED  BY <1>1

LEMMA LinesDistinct ==
  ASSUME NEW h \in Headers, NEW I, I \subseteq AllValued(h), NEW p \in {"EV", "BUS", "INPUT_PROP"}
  PROVE  Distinct(h, LinesOf(h, I, {p}))
<1>1. NoAliases(h, p)
  BY HeadersAssumption DEF LikeTheKernel
<1>2. \A i \in LinesOf(h, I, {p}) : /\ i \in DOMAIN All(h) /\ CValues(h)[i] # NoValue
                                    /\ Prefix(All(h)[i].name) = p
                                    /\ ~isMaxOrCnt(All(h)[i].name)
  BY HeaderType, MadeType DEF LinesOf, AllValued, Valued
<1> QED  BY <1>1, <1>2 DEF NoAliases, Distinct

\* codes.go is right when the generator has succeeded: for all headers, every
\* define is in its place with the value C gives it, and the name of a code is
\* the first that is no limit (gen/main.go:9-10, 247-248).
THEOREM TablesTrue == GenSpec => []TablesRight
<1>1. GenInv => TablesRight
  <2> SUFFICES ASSUME GenInv, codesFile = "new"
               PROVE  /\ ToSet(source.consts) = NameValue(header, Relevant)
                      /\ ToSet(source.evTypeNames) = ValueName(header, Lines({"EV"}))
                      /\ ToSet(source.evTypeByName) = NameValue(header, Lines({"EV"}))
                      /\ \A t \in CodeTypes : ToSet(source.evCodeNames[t])
                            = ValueName(header, Firsts(header, CodeLines(t)))
                      /\ ToSet(source.evCodeByName)
                            = NameValue(header, Lines(DOMAIN prefixType))
                      /\ ToSet(source.busNames) = ValueName(header, Lines({"BUS"}))
                      /\ ToSet(source.propNames) = ValueName(header, Lines({"INPUT_PROP"}))
    BY DEF TablesRight, ValueName, NameValue, Firsts, CValue, Name
  <2>1. header \in Headers /\ ListOf(order, header, Relevant) /\ source = emit(order)
    BY DEF GenInv, GenTypeOK
  <2>2. \A ps : Lines(ps) = LinesOf(header, Relevant, ps)
    BY DEF Lines, LinesOf, Name
  <2>3. \A t : CodeLines(t) = LinesOf(header, Relevant, PrefixesOf(t))
    BY <2>2 DEF CodeLines, PrefixesOf
  <2>4. ToSet(source.consts) = NameValue(header, Relevant)
    BY <2>1, TableSets DEF emit
  <2>5. \A ps : /\ ToSet(ByValue(Named(Of(order, ps)))) = ValueName(header, Lines(ps))
                /\ ToSet(ByName(Named(Of(order, ps)))) = NameValue(header, Lines(ps))
    BY <2>1, <2>2, NamedOfList, TableSets
  <2>6. \A t : ToSet(ByValue(FirstOnly(Named(CodesOf(order, t)))))
                 = ValueName(header, Firsts(header, CodeLines(t)))
    BY <2>1, <2>3, FirstCodesList, TableSets
  <2>7. ToSet(source.busNames) = ValueName(header, Lines({"BUS"}))
    BY <2>1, <2>2, BusList, TableSets DEF emit
  <2>8. \A t \in CodeTypes : source.evCodeNames[t] = ByValue(FirstOnly(Named(CodesOf(order, t))))
    BY <2>1 DEF emit
  <2> QED  BY <2>1, <2>4, <2>5, <2>6, <2>7, <2>8 DEF emit
<1> QED  BY <1>1, GenInvariant, PTL

LEMMA EmitKeys ==
  ASSUME NEW h \in Headers, NEW ds, NEW I, ListOf(ds, h, I)
  PROVE  /\ \A t \in CodeTypes : UniqueKeys(emit(ds).evCodeNames[t])
         /\ UniqueKeys(emit(ds).evTypeNames) /\ UniqueKeys(emit(ds).evTypeByName)
         /\ UniqueKeys(emit(ds).evCodeByName)
         /\ UniqueKeys(emit(ds).busNames) /\ UniqueKeys(emit(ds).propNames)
<1>1. I \subseteq AllValued(h)
  BY DEF ListOf
<1>2. \A ps : UniqueKeys(ByName(Named(Of(ds, ps))))
  BY NamedOfList, KeysOfList
<1>3. \A p \in {"EV", "INPUT_PROP"} : UniqueKeys(ByValue(Named(Of(ds, {p}))))
  BY <1>1, NamedOfList, LinesDistinct, KeysOfList
<1>4. UniqueKeys(ByValue(Of(ds, {"BUS"})))
  BY <1>1, BusList, LinesDistinct, KeysOfList
<1>5. ASSUME NEW t PROVE UniqueKeys(ByValue(FirstOnly(Named(CodesOf(ds, t)))))
  <2> DEFINE J == LinesOf(h, I, PrefixesOf(t))
  <2>1. J \subseteq Nat
    BY <1>1, MadeType DEF LinesOf
  <2>2. ListOf(FirstOnly(Named(CodesOf(ds, t))), h, Firsts(h, J))
    BY FirstCodesList
  <2> HIDE DEF J
  <2> QED  BY <2>1, <2>2, FirstsDistinct, KeysOfList
<1>6. \A t \in CodeTypes : emit(ds).evCodeNames[t] = ByValue(FirstOnly(Named(CodesOf(ds, t))))
  BY DEF emit
<1> QED  BY <1>2, <1>3, <1>4, <1>5, <1>6 DEF emit

\* The map literals compile: whatever aliases the headers have, no key stands
\* twice in a table, at any time (gen/main.go:250-262).
THEOREM KeysOnce == GenSpec => []KeysUnique
<1>1. GenInv => KeysUnique
  <2> SUFFICES ASSUME GenInv
               PROVE  /\ \A t \in CodeTypes : UniqueKeys(source.evCodeNames[t])
                      /\ UniqueKeys(source.evTypeNames) /\ UniqueKeys(source.evTypeByName)
                      /\ UniqueKeys(source.evCodeByName)
                      /\ UniqueKeys(source.busNames) /\ UniqueKeys(source.propNames)
    BY DEF KeysUnique, UniqueKeys
  <2>1. \E ds, I : source = emit(ds) /\ ListOf(ds, header, I)
    BY ListOfNone DEF GenInv
  <2>2. header \in Headers
    BY DEF GenInv, GenTypeOK
  <2> QED  BY <2>1, <2>2, EmitKeys
<1> QED  BY <1>1, GenInvariant, PTL
-----------------------------------------------------------------------------
(* The lookups.                                                            *)

LEMMA LeastExists ==
  ASSUME NEW S, S \subseteq Nat, S # {}
  PROVE  \E m \in S : \A x \in S : m <= x
<1> SUFFICES ASSUME \A m \in S : \E x \in S : ~(m <= x) PROVE FALSE
  OBVIOUS
<1> DEFINE Q == {n \in Nat : \A x \in S : n <= x}
<1>1. 0 \in Q
  OBVIOUS
<1>2. ASSUME NEW n \in Q, n \in Nat PROVE n + 1 \in Q
  <2> SUFFICES ASSUME NEW x \in S PROVE n + 1 <= x
    OBVIOUS
  <2>1. n \notin S
    OBVIOUS
  <2>2. n <= x /\ x # n /\ x \in Nat
    BY <2>1
  <2> QED  BY <2>2
<1> HIDE DEF Q
<1>3. Nat \subseteq Q
  BY <1>1, <1>2, SetInduction
<1>4. PICK x \in S : TRUE
  OBVIOUS
<1>5. x \in Nat /\ x + 1 \in Nat
  OBVIOUS
<1>6. x + 1 <= x
  BY <1>3, <1>5 DEF Q
<1> QED  BY <1>5, <1>6

LEMMA HasAt ==
  ASSUME NEW table, UniqueKeys(table), NEW i \in DOMAIN table
  PROVE  Has(table, table[i][1]) /\ At(table, table[i][1]) = table[i][2]
<1> DEFINE k == table[i][1]
           c == CHOOSE j \in DOMAIN table : table[j][1] = k
<1>1. c \in DOMAIN table /\ table[c][1] = k
  OBVIOUS
<1>2. c = i
  BY <1>1 DEF UniqueKeys
<1> QED  BY <1>2 DEF Has, At

\* What the two kinds of tables of a list say.
LEMMA LookUp ==
  ASSUME NEW h \in Headers, NEW ds, NEW I, ListOf(ds, h, I)
  PROVE  /\ \A n : Has(ByName(ds), n) <=> \E i \in I : All(h)[i].name = n
         /\ \A i \in I : At(ByName(ds), All(h)[i].name) = CValues(h)[i]
         /\ \A v : Has(ByValue(ds), v) <=> \E i \in I : CValues(h)[i] = v
         /\ Distinct(h, I) => \A i \in I : At(ByValue(ds), CValues(h)[i]) = All(h)[i].name
<1>1. PICK f \in [1..Len(ds) -> I] :
        /\ DOMAIN ds = 1..Len(ds)
        /\ \A i \in I : \E j \in 1..Len(ds) : f[j] = i
        /\ \A j \in 1..Len(ds) : /\ ds[j].name = All(h)[f[j]].name
                                 /\ ds[j].value = CValues(h)[f[j]]
  BY ListOfElements
<1> DEFINE N == ByName(ds)
           V == ByValue(ds)
<1>2. /\ DOMAIN N = 1..Len(ds) /\ DOMAIN V = 1..Len(ds)
      /\ \A j \in 1..Len(ds) : /\ N[j][1] = All(h)[f[j]].name /\ N[j][2] = CValues(h)[f[j]]
                               /\ V[j][1] = CValues(h)[f[j]] /\ V[j][2] = All(h)[f[j]].name
  BY <1>1 DEF ByName, ByValue
<1> HIDE DEF N, V
<1>3. \A n : Has(N, n) <=> \E i \in I : All(h)[i].name = n
  <2> SUFFICES ASSUME NEW n PROVE Has(N, n) <=> \E i \in I : All(h)[i].name = n
    OBVIOUS
  <2>1. ASSUME Has(N, n) PROVE \E i \in I : All(h)[i].name = n
    <3>1. PICK j \in 1..Len(ds) : N[j][1] = n
      BY <1>2, <2>1 DEF Has
    <3>2. f[j] \in I /\ All(h)[f[j]].name = n
      BY <1>2, <3>1
    <3> QED  BY <3>2
  <2>2. ASSUME NEW i \in I, All(h)[i].name = n PROVE Has(N, n)
    <3>1. PICK j \in 1..Len(ds) : f[j] = i
      BY <1>1
    <3>2. j \in DOMAIN N /\ N[j][1] = n
      BY <1>2, <2>2, <3>1
    <3> QED  BY <3>2 DEF Has
  <2> QED  BY <2>1, <2>2
<1>4. \A v : Has(V, v) <=> \E i \in I : CValues(h)[i] = v
  <2> SUFFICES ASSUME NEW v PROVE Has(V, v) <=> \E i \in I : CValues(h)[i] = v
    OBVIOUS
  <2>1. ASSUME Has(V, v) PROVE \E i \in I : CValues(h)[i] = v
    <3>1. PICK j \in 1..Len(ds) : V[j][1] = v
      BY <1>2, <2>1 DEF Has
    <3>2. f[j] \in I /\ CValues(h)[f[j]] = v
      BY <1>2, <3>1
    <3> QED  BY <3>2
  <2>2. ASSUME NEW i \in I, CValues(h)[i] = v PROVE Has(V, v)
    <3>1. PICK j \in 1..Len(ds) : f[j] = i
      BY <1>1
    <3>2. j \in DOMAIN V /\ V[j][1] = v
      BY <1>2, <2>2, <3>1
    <3> QED  BY <3>2 DEF Has
  <2> QED  BY <2>1, <2>2
<1>5. UniqueKeys(N) /\ (Distinct(h, I) => UniqueKeys(V))
  BY KeysOfList DEF N, V
<1>6. ASSUME NEW i \in I PROVE At(N, All(h)[i].name) = CValues(h)[i]
  <2>1. PICK j \in 1..Len(ds) : f[j] = i
    BY <1>1
  <2>2. j \in DOMAIN N /\ N[j][1] = All(h)[i].name /\ N[j][2] = CValues(h)[i]
    BY <1>2, <2>1
  <2>3. At(N, N[j][1]) = N[j][2]
    BY <1>5, <2>2, HasAt
  <2> QED  BY <2>2, <2>3
<1>7. ASSUME Distinct(h, I), NEW i \in I PROVE At(V, CValues(h)[i]) = All(h)[i].name
  <2>1. PICK j \in 1..Len(ds) : f[j] = i
    BY <1>1
  <2>2. j \in DOMAIN V /\ V[j][1] = CValues(h)[i] /\ V[j][2] = All(h)[i].name
    BY <1>2, <2>1
  <2>3. At(V, V[j][1]) = V[j][2]
    BY <1>5, <1>7, <2>2, HasAt
  <2> QED  BY <2>2, <2>3
<1> QED  BY <1>3, <1>4, <1>6, <1>7 DEF N, V

\* A name of the headers is never a fallback.
LEMMA NoFallback ==
  ASSUME NEW h \in Headers, NEW i \in 1..Len(All(h)), NEW p, NEW v
  PROVE  All(h)[i].name # <<p, "?", v>>
<1> SUFFICES ASSUME All(h)[i].name = <<p, "?", v>> PROVE FALSE
  OBVIOUS
<1> DEFINE n == All(h)[i].name
<1>1. n \in Seq(STRING \ {"?"})
  BY LineType DEF SymName, Nonempty
<1>2. n = <<p, "?", v>>
  OBVIOUS
<1> HIDE DEF n
<1>3. Len(n) = 3 /\ n[2] = "?" /\ 2 \in 1..Len(n)
  BY <1>2
<1>4. n[2] \in STRING \ {"?"}
  BY <1>1, <1>3, ElementOfSeq
<1> QED  BY <1>3, <1>4

\* The line whose name a code has: the first of those with its value.
LEMMA FirstExists ==
  ASSUME NEW h \in Headers, NEW I, I \subseteq Nat, NEW i \in I
  PROVE  \E j \in Firsts(h, I) : CValues(h)[j] = CValues(h)[i]
<1> DEFINE S == {k \in I : CValues(h)[k] = CValues(h)[i]}
<1>1. S \subseteq Nat /\ S # {}
  OBVIOUS
<1>2. PICK j \in S : \A x \in S : j <= x
  <2> HIDE DEF S
  <2> QED  BY <1>1, LeastExists
<1> QED  BY <1>2 DEF Firsts

LEMMA TypeOfPrefix ==
  /\ \A p \in DOMAIN prefixType : prefixType[p] \in CodeTypes
  /\ "FF" \notin CodeTypes
  /\ \A t : PrefixesOf(t) \subseteq DOMAIN prefixType
BY DEF prefixType, CodeTypes, PrefixesOf

CodeResolves(t, c) ==
  LET n == CodeName(t, c)
  IN \/ /\ EvCodeByName(n) = <<c, TRUE>>
        /\ prefixType[Prefix(n)] = t
     \/ /\ n = <<codePrefixForType(t), "?", c>>
        /\ ~EvCodeByName(n)[2]
        /\ \A i \in DOMAIN source.evCodeByName :
             source.evCodeByName[i][2] = c => prefixType[Prefix(source.evCodeByName[i][1])] # t

\* Every entry of the table of names is a line that is of a code.
LEMMA CodeEntries ==
  ASSUME header \in Headers, ListOf(order, header, Relevant), source = emit(order)
  PROVE  \A k \in DOMAIN source.evCodeByName :
           \E i \in LinesOf(header, Relevant, DOMAIN prefixType) :
             /\ source.evCodeByName[k][1] = All(header)[i].name
             /\ source.evCodeByName[k][2] = CValues(header)[i]
<1> DEFINE ds == Named(Of(order, DOMAIN prefixType))
           I  == LinesOf(header, Relevant, DOMAIN prefixType)
<1>1. ListOf(ds, header, I)
  BY NamedOfList
<1>2. source.evCodeByName = ByName(ds)
  BY DEF emit
<1> HIDE DEF ds, I
<1>3. PICK f \in [1..Len(ds) -> I] :
        /\ DOMAIN ds = 1..Len(ds)
        /\ \A j \in 1..Len(ds) : /\ ds[j].name = All(header)[f[j]].name
                                 /\ ds[j].value = CValues(header)[f[j]]
  BY <1>1, ListOfElements
<1>4. /\ DOMAIN ByName(ds) = 1..Len(ds)
      /\ \A j \in 1..Len(ds) : ByName(ds)[j] = <<ds[j].name, ds[j].value>>
  BY <1>3 DEF ByName
<1>5. \A j \in 1..Len(ds) : /\ f[j] \in I /\ ByName(ds)[j][1] = All(header)[f[j]].name
                            /\ ByName(ds)[j][2] = CValues(header)[f[j]]
  BY <1>3, <1>4
<1> QED  BY <1>2, <1>4, <1>5 DEF I

LEMMA CodesResolve ==
  ASSUME header \in Headers, ListOf(order, header, Relevant), source = emit(order),
         NEW t \in CodeTypes, NEW c
  PROVE  CodeResolves(t, c)
<1> DEFINE h == header
           N == LinesOf(h, Relevant, DOMAIN prefixType)
           C == LinesOf(h, Relevant, PrefixesOf(t))
           F == Firsts(h, C)
           names == ByValue(FirstOnly(Named(CodesOf(order, t))))
           codes == ByName(Named(Of(order, DOMAIN prefixType)))
<1>1. source.evCodeNames[t] = names /\ source.evCodeByName = codes
  BY DEF emit
<1>2. C \subseteq N /\ F \subseteq C
  BY TypeOfPrefix DEF LinesOf, Firsts
<1>3. \A i \in N : i \in Nat /\ i \in 1..Len(All(h))
  <2>1. Relevant \subseteq AllValued(h)
    BY DEF ListOf
  <2> QED  BY <2>1, MadeType DEF LinesOf
<1>4. Distinct(h, F)
  BY <1>2, <1>3, FirstsDistinct
<1>5. /\ \A v : Has(names, v) <=> \E i \in F : CValues(h)[i] = v
      /\ \A i \in F : At(names, CValues(h)[i]) = All(h)[i].name
  <2>1. ListOf(FirstOnly(Named(CodesOf(order, t))), h, F)
    BY FirstCodesList
  <2> HIDE DEF F
  <2> QED  BY <1>4, <2>1, LookUp
<1>6. /\ \A n : Has(codes, n) <=> \E i \in N : All(h)[i].name = n
      /\ \A i \in N : At(codes, All(h)[i].name) = CValues(h)[i]
  <2>1. ListOf(Named(Of(order, DOMAIN prefixType)), h, N)
    BY NamedOfList
  <2> HIDE DEF N
  <2> QED  BY <2>1, LookUp
<1> DEFINE n == CodeName(t, c)
<1>7. n = IF Has(names, c) THEN At(names, c) ELSE <<t, "?", c>>
  BY <1>1 DEF CodeName, NameOr, codePrefixForType
<1>8. \A x : EvCodeByName(x) = IF Has(codes, x) THEN <<At(codes, x), TRUE>> ELSE <<0, FALSE>>
  BY <1>1 DEF EvCodeByName, ByNameIn
<1>9. \A i \in C : prefixType[Prefix(All(h)[i].name)] = t
  BY DEF LinesOf, PrefixesOf
<1>10. codePrefixForType(t) = t
  BY DEF codePrefixForType
<1> HIDE DEF n, names, codes, F
<1>11. CASE Has(names, c)
  <2>1. PICK i \in F : CValues(h)[i] = c
    BY <1>5, <1>11
  <2>2. n = All(h)[i].name /\ i \in C /\ i \in N
    BY <1>2, <1>5, <1>7, <1>11, <2>1
  <2> HIDE DEF N, C
  <2>3. Has(codes, n) /\ At(codes, n) = c
    BY <1>6, <2>1, <2>2
  <2>4. EvCodeByName(n) = <<c, TRUE>>
    BY <1>8, <2>3
  <2>5. prefixType[Prefix(n)] = t
    BY <1>9, <2>2
  <2> QED  BY <2>4, <2>5 DEF CodeResolves, n
<1>12. CASE ~Has(names, c)
  <2>1. n = <<t, "?", c>>
    BY <1>7, <1>12
  <2>2. ~Has(codes, n)
    BY <1>3, <1>6, <2>1, NoFallback
  <2>3. ~EvCodeByName(n)[2]
    BY <1>8, <2>2
  <2>4. ASSUME NEW k \in DOMAIN source.evCodeByName, source.evCodeByName[k][2] = c,
               prefixType[Prefix(source.evCodeByName[k][1])] = t
        PROVE  FALSE
    <3>1. PICK i \in N : /\ source.evCodeByName[k][1] = All(h)[i].name
                         /\ source.evCodeByName[k][2] = CValues(h)[i]
      BY CodeEntries
    <3>2. CValues(h)[i] = c /\ prefixType[Prefix(All(h)[i].name)] = t
      BY <2>4, <3>1
    <3>3. i \in C
      BY <3>2 DEF LinesOf, PrefixesOf
    <3>4. C \subseteq Nat
      BY <1>2, <1>3
    <3> HIDE DEF C
    <3>5. \E j \in Firsts(h, C) : CValues(h)[j] = CValues(h)[i]
      BY <3>3, <3>4, FirstExists
    <3> QED  BY <1>5, <1>12, <3>2, <3>5 DEF F
  <2> QED  BY <1>10, <2>1, <2>3, <2>4 DEF CodeResolves, n
<1> QED  BY <1>11, <1>12

\* EV_FF has no table of codes.
LEMMA ForceFeedbackFallsThrough ==
  ASSUME header \in Headers, ListOf(order, header, Relevant), source = emit(order)
  PROVE  CodeResolves("FF", 0)
<1> DEFINE N == LinesOf(header, Relevant, DOMAIN prefixType)
           codes == ByName(Named(Of(order, DOMAIN prefixType)))
           n == CodeName("FF", 0)
<1>1. source.evCodeByName = codes
  BY DEF emit
<1>2. n = <<"CODE", "?", 0>> /\ codePrefixForType("FF") = "CODE"
  BY TypeOfPrefix DEF CodeName, NameOr, Has, codePrefixForType
<1>3. \A i \in N : i \in 1..Len(All(header)) /\ Prefix(All(header)[i].name) \in DOMAIN prefixType
  <2>1. Relevant \subseteq AllValued(header)
    BY DEF ListOf
  <2> QED  BY <2>1, MadeType DEF LinesOf
<1>4. \A x : Has(codes, x) <=> \E i \in N : All(header)[i].name = x
  <2>1. ListOf(Named(Of(order, DOMAIN prefixType)), header, N)
    BY NamedOfList
  <2> HIDE DEF N
  <2> QED  BY <2>1, LookUp
<1> HIDE DEF n, codes
<1>5. ~Has(codes, n)
  BY <1>2, <1>3, <1>4, NoFallback
<1>6. ~EvCodeByName(n)[2]
  BY <1>1, <1>5 DEF EvCodeByName, ByNameIn
<1>7. ASSUME NEW k \in DOMAIN source.evCodeByName
      PROVE  prefixType[Prefix(source.evCodeByName[k][1])] # "FF"
  <2>1. PICK i \in N : source.evCodeByName[k][1] = All(header)[i].name
    BY CodeEntries
  <2>2. prefixType[Prefix(All(header)[i].name)] \in CodeTypes
    BY <1>3, TypeOfPrefix
  <2> QED  BY <2>1, <2>2, TypeOfPrefix
<1> QED  BY <1>2, <1>6, <1>7 DEF CodeResolves, n

\* Names and values lead to each other in the tables of any headers: the name of
\* a code is of its type and resolves to it, and a fallback is no name that
\* resolves (names.go:31-33, 49-51).
THEOREM NamesLead == GenSpec => []NamesResolve
<1>1. GenInv => NamesResolve
  <2> SUFFICES ASSUME GenInv, codesFile = "new"
               PROVE  /\ \A t \in CodeTypes \cup {"FF"} :
                           \A c \in IF t = "FF" THEN {0} ELSE CodeValues(t) : CodeResolves(t, c)
                      /\ \A v \in Values("EV") :
                           \/ EvTypeByName(EvTypeString(v)) = <<v, TRUE>>
                           \/ EvTypeString(v) = <<"EV", "?", v>>
                      /\ \A v \in Values("BUS") :
                           Has(source.busNames, v) => Prefix(BusTypeString(v)) = "BUS"
                      /\ \A v \in Values("INPUT_PROP") :
                           Has(source.propNames, v) => Prefix(InputPropString(v)) = "INPUT_PROP"
    BY DEF NamesResolve, CodeResolves
  <2>1. header \in Headers /\ ListOf(order, header, Relevant) /\ source = emit(order)
    BY DEF GenInv, GenTypeOK
  <2>2. \A t \in CodeTypes \cup {"FF"} :
          \A c \in IF t = "FF" THEN {0} ELSE CodeValues(t) : CodeResolves(t, c)
    BY <2>1, CodesResolve, ForceFeedbackFallsThrough
  <2> DEFINE I(p) == LinesOf(header, Relevant, {p})
  <2>3. ASSUME NEW p \in {"EV", "BUS", "INPUT_PROP"}
        PROVE  /\ Distinct(header, I(p))
               /\ \A i \in I(p) : Prefix(All(header)[i].name) = p
    <3>1. Relevant \subseteq AllValued(header)
      BY <2>1 DEF ListOf
    <3> QED  BY <2>1, <3>1, LinesDistinct DEF LinesOf
  <2>4. /\ source.evTypeNames = ByValue(Named(Of(order, {"EV"})))
        /\ source.evTypeByName = ByName(Named(Of(order, {"EV"})))
        /\ source.busNames = ByValue(Of(order, {"BUS"}))
        /\ source.propNames = ByValue(Named(Of(order, {"INPUT_PROP"})))
    BY <2>1 DEF emit
  <2>5. /\ \A p : ListOf(Named(Of(order, {p})), header, I(p))
        /\ ListOf(Of(order, {"BUS"}), header, I("BUS"))
    BY <2>1, NamedOfList, BusList
  <2> HIDE DEF I
  <2>6. ASSUME NEW v
        PROVE  \/ EvTypeByName(EvTypeString(v)) = <<v, TRUE>>
               \/ EvTypeString(v) = <<"EV", "?", v>>
    <3>1. CASE Has(source.evTypeNames, v)
      <4>1. PICK i \in I("EV") : CValues(header)[i] = v
        BY <2>1, <2>4, <2>5, <3>1, LookUp
      <4>2. EvTypeString(v) = All(header)[i].name
        BY <2>1, <2>3, <2>4, <2>5, <3>1, <4>1, LookUp DEF EvTypeString, NameOr
      <4>3. /\ Has(source.evTypeByName, All(header)[i].name)
            /\ At(source.evTypeByName, All(header)[i].name) = v
        BY <2>1, <2>4, <2>5, <4>1, LookUp
      <4> QED  BY <4>2, <4>3 DEF EvTypeByName, ByNameIn
    <3>2. CASE ~Has(source.evTypeNames, v)
      BY <3>2 DEF EvTypeString, NameOr
    <3> QED  BY <3>1, <3>2
  <2>7. ASSUME NEW v, Has(source.busNames, v) PROVE Prefix(BusTypeString(v)) = "BUS"
    <3>1. PICK i \in I("BUS") : CValues(header)[i] = v
      BY <2>1, <2>4, <2>5, <2>7, LookUp
    <3>2. BusTypeString(v) = All(header)[i].name
      BY <2>1, <2>3, <2>4, <2>5, <2>7, <3>1, LookUp DEF BusTypeString, NameOr
    <3> QED  BY <2>3, <3>2
  <2>8. ASSUME NEW v, Has(source.propNames, v) PROVE Prefix(InputPropString(v)) = "INPUT_PROP"
    <3>1. PICK i \in I("INPUT_PROP") : CValues(header)[i] = v
      BY <2>1, <2>4, <2>5, <2>8, LookUp
    <3>2. InputPropString(v) = All(header)[i].name
      BY <2>1, <2>3, <2>4, <2>5, <2>8, <3>1, LookUp DEF InputPropString, NameOr
    <3> QED  BY <2>3, <3>2
  <2> QED  BY <2>2, <2>6, <2>7, <2>8
<1> QED  BY <1>1, GenInvariant, PTL

\* Every constant of a code, an alias too, is known by its name and resolves to its
\* value, unless the name ends like a limit (names.go:49-51, gen/main.go:257-262).
OthersKnown ==
  codesFile = "new" =>
    \A i \in DOMAIN source.consts :
      LET n == source.consts[i][1]
      IN Prefix(n) \in DOMAIN prefixType /\ ~isMaxOrCnt(n)
           => EvCodeByName(n) = <<source.consts[i][2], TRUE>>

\* What is left of ConstantsKnown, which KEY_BRIGHTNESS_MAX breaks: EvCodeByName
\* resolves every code and alias whose name is none of a limit.
THEOREM AliasesResolve == GenSpec => []OthersKnown
<1>1. GenInv => OthersKnown
  <2> SUFFICES ASSUME GenInv, codesFile = "new", NEW i \in DOMAIN source.consts,
                      Prefix(source.consts[i][1]) \in DOMAIN prefixType,
                      ~isMaxOrCnt(source.consts[i][1])
               PROVE  EvCodeByName(source.consts[i][1]) = <<source.consts[i][2], TRUE>>
    BY DEF OthersKnown
  <2>1. header \in Headers /\ ListOf(order, header, Relevant) /\ source = emit(order)
    BY DEF GenInv, GenTypeOK
  <2>2. PICK f \in [1..Len(order) -> Relevant] :
          /\ DOMAIN order = 1..Len(order)
          /\ \A j \in 1..Len(order) : /\ order[j].name = All(header)[f[j]].name
                                      /\ order[j].value = CValues(header)[f[j]]
    BY <2>1, ListOfElements
  <2>3. /\ source.consts = ByName(order)
        /\ source.evCodeByName = ByName(Named(Of(order, DOMAIN prefixType)))
    BY <2>1 DEF emit
  <2>4. i \in 1..Len(order) /\ source.consts[i] = <<order[i].name, order[i].value>>
    BY <2>2, <2>3 DEF ByName
  <2> DEFINE l == f[i]
             N == LinesOf(header, Relevant, DOMAIN prefixType)
  <2>5. /\ l \in Relevant
        /\ source.consts[i][1] = All(header)[l].name /\ source.consts[i][2] = CValues(header)[l]
    BY <2>2, <2>4
  <2> HIDE DEF l
  <2>6. l \in N
    BY <2>5 DEF LinesOf
  <2>7. ListOf(Named(Of(order, DOMAIN prefixType)), header, N)
    BY <2>1, NamedOfList
  <2> HIDE DEF N
  <2>8. /\ Has(source.evCodeByName, All(header)[l].name)
        /\ At(source.evCodeByName, All(header)[l].name) = CValues(header)[l]
    BY <2>1, <2>3, <2>6, <2>7, LookUp
  <2> QED  BY <2>5, <2>8 DEF EvCodeByName, ByNameIn
<1> QED  BY <1>1, GenInvariant, PTL
=============================================================================

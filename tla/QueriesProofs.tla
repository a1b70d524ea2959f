--------------------------- MODULE QueriesProofs ---------------------------
(***************************************************************************)
(* What device.go makes of a bitmask, whatever its size: the bytes that    *)
(* evdev wrote are read back as the codes that they stand for, by the two  *)
(* ways there are.                                                         *)
(***************************************************************************)
EXTENDS Queries, Induction
-----------------------------------------------------------------------------
(* The numbers of the requests.                                            *)

Halves(h, n) == h = [i \in 0..16 |-> IF i = 0 THEN n ELSE h[i - 1] \div 2]

LEMMA HalfNat == \A x \in Nat : x \div 2 \in Nat /\ x % 2 \in 0..1 /\ x = 2 * (x \div 2) + (x % 2)
OBVIOUS

LEMMA BitsAre ==
  ASSUME NEW n \in Nat
  PROVE  \E h \in [0..16 -> Nat] : Halves(h, n) /\ Bits(n) = {i \in 0..16 : h[i] % 2 = 1}
<1> DEFINE G == [p \in Nat \X Nat |-> p[2] \div 2]
<1>1. G \in [Nat \X Nat -> Nat]
  BY HalfNat
<1>2. PICK f \in [0..16 -> Nat] : Recurs(f, n, G, 16)
  BY <1>1, RecursionExists
<1>3. Halves(f, n)
  <2>1. \A i \in 0..16 : i # 0 => i \in Nat /\ f[i - 1] \in Nat
    BY <1>2
  <2>2. \A i \in 0..16 : i # 0 => G[<<i, f[i - 1]>>] = f[i - 1] \div 2
    BY <2>1
  <2> QED  BY <1>2, <2>2 DEF Recurs, Halves
<1> DEFINE h == CHOOSE g : Halves(g, n)
<1>4. Halves(h, n)
  BY <1>3
<1>5. Bits(n) = {i \in 0..16 : h[i] % 2 = 1}
  BY DEF Bits, Halves
<1> HIDE DEF h
<1>6. h \in [0..16 -> Nat]
  <2> DEFINE S == {i \in Nat : i <= 16 => h[i] \in Nat}
  <2>0. \A i \in 0..16 : h[i] = IF i = 0 THEN n ELSE h[i - 1] \div 2
    BY <1>4 DEF Halves
  <2>1. 0 \in S
    BY <2>0
  <2>2. ASSUME NEW i \in S, i \in Nat PROVE i + 1 \in S
    <3> SUFFICES ASSUME i + 1 <= 16 PROVE h[i + 1] \in Nat
      BY <2>2
    <3>1. i + 1 \in 0..16 /\ i + 1 # 0 /\ (i + 1) - 1 = i /\ i <= 16
      BY <2>2
    <3>2. h[i] \in Nat /\ h[i + 1] = h[i] \div 2
      BY <2>0, <3>1
    <3> QED  BY <3>2, HalfNat
  <2> HIDE DEF S
  <2>3. Nat \subseteq S
    BY <2>1, <2>2, SetInduction
  <2>4. \A i \in 0..16 : h[i] \in Nat
    BY <2>3 DEF S
  <2>5. h = [i \in 0..16 |-> h[i]]
    BY <1>4 DEF Halves
  <2> QED  BY <2>4, <2>5
<1> QED  BY <1>4, <1>5, <1>6

\* A number that is over after w halvings has no bit from w on.
LEMMA NoHighBits ==
  ASSUME NEW n \in Nat, NEW h \in [0..16 -> Nat], Halves(h, n), NEW w \in 0..16, h[w] = 0
  PROVE  \A i \in 0..16 : h[i] % 2 = 1 => i < w
<1> DEFINE S == {i \in Nat : w + i <= 16 => h[w + i] = 0}
<1>0. \A i \in 0..16 : h[i] = IF i = 0 THEN n ELSE h[i - 1] \div 2
  BY DEF Halves
<1>1. 0 \in S
  OBVIOUS
<1>2. ASSUME NEW i \in S, i \in Nat PROVE i + 1 \in S
  <2> SUFFICES ASSUME w + (i + 1) <= 16 PROVE h[w + (i + 1)] = 0
    BY <1>2
  <2>1. w + (i + 1) \in 0..16 /\ w + (i + 1) # 0 /\ w + (i + 1) - 1 = w + i /\ w + i <= 16
    BY <1>2
  <2>2. h[w + i] = 0 /\ h[w + (i + 1)] = h[w + i] \div 2
    BY <1>0, <2>1
  <2> QED  BY <2>2
<1> HIDE DEF S
<1>3. Nat \subseteq S
  BY <1>1, <1>2, SetInduction
<1>4. ASSUME NEW i \in 0..16, w <= i PROVE h[i] = 0
  <2>1. i - w \in Nat /\ w + (i - w) = i
    BY <1>4
  <2> QED  BY <1>3, <2>1 DEF S
<1>5. ASSUME NEW i \in 0..16, h[i] % 2 = 1 PROVE i < w
  <2>1. h[i] # 0
    BY <1>5
  <2> QED  BY <1>4, <2>1
<1> QED  BY <1>5

LEMMA HalfBound == \A x, k \in Nat : x <= 2 * k + 1 => x \div 2 <= k
BY HalfNat

\* The values that the fields of a request take fit into them.
LEMMA Widths ==
  ASSUME NEW n \in Nat, NEW h \in [0..16 -> Nat], Halves(h, n)
  PROVE  /\ n <= 3 => h[2] = 0
         /\ n <= 255 => h[8] = 0
         /\ n <= 16383 => h[14] = 0
<1>1. ASSUME NEW i \in 0..15, NEW k \in Nat, h[i] <= 2 * k + 1 PROVE h[i + 1] <= k
  <2>1. h[i] \in Nat /\ i + 1 \in 0..16 /\ i + 1 # 0 /\ (i + 1) - 1 = i
    OBVIOUS
  <2>2. h[i + 1] = h[i] \div 2
    BY <2>1 DEF Halves
  <2> QED  BY <1>1, <2>1, <2>2, HalfBound
<1>2. h[0] = n
  BY DEF Halves
<1>3. ASSUME n <= 3 PROVE h[2] = 0
  <2>1. h[0 + 1] <= 1
    BY <1>1, <1>2, <1>3, h[0] <= 2 * 1 + 1
  <2>2. h[1 + 1] <= 0
    BY <1>1, <2>1, h[1] <= 2 * 0 + 1
  <2> QED  BY <2>2, h[2] \in Nat
<1>4. ASSUME n <= 255 PROVE h[8] = 0
  <2>1. h[0 + 1] <= 127
    BY <1>1, <1>2, <1>4, h[0] <= 2 * 127 + 1
  <2>2. h[1 + 1] <= 63
    BY <1>1, <2>1, h[1] <= 2 * 63 + 1
  <2>3. h[2 + 1] <= 31
    BY <1>1, <2>2, h[2] <= 2 * 31 + 1
  <2>4. h[3 + 1] <= 15
    BY <1>1, <2>3, h[3] <= 2 * 15 + 1
  <2>5. h[4 + 1] <= 7
    BY <1>1, <2>4, h[4] <= 2 * 7 + 1
  <2>6. h[5 + 1] <= 3
    BY <1>1, <2>5, h[5] <= 2 * 3 + 1
  <2>7. h[6 + 1] <= 1
    BY <1>1, <2>6, h[6] <= 2 * 1 + 1
  <2>8. h[7 + 1] <= 0
    BY <1>1, <2>7, h[7] <= 2 * 0 + 1
  <2> QED  BY <2>8, h[8] \in Nat
<1>5. ASSUME n <= 16383 PROVE h[14] = 0
  <2>1. h[0 + 1] <= 8191
    BY <1>1, <1>2, <1>5, h[0] <= 2 * 8191 + 1
  <2>2. h[1 + 1] <= 4095
    BY <1>1, <2>1, h[1] <= 2 * 4095 + 1
  <2>3. h[2 + 1] <= 2047
    BY <1>1, <2>2, h[2] <= 2 * 2047 + 1
  <2>4. h[3 + 1] <= 1023
    BY <1>1, <2>3, h[3] <= 2 * 1023 + 1
  <2>5. h[4 + 1] <= 511
    BY <1>1, <2>4, h[4] <= 2 * 511 + 1
  <2>6. h[5 + 1] <= 255
    BY <1>1, <2>5, h[5] <= 2 * 255 + 1
  <2>7. h[6 + 1] <= 127
    BY <1>1, <2>6, h[6] <= 2 * 127 + 1
  <2>8. h[7 + 1] <= 63
    BY <1>1, <2>7, h[7] <= 2 * 63 + 1
  <2>9. h[8 + 1] <= 31
    BY <1>1, <2>8, h[8] <= 2 * 31 + 1
  <2>10. h[9 + 1] <= 15
    BY <1>1, <2>9, h[9] <= 2 * 15 + 1
  <2>11. h[10 + 1] <= 7
    BY <1>1, <2>10, h[10] <= 2 * 7 + 1
  <2>12. h[11 + 1] <= 3
    BY <1>1, <2>11, h[11] <= 2 * 3 + 1
  <2>13. h[12 + 1] <= 1
    BY <1>1, <2>12, h[12] <= 2 * 1 + 1
  <2>14. h[13 + 1] <= 0
    BY <1>1, <2>13, h[13] <= 2 * 0 + 1
  <2> QED  BY <2>14, h[14] \in Nat
<1> QED  BY <1>3, <1>4, <1>5

Values(v, req, shift, width) ==
  v = [w \in 0..width |->
         IF w = 0 THEN 0
         ELSE 2 * v[w - 1] + (IF shift + width - w \in req THEN 1 ELSE 0)]

LEMMA FieldIs ==
  ASSUME NEW req, NEW shift \in Nat, NEW width \in Nat
  PROVE  \E v : Values(v, req, shift, width) /\ Field(req, shift, width) = v[width]
<1> DEFINE G == [p \in Nat \X Nat |->
                   2 * p[2] + (IF shift + width - p[1] \in req THEN 1 ELSE 0)]
<1>1. G \in [Nat \X Nat -> Nat]
  OBVIOUS
<1>2. PICK f \in [0..width -> Nat] : Recurs(f, 0, G, width)
  BY <1>1, RecursionExists
<1>3. Values(f, req, shift, width)
  <2>1. \A w \in 0..width : w # 0 => w \in Nat /\ f[w - 1] \in Nat
    BY <1>2
  <2>2. \A w \in 0..width : w # 0 =>
          G[<<w, f[w - 1]>>] = 2 * f[w - 1] + (IF shift + width - w \in req THEN 1 ELSE 0)
    BY <2>1
  <2> QED  BY <1>2, <2>2 DEF Recurs, Values
<1>4. Values(CHOOSE v : Values(v, req, shift, width), req, shift, width)
  BY <1>3
<1> QED  BY <1>4 DEF Field, Values

\* The bits of the halves h are those of the field of a request.
Holds(req, shift, width, h) == \A i \in 0..(width - 1) : shift + i \in req <=> h[i] % 2 = 1

\* A field that holds the bits of a number, which has no more, is that number.
LEMMA FieldKept ==
  ASSUME NEW n \in Nat, NEW h \in [0..16 -> Nat], Halves(h, n),
         NEW req, NEW shift \in Nat, NEW width \in 0..16, h[width] = 0,
         Holds(req, shift, width, h)
  PROVE  Field(req, shift, width) = n
<1>1. width \in Nat
  OBVIOUS
<1>2. PICK v : Values(v, req, shift, width) /\ Field(req, shift, width) = v[width]
  BY <1>1, FieldIs
<1>3. \A w \in 0..width :
        v[w] = IF w = 0 THEN 0
               ELSE 2 * v[w - 1] + (IF shift + width - w \in req THEN 1 ELSE 0)
  BY <1>2 DEF Values
<1>4. \A i \in 0..16 : h[i] = IF i = 0 THEN n ELSE h[i - 1] \div 2
  BY DEF Halves
<1> DEFINE S == {w \in Nat : w <= width => v[w] = h[width - w]}
<1>5. 0 \in S
  BY <1>3
<1>6. ASSUME NEW w \in S, w \in Nat PROVE w + 1 \in S
  <2> SUFFICES ASSUME w + 1 <= width PROVE v[w + 1] = h[width - (w + 1)]
    BY <1>6
  <2> DEFINE i == width - (w + 1)
  <2>1. /\ w + 1 \in 0..width /\ w + 1 # 0 /\ (w + 1) - 1 = w /\ w <= width
        /\ i \in 0..(width - 1) /\ i \in 0..16 /\ i + 1 \in 0..16 /\ i + 1 # 0 /\ (i + 1) - 1 = i
        /\ width - w = i + 1 /\ shift + width - (w + 1) = shift + i
    BY <1>6
  <2>2. v[w + 1] = 2 * v[w] + (IF shift + width - (w + 1) \in req THEN 1 ELSE 0)
    BY <1>3, <2>1
  <2>3. v[w] = h[i + 1] /\ h[i + 1] = h[i] \div 2 /\ h[i] \in Nat
    BY <1>4, <2>1
  <2>4. shift + width - (w + 1) \in req <=> h[i] % 2 = 1
    BY <2>1 DEF Holds
  <2> HIDE DEF i
  <2>5. h[i] % 2 \in 0..1 /\ h[i] = 2 * (h[i] \div 2) + (h[i] % 2)
    BY <2>3, HalfNat
  <2>6. v[w + 1] = h[i]
    BY <2>2, <2>3, <2>4, <2>5
  <2> QED  BY <2>6 DEF i
<1> HIDE DEF S
<1>7. Nat \subseteq S
  BY <1>5, <1>6, SetInduction
<1>8. v[width] = h[0]
  BY <1>7 DEF S
<1> QED  BY <1>2, <1>4, <1>8

\* A number that a field of w bits can hold.
Fits(n, w) ==
  /\ n \in Nat
  /\ (w = 2 /\ n <= 3) \/ (w = 8 /\ n <= 255) \/ (w = 14 /\ n <= 16383)

\* Its bits are in the field, and none from there on.
InField(n, w, h) ==
  /\ Halves(h, n) /\ h[w] = 0
  /\ Bits(n) \subseteq 0..(w - 1)
  /\ \A i \in 0..(w - 1) : i \in Bits(n) <=> h[i] % 2 = 1

LEMMA PutBits ==
  ASSUME NEW n, NEW w, Fits(n, w)
  PROVE  \E h \in [0..16 -> Nat] : InField(n, w, h)
<1>0. n \in Nat
  BY DEF Fits
<1>1. PICK h \in [0..16 -> Nat] : Halves(h, n) /\ Bits(n) = {i \in 0..16 : h[i] % 2 = 1}
  BY <1>0, BitsAre, Zenon
<1>2. w \in 0..16 /\ h[w] = 0
  BY <1>1, Widths DEF Fits
<1>3. \A i \in 0..16 : h[i] % 2 = 1 => i < w
  BY <1>1, <1>2, NoHighBits DEF Fits
<1>4. \A i \in 0..(w - 1) : i \in 0..16
  BY <1>2
<1>5. Bits(n) \subseteq 0..(w - 1)
  <2>1. \A i \in Bits(n) : i \in 0..16 /\ i < w
    BY <1>1, <1>3, Zenon
  <2> QED  BY <1>2, <2>1
<1>6. \A i \in 0..(w - 1) : i \in Bits(n) <=> h[i] % 2 = 1
  BY <1>1, <1>4, Zenon
<1> QED  BY <1>1, <1>2, <1>5, <1>6 DEF InField

\* A field into which a number that fits was put is that number.
LEMMA FieldOf ==
  ASSUME NEW n, NEW w, Fits(n, w),
         NEW req, NEW shift \in Nat, \A i \in 0..(w - 1) : shift + i \in req <=> i \in Bits(n)
  PROVE  Field(req, shift, w) = n /\ Bits(n) \subseteq 0..(w - 1)
<1>1. PICK h \in [0..16 -> Nat] : InField(n, w, h)
  BY PutBits
<1>2. Holds(req, shift, w, h)
  BY <1>1 DEF Holds, InField
<1>3. w \in 0..16 /\ Halves(h, n) /\ h[w] = 0 /\ Bits(n) \subseteq 0..(w - 1) /\ n \in Nat
  BY <1>1 DEF InField, Fits
<1> QED  BY <1>2, <1>3, FieldKept

LEMMA FewBits ==
  ASSUME NEW n, NEW w, Fits(n, w)
  PROVE  Bits(n) \subseteq 0..(w - 1)
<1>1. PICK h \in [0..16 -> Nat] : InField(n, w, h)
  BY PutBits
<1> QED  BY <1>1 DEF InField

\* The fields of a request keep out of each other's way.
LEMMA FieldsKept ==
  ASSUME NEW dir, NEW typ, NEW nr, NEW size,
         Fits(dir, 2), Fits(typ, 8), Fits(nr, 8), Fits(size, 14)
  PROVE  /\ Direction(ioc(dir, typ, nr, size)) = dir
         /\ Field(ioc(dir, typ, nr, size), iocTypeShift, iocTypeBits) = typ
         /\ Number(ioc(dir, typ, nr, size)) = nr
         /\ SizeOf(ioc(dir, typ, nr, size)) = size
<1> DEFINE req == ioc(dir, typ, nr, size)
           D == Bits(dir)
           T == Bits(typ)
           N == Bits(nr)
           Z == Bits(size)
<1>1. Fits(dir, 2) /\ Fits(typ, 8) /\ Fits(nr, 8) /\ Fits(size, 14)
  OBVIOUS
<1>2. D \subseteq 0..(2 - 1) /\ T \subseteq 0..(8 - 1)
  BY <1>1, FewBits
<1>3. N \subseteq 0..(8 - 1) /\ Z \subseteq 0..(14 - 1)
  BY <1>1, FewBits
<1> DEFINE S(k, w) == {i + k : i \in w}
<1>5. req = (S(30, D) \cup S(8, T)) \cup S(0, N) \cup S(16, Z)
  BY DEF ioc, ShiftedBy, iocDirShift, iocTypeShift, iocNRShift, iocSizeShift, iocNRBits,
         iocTypeBits, iocSizeBits
<1> HIDE DEF req, D, T, N, Z
<1>6. Field(req, 30, 2) = dir
  <2>1. \A i \in 0..1 : 30 + i \in req <=> i \in D
    BY <1>2, <1>3, <1>5
  <2>2. \A i \in 0..(2 - 1) : 30 + i \in req <=> i \in Bits(dir)
    BY <2>1 DEF D
  <2> QED  BY <1>1, <2>2, FieldOf
<1>7. Field(req, 8, 8) = typ
  <2>1. \A i \in 0..7 : 8 + i \in req <=> i \in T
    BY <1>2, <1>3, <1>5
  <2>2. \A i \in 0..(8 - 1) : 8 + i \in req <=> i \in Bits(typ)
    BY <2>1 DEF T
  <2> QED  BY <1>1, <2>2, FieldOf
<1>8. Field(req, 0, 8) = nr
  <2>1. \A i \in 0..7 : 0 + i \in req <=> i \in N
    BY <1>2, <1>3, <1>5
  <2>2. \A i \in 0..(8 - 1) : 0 + i \in req <=> i \in Bits(nr)
    BY <2>1 DEF N
  <2> QED  BY <1>1, <2>2, FieldOf
<1>9. Field(req, 16, 14) = size
  <2>1. \A i \in 0..13 : 16 + i \in req <=> i \in Z
    BY <1>2, <1>3, <1>5
  <2>2. \A i \in 0..(14 - 1) : 16 + i \in req <=> i \in Bits(size)
    BY <2>1 DEF Z
  <2> QED  BY <1>1, <2>2, FieldOf
<1>10. /\ Direction(req) = Field(req, 30, 2)
       /\ Field(req, iocTypeShift, iocTypeBits) = Field(req, 8, 8)
       /\ Number(req) = Field(req, 0, 8)
       /\ SizeOf(req) = Field(req, 16, 14)
  BY DEF Direction, Number, SizeOf, iocDirShift, iocTypeShift, iocNRShift, iocSizeShift,
         iocNRBits, iocTypeBits, iocSizeBits
<1> QED  BY <1>6, <1>7, <1>8, <1>9, <1>10 DEF req

\* Each field is read back as what was put in: evdev understands the number that ioc makes, for every
\* direction, type, number and size there is (ioctl.go:30-33).
THEOREM RequestKept ==
  ASSUME NEW dir \in 0..3, NEW typ \in 0..255, NEW nr \in 0..255, NEW size \in 0..16383
  PROVE  LET req == ioc(dir, typ, nr, size)
         IN /\ Direction(req) = dir
            /\ Field(req, iocTypeShift, iocTypeBits) = typ
            /\ Number(req) = nr
            /\ SizeOf(req) = size
<1>1. Fits(dir, 2) /\ Fits(typ, 8) /\ Fits(nr, 8) /\ Fits(size, 14)
  BY DEF Fits
<1> QED  BY <1>1, FieldsKept
-----------------------------------------------------------------------------
(* The masks.                                                              *)

IsBuffer(buf) == \E n \in Nat : buf \in [0..(n - 1) -> SUBSET (0..7)]

\* A code is one bit of one byte.
LEMMA CodeSplits ==
  ASSUME NEW c \in Nat
  PROVE  /\ c \div 8 \in Nat /\ c % 8 \in 0..7
         /\ c = 8 * (c \div 8) + (c % 8)
         /\ \A i \in Nat, b \in 0..7 : c = 8 * i + b => i = c \div 8 /\ b = c % 8
<1>1. c \div 8 \in Nat /\ c % 8 \in 0..7 /\ c = 8 * (c \div 8) + (c % 8)
  OBVIOUS
<1>2. ASSUME NEW i \in Nat, NEW b \in 0..7, c = 8 * i + b PROVE i = c \div 8 /\ b = c % 8
  BY <1>1, <1>2
<1> QED  BY <1>1, <1>2

\* Looking at the bit of a code (device.go:166-170) and going through all bits
\* (device.go:277-285) come to the same.
LEMMA BitIsIndex ==
  ASSUME NEW buf, IsBuffer(buf), NEW c \in Nat
  PROVE  BitSet(buf, c) <=> c \in forEachSetBit(buf)
<1>1. PICK n \in Nat : buf \in [0..(n - 1) -> SUBSET (0..7)]
  BY DEF IsBuffer
<1>2. ASSUME BitSet(buf, c) PROVE c \in forEachSetBit(buf)
  <2>1. c \div 8 \in DOMAIN buf /\ c % 8 \in buf[c \div 8] /\ c = 8 * (c \div 8) + (c % 8)
    BY <1>2, CodeSplits DEF BitSet
  <2>2. c \in {8 * (c \div 8) + b : b \in buf[c \div 8]}
    BY <2>1
  <2> QED  BY <2>1, <2>2 DEF forEachSetBit
<1>3. ASSUME c \in forEachSetBit(buf) PROVE BitSet(buf, c)
  <2>1. PICK i \in DOMAIN buf : c \in {8 * i + b : b \in buf[i]}
    BY <1>3 DEF forEachSetBit
  <2>2. PICK b \in buf[i] : c = 8 * i + b
    BY <2>1
  <2>3. i \in Nat /\ b \in 0..7
    BY <1>1
  <2>4. i = c \div 8 /\ b = c % 8
    BY <2>2, <2>3, CodeSplits
  <2> QED  BY <2>2, <2>4 DEF BitSet
<1> QED  BY <1>2, <1>3

\* The bytes of a mask, of which the first n are there.
LEMMA CodesOfBytes ==
  ASSUME NEW mask \in SUBSET Nat, NEW n \in Nat, NEW buf,
         buf = [i \in 0..(n - 1) |-> Byte(mask, i)]
  PROVE  IsBuffer(buf) /\ forEachSetBit(buf) = {c \in mask : c < 8 * n}
<1>1. IsBuffer(buf)
  <2>1. \A i \in 0..(n - 1) : Byte(mask, i) \in SUBSET (0..7)
    BY DEF Byte
  <2> QED  BY <2>1 DEF IsBuffer
<1>2. ASSUME NEW c \in Nat PROVE c \in forEachSetBit(buf) <=> c \in mask /\ c < 8 * n
  <2>1. c \in forEachSetBit(buf) <=> c \div 8 \in 0..(n - 1) /\ c % 8 \in buf[c \div 8]
    BY <1>1, BitIsIndex DEF BitSet
  <2>2. c \div 8 \in Nat /\ c % 8 \in 0..7 /\ c = 8 * (c \div 8) + (c % 8)
    BY CodeSplits
  <2>3. c \div 8 \in 0..(n - 1) <=> c < 8 * n
    BY <2>2
  <2>4. c \div 8 \in 0..(n - 1) => (c % 8 \in buf[c \div 8] <=> c \in mask)
    BY <2>2 DEF Byte
  <2> QED  BY <2>1, <2>3, <2>4
<1>3. forEachSetBit(buf) \subseteq Nat
  <2>1. ASSUME NEW c \in forEachSetBit(buf) PROVE c \in Nat
    <3>1. PICK i \in DOMAIN buf : c \in {8 * i + b : b \in buf[i]}
      BY <2>1 DEF forEachSetBit
    <3>2. PICK b \in buf[i] : c = 8 * i + b
      BY <3>1
    <3>3. i \in Nat /\ b \in Nat
      BY DEF Byte
    <3> QED  BY <3>2, <3>3
  <2> QED  BY <2>1
<1> QED  BY <1>1, <1>2, <1>3

\* What the kernel wrote into a buffer of any size, of a mask of any size, is read
\* back exactly: no code is made up, and none is lost but those that did not fit
\* (device.go:238-255, 276-285).
THEOREM ReadBack ==
  ASSUME NEW dev, NEW req, NEW size \in Nat,
         Mask(dev, req) \in SUBSET Nat, Answered(req) \in Nat, Answered(req) <= size
  PROVE  /\ IsBuffer(Written(dev, req, size))
         /\ forEachSetBit(Written(dev, req, size)) =
              {c \in Mask(dev, req) : c < 8 * Answered(req)}
<1> DEFINE n == Answered(req)
           buf == [i \in 0..(n - 1) |-> Byte(Mask(dev, req), i)]
<1>1. Written(dev, req, size) = buf
  <2>1. ioctlBuf(dev, req, Zeroed(size)) =
          [n |-> n, buf |-> [i \in 0..(size - 1) |->
                               IF i < n THEN Byte(Mask(dev, req), i) ELSE {}]]
    BY DEF ioctlBuf, Zeroed
  <2>2. CASE n < size
    <3>1. Written(dev, req, size) =
            [i \in 0..(n - 1) |-> ioctlBuf(dev, req, Zeroed(size)).buf[i]]
      BY <2>1, <2>2 DEF Written
    <3> QED  BY <2>1, <2>2, <3>1
  <2>3. CASE n = size
    BY <2>1, <2>3 DEF Written
  <2> QED  BY <2>2, <2>3
<1>2. n \in Nat /\ Mask(dev, req) \in SUBSET Nat
  OBVIOUS
<1> HIDE DEF n, buf
<1>3. IsBuffer(buf) /\ forEachSetBit(buf) = {c \in Mask(dev, req) : c < 8 * n}
  BY <1>2, CodesOfBytes DEF buf
<1> QED  BY <1>1, <1>3 DEF n

\* HasCode looks at one bit and CapableCodes goes through them all, and they agree
\* on every code, at the edge of a byte, of what the kernel wrote, and far beyond
\* (device.go:148-171), as long as evdev keeps to the size it is given.
THEOREM HasCodeAgrees ==
  ASSUME NEW dev, NEW t, NEW c \in Nat,
         Mask(dev, eviocgbit(t, capBufBytes)) \in SUBSET Nat,
         Answered(eviocgbit(t, capBufBytes)) \in 0..capBufBytes
  PROVE  HasCode(dev, t, c) <=> c \in CapableCodes(dev, t)
<1> DEFINE req == eviocgbit(t, capBufBytes)
<1>1. CASE Refused(req)
  BY <1>1 DEF HasCode, CapableCodes
<1>2. CASE ~Refused(req)
  <2>1. capBufBytes \in Nat
    BY DEF capBufBytes, KEY_MAX
  <2>2. IsBuffer(queryBits(dev, t, capBufBytes))
    BY <2>1, ReadBack DEF queryBits
  <2> QED  BY <1>2, <2>2, BitIsIndex DEF HasCode, CapableCodes
<1> QED  BY <1>1, <1>2
-----------------------------------------------------------------------------
(* The queries.                                                            *)

\* The requests for masks.
LEMMA Understood ==
  ASSUME NEW nr, NEW size, Fits(nr, 8), Fits(size, 14),
         NEW req, req = ioc(iocRead, evdevType, nr, size)
  PROVE  Reads(req) /\ Number(req) = nr /\ SizeOf(req) = size
<1>1. Fits(iocRead, 2) /\ Fits(evdevType, 8)
  BY DEF iocRead, evdevType, Fits
<1>2. /\ Direction(req) = iocRead /\ Field(req, iocTypeShift, iocTypeBits) = evdevType
      /\ Number(req) = nr /\ SizeOf(req) = size
  BY <1>1, FieldsKept
<1> QED  BY <1>2 DEF Reads

\* The highest codes of the masks: none is the first of a long, which would be cut off.
Highest == {7, 15, 17, 31, 63, 127, 767}

LEMMA LongsHold ==
  ASSUME NEW max \in Highest, NEW long \in {32, 64}
  PROVE  (max + long - 1) \div long \in Nat /\ ((max + long - 1) \div long) * long > max
<1>1. CASE long = 32
  BY <1>1 DEF Highest
<1>2. CASE long = 64
  BY <1>2 DEF Highest
<1> QED  BY <1>1, <1>2

\* evdev has room for the whole mask, and stays within it.
LEMMA AnsweredWhole ==
  ASSUME NEW req, MaskMax(req) \in Highest, SizeOf(req) \in Nat, MaskMax(req) < 8 * SizeOf(req)
  PROVE  /\ Answered(req) \in Nat /\ Answered(req) <= SizeOf(req)
         /\ MaskMax(req) < 8 * Answered(req)
<1> DEFINE max == MaskMax(req)
           size == SizeOf(req)
           longs == (max + 8 * LongBytes - 1) \div (8 * LongBytes)
<1>1. max \in Highest /\ size \in Nat /\ max < 8 * size
  OBVIOUS
<1>2. Answered(req) = IF longs * LongBytes < size THEN longs * LongBytes ELSE size
  BY DEF Answered
<1> HIDE DEF max, size
<1>3. max \in Nat
  BY <1>1 DEF Highest
<1>4. CASE LongBytes = 4
  <2>1. longs = (max + 32 - 1) \div 32
    BY <1>4
  <2>2. longs \in Nat /\ longs * 32 > max
    BY <1>1, <2>1, LongsHold
  <2> HIDE DEF longs
  <2> QED  BY <1>1, <1>2, <1>3, <1>4, <2>2 DEF max, size
<1>5. CASE LongBytes = 8
  <2>1. longs = (max + 64 - 1) \div 64
    BY <1>5
  <2>2. longs \in Nat /\ longs * 64 > max
    BY <1>1, <2>1, LongsHold
  <2> HIDE DEF longs
  <2> QED  BY <1>1, <1>2, <1>3, <1>5, <2>2 DEF max, size
<1> QED  BY <1>4, <1>5, LongBytesAssumption

\* What is read of the answer to a request is its mask.
LEMMA MaskRead ==
  ASSUME NEW dev, NEW req, NEW size \in Nat, SizeOf(req) = size,
         MaskMax(req) \in Highest, MaskMax(req) < 8 * size,
         Mask(dev, req) \subseteq 0..MaskMax(req)
  PROVE  /\ forEachSetBit(Written(dev, req, size)) = Mask(dev, req)
         /\ IsBuffer(Written(dev, req, size))
<1>1. /\ Answered(req) \in Nat /\ Answered(req) <= size
      /\ MaskMax(req) < 8 * Answered(req)
  BY AnsweredWhole
<1>2. MaskMax(req) \in Nat
  BY DEF Highest
<1>3. Mask(dev, req) \in SUBSET Nat /\ \A c \in Mask(dev, req) : c < 8 * Answered(req)
  BY <1>1, <1>2
<1>4. /\ IsBuffer(Written(dev, req, size))
      /\ forEachSetBit(Written(dev, req, size)) = {c \in Mask(dev, req) : c < 8 * Answered(req)}
  BY <1>1, <1>3, ReadBack
<1> QED  BY <1>3, <1>4

\* The types of events a device has are the bits of the answer (device.go:138-146).
THEOREM TypesRight == ASSUME NEW dev, IsDevice(dev) PROVE CapableTypes(dev) = dev.types
<1> DEFINE req == eviocgbit(0, 4)
<1>1. Number(req) = 32 /\ SizeOf(req) = 4
  <2>1. req = ioc(iocRead, evdevType, 32, 4) /\ Fits(32, 8) /\ Fits(4, 14)
    BY DEF eviocgbit, Fits
  <2> HIDE DEF req
  <2> QED  BY <2>1, Understood
<1>2. (EV_MAX + 8) \div 8 = 4
  BY DEF EV_MAX
<1>3. CapableTypes(dev) = forEachSetBit(Written(dev, req, 4))
  BY <1>2 DEF CapableTypes, queryBits
<1> HIDE DEF req
<1>4. Mask(dev, req) = dev.types /\ MaskMax(req) = EV_MAX
  BY <1>1 DEF Mask, MaskMax
<1>5. MaskMax(req) \in Highest /\ MaskMax(req) < 8 * 4
  BY <1>4 DEF EV_MAX, Highest
<1>6. Mask(dev, req) \subseteq 0..MaskMax(req)
  BY <1>4 DEF IsDevice
<1> QED  BY <1>1, <1>3, <1>4, <1>5, <1>6, MaskRead

\* So are its properties (device.go:193-211).
THEOREM PropsRight == ASSUME NEW dev, IsDevice(dev) PROVE CapableProps(dev) = dev.props
<1> DEFINE req == eviocgprop(4)
<1>1. Number(req) = 9 /\ SizeOf(req) = 4
  <2>1. req = ioc(iocRead, evdevType, 9, 4) /\ Fits(9, 8) /\ Fits(4, 14)
    BY DEF eviocgprop, Fits
  <2> HIDE DEF req
  <2> QED  BY <2>1, Understood
<1>2. (INPUT_PROP_MAX + 8) \div 8 = 4
  BY DEF INPUT_PROP_MAX
<1>3. CapableProps(dev) = forEachSetBit(Written(dev, req, 4))
  BY <1>2 DEF CapableProps
<1> HIDE DEF req
<1>4. Mask(dev, req) = dev.props /\ MaskMax(req) = INPUT_PROP_MAX
  BY <1>1 DEF Mask, MaskMax
<1>5. MaskMax(req) \in Highest /\ MaskMax(req) < 8 * 4
  BY <1>4 DEF INPUT_PROP_MAX, Highest
<1>6. Mask(dev, req) \subseteq 0..MaskMax(req)
  BY <1>4 DEF IsDevice
<1> QED  BY <1>1, <1>3, <1>4, <1>5, <1>6, MaskRead

\* The request for the codes of a type that has a mask, and what it is answered.
LEMMA CodesAnswered ==
  ASSUME NEW dev, IsDevice(dev), NEW t \in DOMAIN MaxCode, NEW req, req = eviocgbit(t, capBufBytes)
  PROVE  /\ ~Refused(req) /\ IsBuffer(queryBits(dev, t, capBufBytes))
         /\ forEachSetBit(queryBits(dev, t, capBufBytes)) = dev.codes[t]
<1>1. t \in 1..31 /\ capBufBytes = 96
  BY DEF MaxCode, EV_KEY, EV_REL, EV_ABS, EV_MSC, EV_SW, EV_LED, EV_SND, EV_FF, capBufBytes, KEY_MAX
<1>2. Reads(req) /\ Number(req) = 32 + t /\ SizeOf(req) = 96
  <2>1. req = ioc(iocRead, evdevType, 32 + t, 96) /\ Fits(32 + t, 8) /\ Fits(96, 14)
    BY <1>1 DEF eviocgbit, Fits
  <2> QED  BY <2>1, Understood
<1>3. ~Refused(req)
  BY <1>2 DEF Refused
<1>4. Mask(dev, req) = dev.codes[t] /\ MaskMax(req) = MaxCode[t]
  BY <1>1, <1>2 DEF Mask, MaskMax
<1>5. MaxCode[t] \in Highest
  BY DEF MaxCode, EV_KEY, EV_REL, EV_ABS, EV_MSC, EV_SW, EV_LED, EV_SND, EV_FF, Highest,
         KEY_MAX, REL_MAX, ABS_MAX, MSC_MAX, SW_MAX, LED_MAX, SND_MAX, FF_MAX
<1>6. MaskMax(req) < 8 * 96
  BY <1>4, <1>5 DEF Highest
<1>7. Mask(dev, req) \subseteq 0..MaskMax(req)
  BY <1>4 DEF IsDevice
<1>8. queryBits(dev, t, capBufBytes) = Written(dev, req, 96)
  BY <1>1 DEF queryBits
<1> QED  BY <1>2, <1>3, <1>4, <1>5, <1>6, <1>7, <1>8, MaskRead

\* The codes of every type that has some, up to the highest, in whichever word of
\* the mask they are, and nothing for the types without (device.go:150-158).
\* EV_SYN is no such type: its request is the one for the types.
THEOREM CodesRight ==
  ASSUME NEW dev, IsDevice(dev), NEW t \in 0..EV_MAX, t # EV_SYN
  PROVE  CapableCodes(dev, t) = IF t \in DOMAIN MaxCode THEN dev.codes[t] ELSE {}
<1> DEFINE req == eviocgbit(t, capBufBytes)
<1>1. CASE t \in DOMAIN MaxCode
  BY <1>1, CodesAnswered DEF CapableCodes
<1>2. CASE t \notin DOMAIN MaxCode
  <2>1. t \in 1..31 /\ capBufBytes = 96
    BY DEF EV_MAX, EV_SYN, capBufBytes, KEY_MAX
  <2>2. Number(req) = 32 + t
    <3>1. req = ioc(iocRead, evdevType, 32 + t, 96) /\ Fits(32 + t, 8) /\ Fits(96, 14)
      BY <2>1 DEF eviocgbit, Fits
    <3> HIDE DEF req
    <3> QED  BY <3>1, Understood
  <2> HIDE DEF req
  <2>3. \A u \in DOMAIN MaxCode : u \in Nat /\ u # t
    BY <1>2 DEF MaxCode, EV_KEY, EV_REL, EV_ABS, EV_MSC, EV_SW, EV_LED, EV_SND, EV_FF
  <2>4. Number(req) \notin {9, 32} \cup {32 + u : u \in DOMAIN MaxCode}
    BY <2>1, <2>2, <2>3
  <2> QED  BY <1>2, <2>4 DEF Refused, CapableCodes, req
<1> QED  BY <1>1, <1>2

\* IsKeyboard is the three keys, as the device has them (device.go:176-187).
THEOREM KeyboardRight ==
  ASSUME NEW dev, IsDevice(dev)
  PROVE  IsKeyboard(dev) <=> {KEY_A, KEY_Z, KEY_SPACE} \subseteq dev.codes[EV_KEY]
<1>1. EV_KEY \in DOMAIN MaxCode
  BY DEF MaxCode
<1>2. ASSUME NEW c \in {KEY_A, KEY_Z, KEY_SPACE}
      PROVE  HasCode(dev, EV_KEY, c) <=> c \in dev.codes[EV_KEY]
  <2>1. c \in Nat
    BY DEF KEY_A, KEY_Z, KEY_SPACE
  <2>2. /\ ~Refused(eviocgbit(EV_KEY, capBufBytes))
        /\ IsBuffer(queryBits(dev, EV_KEY, capBufBytes))
        /\ forEachSetBit(queryBits(dev, EV_KEY, capBufBytes)) = dev.codes[EV_KEY]
    BY <1>1, CodesAnswered
  <2> QED  BY <2>1, <2>2, BitIsIndex DEF HasCode
<1> QED  BY <1>2 DEF IsKeyboard
=============================================================================

------------------------------ MODULE Queries ------------------------------
(***************************************************************************)
(* ioctl.go and the queries of device.go: the numbers of the requests, and *)
(* what is made of the bitmasks evdev answers them with.                   *)
(*                                                                         *)
(* A word is the set of the positions of its bits.  A buffer is a sequence *)
(* of bytes that counts from 0, each the set of its bits.  A device is a   *)
(* record of its event types, the codes of each that it has, and its       *)
(* properties.                                                             *)
(***************************************************************************)
EXTENDS Integers, Codes

CONSTANT LongBytes  \* of an unsigned long in the kernel

ASSUME LongBytesAssumption == LongBytes \in {4, 8}

iocNRBits   == 8
iocTypeBits == 8
iocSizeBits == 14

iocNRShift   == 0
iocTypeShift == iocNRShift + iocNRBits
iocSizeShift == iocTypeShift + iocTypeBits
iocDirShift  == iocSizeShift + iocSizeBits

iocWrite == 1
iocRead  == 2

evdevType == 69

\* No argument has more than 17 bits, and a uintptr has more than all of them.
Bits(n) ==
  LET half[i \in 0..16] == IF i = 0 THEN n ELSE half[i - 1] \div 2
  IN {i \in 0..16 : half[i] % 2 = 1}

ShiftedBy(k, word) == {i + k : i \in word}

ioc(dir, typ, nr, size) ==
  ShiftedBy(iocDirShift, Bits(dir)) \cup ShiftedBy(iocTypeShift, Bits(typ))
    \cup ShiftedBy(iocNRShift, Bits(nr)) \cup ShiftedBy(iocSizeShift, Bits(size))

ior(typ, nr, size) == ioc(iocRead, typ, nr, size)
iow(typ, nr, size) == ioc(iocWrite, typ, nr, size)

eviocgversion      == ior(evdevType, 1, 4)
eviocgid           == ior(evdevType, 2, 8)
eviocgname(length) == ioc(iocRead, evdevType, 6, length)
eviocgphys(length) == ioc(iocRead, evdevType, 7, length)
eviocguniq(length) == ioc(iocRead, evdevType, 8, length)
eviocgprop(length) == ioc(iocRead, evdevType, 9, length)

eviocgbit(ev, length) == ioc(iocRead, evdevType, 32 + ev, length)

eviocgrab == iow(evdevType, 144, 4)
-----------------------------------------------------------------------------
(* evdev.  It tells requests by their direction and number, and those of a *)
(* fixed size by that too.  One for the mask of a type that has none,      *)
(* EV_REP for one, is refused.  A mask is answered in longs, cut to the    *)
(* size that the request has.                                              *)

\* From the highest bit down.
Field(req, shift, width) ==
  LET value[w \in 0..width] ==
        IF w = 0 THEN 0
        ELSE 2 * value[w - 1] + (IF shift + width - w \in req THEN 1 ELSE 0)
  IN value[width]

Number(req) == Field(req, iocNRShift, iocNRBits)
SizeOf(req) == Field(req, iocSizeShift, iocSizeBits)

Direction(req) == Field(req, iocDirShift, 2)

Reads(req) == Field(req, iocTypeShift, iocTypeBits) = evdevType /\ Direction(req) = iocRead

\* What a request about who the device is asks for.
Subject(req) ==
  CASE Reads(req) /\ Number(req) = 2 /\ SizeOf(req) = 8 -> "id"
    [] Reads(req) /\ Number(req) = 6 -> "name"
    [] Reads(req) /\ Number(req) = 7 -> "phys"
    [] Reads(req) /\ Number(req) = 8 -> "uniq"
    [] OTHER -> "nothing"

Grabs(req) ==
  /\ Field(req, iocTypeShift, iocTypeBits) = evdevType
  /\ Direction(req) = iocWrite /\ Number(req) = 144 /\ SizeOf(req) = 4

FF_MAX == 127

\* The highest code of each type that has a mask.
MaxCode ==
  [t \in {EV_KEY, EV_REL, EV_ABS, EV_MSC, EV_SW, EV_LED, EV_SND, EV_FF} |->
     CASE t = EV_KEY -> KEY_MAX [] t = EV_REL -> REL_MAX [] t = EV_ABS -> ABS_MAX
       [] t = EV_MSC -> MSC_MAX [] t = EV_SW -> SW_MAX   [] t = EV_LED -> LED_MAX
       [] t = EV_SND -> SND_MAX [] OTHER -> FF_MAX]

\* The types, codes and properties that evdev lets a device have.
IsDevice(dev) ==
  /\ dev.types \subseteq 0..EV_MAX
  /\ dev.props \subseteq 0..INPUT_PROP_MAX
  /\ DOMAIN dev.codes = DOMAIN MaxCode
  /\ \A t \in DOMAIN MaxCode : dev.codes[t] \subseteq 0..MaxCode[t]

Refused(req) ==
  ~Reads(req) \/ Number(req) \notin {9, 32} \cup {32 + t : t \in DOMAIN MaxCode}

Mask(dev, req) ==
  CASE Number(req) = 9  -> dev.props
    [] Number(req) = 32 -> dev.types
    [] OTHER            -> dev.codes[Number(req) - 32]

MaskMax(req) ==
  CASE Number(req) = 9  -> INPUT_PROP_MAX
    [] Number(req) = 32 -> EV_MAX
    [] OTHER            -> MaxCode[Number(req) - 32]

\* How many bytes evdev writes of a mask of so many codes.
Answered(req) ==
  LET longs == (MaskMax(req) + 8 * LongBytes - 1) \div (8 * LongBytes)
  IN IF longs * LongBytes < SizeOf(req) THEN longs * LongBytes ELSE SizeOf(req)

Byte(mask, i) == {b \in 0..7 : 8 * i + b \in mask}
-----------------------------------------------------------------------------
\* The buffer after the call, and the number of bytes it returns.
ioctlBuf(dev, req, buf) ==
  LET n == Answered(req)
      mask == Mask(dev, req)
  IN [n |-> n, buf |-> [i \in DOMAIN buf |-> IF i < n THEN Byte(mask, i) ELSE buf[i]]]

Zeroed(size) == [i \in 0..(size - 1) |-> {}]

\* The bytes that the kernel wrote, of an answer of evdev to a request for size.
Written(dev, req, size) ==
  LET a == ioctlBuf(dev, req, Zeroed(size))
  IN IF a.n < size THEN [i \in 0..(a.n - 1) |-> a.buf[i]] ELSE a.buf

queryBits(dev, ev, size) == Written(dev, eviocgbit(ev, size), size)

\* Mutant: the last bit of every byte is left out.
forEachOfSeven(buf) == UNION {{8 * i + b : b \in buf[i] \ {7}} : i \in DOMAIN buf}

\* The indices of the bits that are set, which is what the callers collect.
forEachSetBit(buf) == UNION {{8 * i + b : b \in buf[i]} : i \in DOMAIN buf}

capBufBytes == (KEY_MAX + 8) \div 8

CapableTypes(dev) == forEachSetBit(queryBits(dev, 0, (EV_MAX + 8) \div 8))

CapableProps(dev) ==
  LET size == (INPUT_PROP_MAX + 8) \div 8
  IN forEachSetBit(Written(dev, eviocgprop(size), size))

\* Nothing but an error for a type whose request is refused.
CapableCodes(dev, t) ==
  IF Refused(eviocgbit(t, capBufBytes)) THEN {}
  ELSE forEachSetBit(queryBits(dev, t, capBufBytes))

\* Bit c of a buffer, if it has as many.
BitSet(bits, c) == c \div 8 \in DOMAIN bits /\ c % 8 \in bits[c \div 8]

HasCode(dev, t, c) ==
  ~Refused(eviocgbit(t, capBufBytes)) /\ BitSet(queryBits(dev, t, capBufBytes), c)

\* A device that goes while it is asked is no keyboard either, so asking for the
\* three codes is one step, the last of the requests.
IsKeyboard(dev) == \A c \in {KEY_A, KEY_Z, KEY_SPACE} : HasCode(dev, EV_KEY, c)
=============================================================================

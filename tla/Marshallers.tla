----------------------------- MODULE Marshallers -----------------------------
(***************************************************************************)
(* The marshallers of single members (lib/marshal.cpp 32-392): how a value *)
(* becomes bytes, most significant first, and how bytes become a value.    *)
(*                                                                         *)
(* The widths of the C++ types are constants, for TLC takes small ones.    *)
(* A float counts in steps of a grid on which the range and the precision  *)
(* lie; a double is the integer with its bits; a string is a sequence of   *)
(* bytes.                                                                  *)
(***************************************************************************)
EXTENDS Integers, Sequences, SequencesExt

CONSTANTS
  ByteBits,     \* bits of an unsigned char (8)
  IntBytes,     \* bytes of an int (4)
  LongBytes,    \* bytes of an unsigned long long (8)
  FullShift     \* 1ULL << 64, which C++ leaves open: 0, or 1

ASSUME MarshallersAssumption ==
  /\ ByteBits \in Nat \ {0} /\ IntBytes \in Nat \ {0}
  /\ LongBytes \in Nat /\ LongBytes > IntBytes
  /\ FullShift \in {0, 1}

\* 1 << n, in an integer as wide as it takes.
TwoTo[n \in Nat] == IF n = 0 THEN 1 ELSE 2 * TwoTo[n - 1]

\* How many values n bytes have.
Width(n) == TwoTo[ByteBits * n]

Base == TwoTo[ByteBits]
Byte == 0 .. Base - 1
UintWidth == Width(IntBytes)
LongWidth == Width(LongBytes)

\* An unsigned int cast to an int.
Signed(x) ==
  LET u == x % UintWidth IN IF u < UintWidth \div 2 THEN u ELSE u - UintWidth

ShiftedOne(bits) == IF bits < ByteBits * LongBytes THEN TwoTo[bits] ELSE FullShift

CeilDiv(x, y) == (x + y - 1) \div y

(***************************************************************************)
(* The member marshallers, as MARSHAL_INT() and its like describe them.    *)
(***************************************************************************)
IntMarshaller(min, max) == [kind |-> "int", min |-> min, max |-> max]
UintMarshaller(bits) == [kind |-> "uint", bits |-> bits]
Uint64Marshaller(bits) == [kind |-> "uint64", bits |-> bits]
FloatMarshaller(min, max, prec) ==
  [kind |-> "float", min |-> min, max |-> max, prec |-> prec]
DoubleMarshaller == Uint64Marshaller(ByteBits * LongBytes)
BoolMarshaller == [kind |-> "bool"]
StringMarshaller(maxSize) == [kind |-> "string", maxSize |-> maxSize]

\* int_ of a float and of a string.
FloatInt(m) == IntMarshaller(0, CeilDiv(m.max - m.min, m.prec) + 1)
StringInt(m) == IntMarshaller(0, m.maxSize)

(***************************************************************************)
(* bytes_: setRange() and setBits().                                       *)
(***************************************************************************)
RangeBytes(m) ==
  Min({n \in 1 .. IntBytes : n = IntBytes \/ Width(n) > Signed(m.max - m.min)})

BitBytes(bits) == Min({n \in 1 .. IntBytes : n = IntBytes \/ n * ByteBits >= bits})

Bytes(m) ==
  CASE m.kind = "int"    -> RangeBytes(m)
    [] m.kind = "uint"   -> BitBytes(m.bits)
    [] m.kind = "uint64" -> CeilDiv(m.bits, ByteBits)
    [] m.kind = "float"  -> RangeBytes(FloatInt(m))
    [] m.kind = "string" -> RangeBytes(StringInt(m))
    [] m.kind = "bool"   -> 1

MaxWithoutLength(m) == IF m.kind = "string" THEN m.maxSize ELSE Bytes(m)

MaxMarshalledSize(m) == Bytes(m) + IF m.kind = "string" THEN m.maxSize ELSE 0

(***************************************************************************)
(* The marshallers that can be made: the constructor of a float throws     *)
(* when its steps are no int (244), a uint64 takes up to its own width     *)
(* (187), and resolve() asserts that none writes nothing (420).            *)
(***************************************************************************)
CInt == -(UintWidth \div 2) .. UintWidth \div 2 - 1

IsMarshaller(m) ==
  \/ m.kind = "int" /\ m.min \in CInt /\ m.max \in CInt
  \/ m.kind = "uint" /\ m.bits \in Nat
  \/ m.kind = "uint64" /\ m.bits \in 1 .. ByteBits * LongBytes
  \/ m.kind = "float" /\ m.min \in Int /\ m.max \in Int /\ m.prec \in Nat \ {0}
       /\ CeilDiv(m.max - m.min, m.prec) + 1 \in CInt
  \/ m.kind = "string" /\ m.maxSize \in Nat /\ m.maxSize \in CInt
  \/ m.kind = "bool"

\* The values a variable of the member's C++ type can have.
IsValue(m, v) ==
  CASE m.kind = "int"    -> v \in CInt
    [] m.kind = "uint"   -> v \in 0 .. UintWidth - 1
    [] m.kind = "uint64" -> v \in 0 .. LongWidth - 1
    [] m.kind = "float"  -> v \in Int
    [] m.kind = "string" -> v \in Seq(Byte)
    [] m.kind = "bool"   -> v \in BOOLEAN

(***************************************************************************)
(* What a member may be; marshal() throws for anything else.               *)
(***************************************************************************)
Legal(m, v) ==
  CASE m.kind \in {"int", "float"} -> m.min <= v /\ v <= m.max
    [] m.kind = "uint"   -> v <= (ShiftedOne(m.bits) - 1) % UintWidth
    [] m.kind = "uint64" -> v <= (ShiftedOne(m.bits) - 1) % LongWidth
    [] m.kind = "string" -> Len(v) <= m.maxSize
    [] m.kind = "bool"   -> v \in BOOLEAN

(***************************************************************************)
(* marshal(): the bytes it writes.                                         *)
(***************************************************************************)
LittleEndian(v, n) == [i \in 1 .. n |-> (v \div Width(i - 1)) % Base]

BigEndian(v, n) == [i \in 1 .. n |-> (v \div Width(n - i)) % Base]

\* The integer that stands for v.  That of an int is v itself.
Code(m, v) ==
  CASE m.kind = "int"    -> v % UintWidth
    [] m.kind \in {"uint", "uint64"} -> v
    [] m.kind = "float"  -> (v - m.min) \div m.prec
    [] m.kind = "string" -> Len(v)
    [] m.kind = "bool"   -> IF v THEN 1 ELSE 0

Marshalled(m, v) ==
  BigEndian(Code(m, v), Bytes(m)) \o IF m.kind = "string" THEN v ELSE <<>>

(***************************************************************************)
(* demarshal(): the integer read, the number of bytes it takes with what   *)
(* follows, the value, and whether it is in range, or else demarshal()     *)
(* throws.                                                                 *)
(***************************************************************************)
ReadCode(m, in) ==
  LET ret[i \in 0 .. Bytes(m)] == IF i = 0 THEN 0 ELSE ret[i - 1] * Base + in[i]
  IN  ret[Bytes(m)]

IntRead(m, code) == Signed(code + m.min)

\* What Block holds after the code suffices, too.
Complete(m, in) ==
  /\ Len(in) >= Bytes(m)
  /\ m.kind = "string" => Len(in) - Bytes(m) >= ReadCode(m, in)

\* A uint64 is not tested, a float only within the range of its integer.
Accepts(m, in) ==
  LET code == ReadCode(m, in)
      inRange(n) == n.min <= IntRead(n, code) /\ IntRead(n, code) <= n.max
  IN  CASE m.kind = "int"    -> inRange(m)
        [] m.kind = "float"  -> inRange(FloatInt(m))
        [] m.kind = "string" -> inRange(StringInt(m))
        [] m.kind = "uint"   -> Legal(m, code)
        [] m.kind \in {"uint64", "bool"} -> TRUE

Taken(m, in) == Bytes(m) + IF m.kind = "string" THEN ReadCode(m, in) ELSE 0

Demarshalled(m, in) ==
  LET code == ReadCode(m, in)
  IN  CASE m.kind = "int"    -> IntRead(m, code)
        [] m.kind = "float"  -> code * m.prec + m.min
        [] m.kind = "string" -> SubSeq(in, Bytes(m) + 1, Taken(m, in))
        [] m.kind = "bool"   -> code # 0
        [] m.kind \in {"uint", "uint64"} -> code

=============================================================================

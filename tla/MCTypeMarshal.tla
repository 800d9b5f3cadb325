---------------------------- MODULE MCTypeMarshal ----------------------------
(* TypeMarshal with bytes of two bits, ints of four and longs of six. *)
EXTENDS TypeMarshal

\* Ranges that begin at zero, and one that does not.
MCTypes ==
  [inner |-> <<StringMarshaller(2), BoolMarshaller>>,
   outer |-> <<IntMarshaller(0, 2), Struct("inner"), UintMarshaller(3)>>,
   wide  |-> <<FloatMarshaller(-4, 5, 5), Uint64Marshaller(3), DoubleMarshaller>>,
   below |-> <<IntMarshaller(-1, 2)>>]

MCSample(m) ==
  CASE m.kind = "int"    -> {m.min, m.max, m.max + 1}
    [] m.kind = "uint"   -> {0, 7, 8}
    [] m.kind = "uint64" -> {1, 7, 8}
    [] m.kind = "float"  -> {-4, 1, 5}
    [] m.kind = "string" -> {<<>>, <<1, 3>>}
    [] m.kind = "bool"   -> BOOLEAN

MCNoise == {[i \in 1 .. Size |-> IF i <= k THEN 3 ELSE 1] : k \in {0, 1, 3}}
=============================================================================

-------------------------- MODULE EtworkLinkProofs --------------------------
(***************************************************************************)
(* Proofs about EtworkLink: what one end writes reaches the other whole,   *)
(* for all limits and sizes, in however many pieces it is sent and         *)
(* received.                                                               *)
(*                                                                         *)
(* A stream is read by where its frames begin (Offset).  Framed says which *)
(* part of the stream a bufOut_ still has, Parsed what a bufIn_ has made   *)
(* of a part of it.  One turn of get_data keeps the first, one turn of     *)
(* put_data the second, and so do get_data and put_data, by induction over *)
(* the number of turns (RecursionStays).  StreamInv and ReceptionInv say   *)
(* so of both directions of the connection.                                *)
(***************************************************************************)
EXTENDS EtworkLink, TLAPS, SequenceTheorems, WellFoundedInduction

(***************************************************************************)
(* Induction and recursion over numbers.  The theorems of the library take *)
(* an operator; here a property is the set of numbers that have it.        *)
(***************************************************************************)
Below == {p \in Nat \X Nat : p[1] < p[2]}

LEMMA BelowWellFounded == IsWellFoundedOn(Below, Nat)
  BY NatLessThanWellFounded DEF Below, OpToRel

LEMMA Least ==
  ASSUME NEW T, T \subseteq Nat, T # {}
  PROVE  \E m \in T : \A k \in T : m <= k
<1>1. PICK m \in T : \A k \in T : <<k, m>> \notin Below
  BY BelowWellFounded, WFMin
<1>2. ASSUME NEW k \in T PROVE m <= k
  <2>1. <<k, m>> \in Nat \X Nat /\ <<k, m>> \notin Below
    BY <1>1
  <2>2. ~(k < m)
    BY <2>1 DEF Below
  <2> QED
    BY <2>2
<1> QED BY <1>2

LEMMA Induction ==
  ASSUME NEW T, 0 \in T, \A n \in Nat : n \in T => n + 1 \in T
  PROVE  \A n \in Nat : n \in T
<1> SUFFICES ASSUME Nat \ T # {} PROVE FALSE
  OBVIOUS
<1>1. PICK m \in Nat \ T : \A k \in Nat \ T : m <= k
  BY Least
<1>2. m - 1 \in T
  BY <1>1
<1> QED
  BY <1>1, <1>2

\* f lists x and what the steps F make of it, one after the other.
Unrolls(f, S, x, F, n) ==
  f \in [0 .. n -> S] /\ f[0] = x /\ \A k \in 1 .. n : f[k] = F[<<k, f[k - 1]>>]

\* Steps can be taken as often as one likes.
LEMMA Recursion ==
  ASSUME NEW S, NEW x \in S, NEW F \in [Nat \X S -> S], NEW n \in Nat
  PROVE  \E f : Unrolls(f, S, x, F, n)
<1> DEFINE T == {m \in Nat : \E f : Unrolls(f, S, x, F, m)}
<1>1. 0 \in T
  <2>1. Unrolls([k \in 0 .. 0 |-> x], S, x, F, 0)
    BY DEF Unrolls
  <2> QED
    BY <2>1
<1>2. ASSUME NEW m \in Nat, m \in T PROVE m + 1 \in T
  <2>1. PICK f : Unrolls(f, S, x, F, m)
    BY <1>2
  <2> DEFINE g == [k \in 0 .. m + 1 |-> IF k = m + 1 THEN F[<<m + 1, f[m]>>] ELSE f[k]]
  <2>2. g \in [0 .. m + 1 -> S] /\ g[0] = x
    <3>1. f[m] \in S
      BY <2>1 DEF Unrolls
    <3> QED
      BY <2>1, <3>1 DEF Unrolls
  <2>3. ASSUME NEW k \in 1 .. m + 1 PROVE g[k] = F[<<k, g[k - 1]>>]
    <3>1. CASE k = m + 1
      <4>1. g[k] = F[<<m + 1, f[m]>>] /\ g[k - 1] = f[m]
        BY <3>1
      <4> QED
        BY <3>1, <4>1
    <3>2. CASE k \in 1 .. m
      <4>1. g[k] = f[k] /\ g[k - 1] = f[k - 1]
        BY <3>2
      <4> QED
        BY <2>1, <3>2, <4>1 DEF Unrolls
    <3> QED
      BY <3>1, <3>2
  <2>4. Unrolls(g, S, x, F, m + 1)
    BY <2>2, <2>3 DEF Unrolls
  <2>5. m + 1 \in Nat
    OBVIOUS
  <2> HIDE DEF g
  <2> QED
    BY <2>4, <2>5
<1> HIDE DEF T
<1>3. n \in T
  BY <1>1, <1>2, Induction
<1> QED
  BY <1>3 DEF T

\* What is in S, and stays in S whatever step is taken, is always in S.
LEMMA RecursionStays ==
  ASSUME NEW S, NEW x \in S, NEW F \in [Nat \X S -> S], NEW n \in Nat, NEW f,
         f[0] = x, \A k \in 1 .. n : f[k - 1] \in S => f[k] = F[<<k, f[k - 1]>>]
  PROVE  \A k \in 0 .. n : f[k] \in S
<1> DEFINE T == {k \in Nat : k <= n => f[k] \in S}
<1>1. 0 \in T
  OBVIOUS
<1>2. ASSUME NEW k \in Nat, k \in T PROVE k + 1 \in T
  <2> SUFFICES ASSUME k + 1 <= n PROVE f[k + 1] \in S
    OBVIOUS
  <2>1. f[k] \in S
    BY <1>2
  <2>2. f[k + 1] = F[<<k + 1, f[k]>>]
    BY <2>1
  <2> QED
    BY <2>1, <2>2
<1> HIDE DEF T
<1>3. \A k \in Nat : k \in T
  BY <1>1, <1>2, Induction
<1> QED
  BY <1>3 DEF T

-----------------------------------------------------------------------------
(* Where the frames of messages of the sizes W begin and end in a stream. *)

\* The frame of message k, a length of two bytes and a body, ends at off[k].
IsOffset(off, W) ==
  /\ W \in Seq(Nat)
  /\ off \in [0 .. Len(W) -> Nat]
  /\ off[0] = 0
  /\ \A k \in 1 .. Len(W) : off[k] = off[k - 1] + 2 + W[k]

Offset(W) == CHOOSE off : IsOffset(off, W)

LEMMA OffsetIs ==
  ASSUME NEW W \in Seq(Nat)
  PROVE  IsOffset(Offset(W), W)
<1> DEFINE F == [p \in Nat \X Nat |-> p[2] + 2 + (IF p[1] \in 1 .. Len(W) THEN W[p[1]] ELSE 0)]
<1>1. Len(W) \in Nat /\ \A k \in 1 .. Len(W) : W[k] \in Nat
  BY LenProperties, ElementOfSeq
<1>2. F \in [Nat \X Nat -> Nat]
  BY <1>1
<1>3. PICK off : Unrolls(off, Nat, 0, F, Len(W))
  <2> HIDE DEF F
  <2>1. 0 \in Nat
    OBVIOUS
  <2> QED
    BY <1>1, <1>2, <2>1, Recursion, Zenon
<1>4. off \in [0 .. Len(W) -> Nat] /\ off[0] = 0
  BY <1>3 DEF Unrolls
<1>5. ASSUME NEW k \in 1 .. Len(W) PROVE off[k] = off[k - 1] + 2 + W[k]
  <2>1. off[k] = F[<<k, off[k - 1]>>]
    <3> HIDE DEF F
    <3> QED
      BY <1>3 DEF Unrolls
  <2>2. k \in Nat /\ off[k - 1] \in Nat
    <3> HIDE DEF F
    <3>1. k \in Nat /\ k - 1 \in 0 .. Len(W)
      BY <1>1
    <3> QED
      BY <1>4, <3>1
  <2> QED
    BY <2>1, <2>2
<1>6. IsOffset(off, W)
  BY <1>4, <1>5 DEF IsOffset
<1> QED
  BY <1>6 DEF Offset

LEMMA OffsetGrows ==
  ASSUME NEW W, NEW off, IsOffset(off, W),
         NEW i \in 0 .. Len(W), NEW j \in i .. Len(W)
  PROVE  off[j] >= off[i] + 2 * (j - i)
<1> DEFINE T == {d \in Nat : i + d <= Len(W) => off[i + d] >= off[i] + 2 * d}
<1>1. Len(W) \in Nat /\ \A k \in 1 .. Len(W) : W[k] \in Nat
  BY LenProperties, ElementOfSeq DEF IsOffset
<1>2. 0 \in T
  <2>1. i + 0 = i /\ off[i] \in Nat
    BY <1>1 DEF IsOffset
  <2> QED
    BY <2>1
<1>3. ASSUME NEW d \in Nat, d \in T PROVE d + 1 \in T
  <2> SUFFICES ASSUME i + d + 1 <= Len(W) PROVE off[i + d + 1] >= off[i] + 2 * (d + 1)
    OBVIOUS
  <2>1. off[i + d] >= off[i] + 2 * d
    BY <1>1, <1>3
  <2>2. i + d + 1 \in 1 .. Len(W) /\ i + d \in 0 .. Len(W)
    BY <1>1
  <2>3. off[i + d + 1] = off[i + d] + 2 + W[i + d + 1]
    BY <2>2 DEF IsOffset
  <2>4. off[i + d] \in Nat /\ off[i] \in Nat /\ W[i + d + 1] \in Nat
    BY <1>1, <2>2 DEF IsOffset
  <2>5. \A x, y, w, e \in Nat : y >= x + 2 * e => y + 2 + w >= x + 2 * (e + 1)
    OBVIOUS
  <2> QED
    BY <2>1, <2>3, <2>4, <2>5
<1> HIDE DEF T
<1>4. \A d \in Nat : d \in T
  BY <1>2, <1>3, Induction
<1>5. j - i \in Nat /\ i + (j - i) = j /\ j <= Len(W)
  BY <1>1
<1> QED
  BY <1>4, <1>5 DEF T

LEMMA OffsetOrder ==
  ASSUME NEW W, NEW off, IsOffset(off, W),
         NEW i \in 0 .. Len(W), NEW j \in i .. Len(W)
  PROVE  off[i] \in Nat /\ off[j] \in Nat /\ off[j] >= off[i]
<1>1. Len(W) \in Nat
  BY LenProperties DEF IsOffset
<1>2. j \in 0 .. Len(W) /\ j - i \in Nat
  BY <1>1
<1>3. off[i] \in Nat /\ off[j] \in Nat
  BY <1>2 DEF IsOffset
<1>4. \A x, y, d \in Nat : y >= x + 2 * d => y >= x
  OBVIOUS
<1> QED
  BY <1>2, <1>3, <1>4, OffsetGrows

\* Sizes that are appended do not move what is before them.
LEMMA OffsetStays ==
  ASSUME NEW W, NEW n \in Nat, NEW off, IsOffset(off, W),
         NEW off2, IsOffset(off2, Append(W, n))
  PROVE  \A k \in 0 .. Len(W) : off2[k] = off[k]
<1> DEFINE T == {k \in Nat : k <= Len(W) => off2[k] = off[k]}
<1>1. /\ Len(W) \in Nat /\ Len(Append(W, n)) = Len(W) + 1
      /\ \A k \in 1 .. Len(W) : Append(W, n)[k] = W[k]
  BY LenProperties, AppendProperties DEF IsOffset
<1>2. 0 \in T
  BY DEF IsOffset
<1>3. ASSUME NEW k \in Nat, k \in T PROVE k + 1 \in T
  <2> SUFFICES ASSUME k + 1 <= Len(W) PROVE off2[k + 1] = off[k + 1]
    OBVIOUS
  <2>1. k + 1 \in 1 .. Len(W) /\ k + 1 \in 1 .. Len(Append(W, n))
    BY <1>1
  <2>2. off2[k + 1] = off2[k] + 2 + Append(W, n)[k + 1]
    BY <2>1 DEF IsOffset
  <2>3. off[k + 1] = off[k] + 2 + W[k + 1]
    BY <2>1 DEF IsOffset
  <2> QED
    BY <1>1, <1>3, <2>1, <2>2, <2>3
<1> HIDE DEF T
<1>4. \A k \in Nat : k \in T
  BY <1>2, <1>3, Induction
<1> QED
  BY <1>1, <1>4 DEF T

-----------------------------------------------------------------------------
(* The sender: what put_message and get_data make of bufOut_. *)

\* A bufOut_: whole messages, the first of which may be partly out.
Whole ==
  {m \in [size_ : 0 .. MaxMsgSize, offset_ : Nat, body : Seq(Byte)] :
     Len(m.body) = m.size_ /\ m.offset_ <= m.size_}

OutBuffer ==
  [queue_ : Seq(Whole), curTarget_ : {NULL}, written_ : Int, toSkip_ : Nat,
   tmpSize_ : {NoSize}]

\* How much of the frame of the first message is out.
Begun(q) == IF q = <<>> \/ q[1].offset_ = 0 THEN 0 ELSE 2 + q[1].offset_

\* The stream T has the length of the next message wherever a frame begins.
Headers(T, W, off) ==
  \A k \in 1 .. Len(W) :
    /\ off[k - 1] + 1 <= Len(T) => T[off[k - 1] + 1] = HeaderOf(W[k])[1]
    /\ off[k - 1] + 2 <= Len(T) => T[off[k - 1] + 2] = HeaderOf(W[k])[2]

\* Of the messages of sizes W, the queue q holds the last ones, and T is the
\* stream of the others and of what is out of the first one in q.
Framed(q, W, off, T) ==
  /\ q \in Seq(Whole) /\ T \in Seq(Byte)
  /\ Len(q) <= Len(W)
  /\ \A i \in 1 .. Len(q) : /\ q[i].size_ = W[Len(W) - Len(q) + i]
                            /\ i > 1 => q[i].offset_ = 0
  /\ Len(T) = off[Len(W) - Len(q)] + Begun(q)
  /\ Headers(T, W, off)

LEMMA HeaderOfBytes ==
  ASSUME NEW n \in 0 .. MaxMsgSize
  PROVE  HeaderOf(n) \in Seq(Byte) /\ Len(HeaderOf(n)) = 2
<1>1. n \in Nat /\ n < Radix * Radix
  BY BufferAssumption
<1>2. n \div Radix \in Nat /\ n % Radix \in 0 .. Radix - 1
  BY BufferAssumption
<1>3. n \div Radix < Radix
  BY <1>1, BufferAssumption
<1> QED
  BY <1>2, <1>3, BufferAssumption DEF HeaderOf, Byte

LEMMA DivisionIs == \A n \in Nat, r \in Nat \ {0} : (n \div r) * r + (n % r) = n
  OBVIOUS

LEMMA HeaderIsNat == \A n \in Nat : HeaderOf(n)[1] \in Nat
  BY BufferAssumption DEF HeaderOf

LEMMA SizeFromHeader ==
  ASSUME NEW n \in Nat
  PROVE  HeaderOf(n)[1] * Radix + HeaderOf(n)[2] = n
  BY DivisionIs, BufferAssumption DEF HeaderOf

\* What one turn of get_data does: of the message at the front, it writes the
\* length if it is at its beginning, and some bytes; if there is room for the
\* rest it takes the message off, else it writes something.
TurnWrites(q, q2, bytes) ==
  LET o == q[1].offset_
      size == q[1].size_
  IN  /\ q2 \in Seq(Whole) /\ bytes \in Seq(Byte)
      /\ \E n \in Nat :
        /\ Len(bytes) = n + (IF o = 0 THEN 2 ELSE 0)
        /\ o = 0 => bytes[1] = HeaderOf(size)[1] /\ bytes[2] = HeaderOf(size)[2]
        /\ \/ o + n = size /\ q2 = Tail(q)
           \/ /\ o + n < size /\ n > 0
              /\ Len(q2) = Len(q)
              /\ q2[1].size_ = size /\ q2[1].offset_ = o + n
              /\ \A i \in 2 .. Len(q) : q2[i] = q[i]

\* One way of joining three is the other.
Regroups(s, t, u) == (s \o t) \o u = s \o (t \o u)

LEMMA Reassociated ==
  ASSUME NEW s \in Seq(Byte), NEW t \in Seq(Byte), NEW u \in Seq(Byte)
  PROVE  Regroups(s, t, u)
  BY ConcatAssociative DEF Regroups

LEMMA CutInTwo ==
  ASSUME NEW s \in Seq(Byte), NEW n \in 0 .. Len(s)
  PROVE  /\ SubSeq(s, 1, n) \in Seq(Byte) /\ SubSeq(s, n + 1, Len(s)) \in Seq(Byte)
         /\ s = SubSeq(s, 1, n) \o SubSeq(s, n + 1, Len(s))
         /\ Len(SubSeq(s, 1, n)) = n /\ Len(SubSeq(s, n + 1, Len(s))) = Len(s) - n
<1>1. Len(s) \in Nat /\ \A i \in 1 .. Len(s) : s[i] \in Byte
  BY LenProperties, ElementOfSeq
<1>2. /\ n \in Nat /\ 1 \in 1 .. Len(s) + 1 /\ n \in 1 - 1 .. Len(s)
      /\ Len(s) \in n .. Len(s)
  BY <1>1
<1>3. SubSeq(s, 1, n) \in Seq(Byte) /\ Len(SubSeq(s, 1, n)) = n
  BY <1>1, SubSeqProperties
<1>4. SubSeq(s, n + 1, Len(s)) \in Seq(Byte) /\ Len(SubSeq(s, n + 1, Len(s))) = Len(s) - n
  BY <1>1, <1>2, SubSeqProperties
<1>5. SubSeq(s, 1, Len(s)) = s
  BY SubSeqFull
<1>6. SubSeq(s, 1, n) \o SubSeq(s, n + 1, Len(s)) = SubSeq(s, 1, Len(s))
  BY <1>1, <1>2, ConcatAdjacentSubSeq
<1> QED
  BY <1>3, <1>4, <1>5, <1>6

LEMMA ConcatIs ==
  ASSUME NEW s \in Seq(Byte), NEW t \in Seq(Byte)
  PROVE  /\ s \o t \in Seq(Byte) /\ Len(s \o t) = Len(s) + Len(t)
         /\ Len(s) \in Nat /\ Len(t) \in Nat
         /\ \A i \in 1 .. Len(s) : (s \o t)[i] = s[i]
         /\ \A i \in 1 .. Len(t) : (s \o t)[Len(s) + i] = t[i]
<1>1. Len(s) \in Nat /\ Len(t) \in Nat
  BY LenProperties
<1>2. /\ s \o t \in Seq(Byte) /\ Len(s \o t) = Len(s) + Len(t)
      /\ \A i \in 1 .. Len(s) + Len(t) :
           (s \o t)[i] = IF i <= Len(s) THEN s[i] ELSE t[i - Len(s)]
  BY ConcatProperties
<1>3. ASSUME NEW i \in 1 .. Len(t) PROVE (s \o t)[Len(s) + i] = t[i]
  <2>1. /\ Len(s) + i \in 1 .. Len(s) + Len(t) /\ ~(Len(s) + i <= Len(s))
        /\ (Len(s) + i) - Len(s) = i
    BY <1>1
  <2> QED
    BY <1>2, <2>1
<1>4. ASSUME NEW i \in 1 .. Len(s) PROVE (s \o t)[i] = s[i]
  <2>1. i \in 1 .. Len(s) + Len(t) /\ i <= Len(s)
    BY <1>1
  <2> QED
    BY <1>2, <2>1
<1> QED
  BY <1>1, <1>2, <1>3, <1>4

LEMMA GetDataTurnWrites ==
  ASSUME NEW b \in OutBuffer, b.queue_ # <<>>, NEW room \in Nat, room >= 3
  PROVE  LET t == GetDataTurn(b, room)
         IN  /\ t.buf \in OutBuffer /\ t.room \in Nat /\ t.bytes \in Seq(Byte)
             /\ Len(t.bytes) + t.room = room
             /\ TurnWrites(b.queue_, t.buf.queue_, t.bytes)
<1> DEFINE q       == b.queue_
           w       == Head(q)
           header  == HeaderIfFirst(w)
           space   == room - Len(header)
           towrite == AtMost(w.size_ - w.offset_, space)
           sent_   == [w EXCEPT !.offset_ = @ + towrite]
           t       == GetDataTurn(b, room)
           bytes   == header \o CopyOut(w, towrite)
           moved   == [b EXCEPT !.queue_[1] = sent_]
<1>1. q \in Seq(Whole) /\ w = q[1] /\ w \in Whole /\ Len(q) \in Nat /\ Len(q) >= 1
  BY EmptySeq, ElementOfSeq DEF OutBuffer
<1>2. /\ w.size_ \in 0 .. MaxMsgSize /\ w.offset_ \in Nat /\ w.body \in Seq(Byte)
      /\ Len(w.body) = w.size_ /\ w.offset_ <= w.size_
  BY <1>1 DEF Whole
<1>3. /\ header \in Seq(Byte)
      /\ Len(header) = IF w.offset_ = 0 THEN 2 ELSE 0
      /\ w.offset_ = 0 => header[1] = HeaderOf(w.size_)[1] /\ header[2] = HeaderOf(w.size_)[2]
  <2> HIDE DEF w
  <2> QED
    BY <1>2, HeaderOfBytes, EmptySeq DEF HeaderIfFirst
<1>4. t = [buf   |-> IF sent_.offset_ = sent_.size_ THEN PopFront(b) ELSE moved,
           room  |-> space - towrite,
           bytes |-> bytes]
  BY DEF GetDataTurn
<1> HIDE DEF t, header
<1>5. space \in Nat /\ space >= 1 /\ space + Len(header) = room
  BY <1>3
<1> HIDE DEF space
<1>6. /\ towrite \in Nat /\ space - towrite \in Nat /\ w.offset_ + towrite <= w.size_
      /\ w.offset_ + towrite # w.size_ => towrite > 0
  <2> HIDE DEF w
  <2> QED
    BY <1>2, <1>5, BufferAssumption DEF AtMost
<1> HIDE DEF towrite
<1>7. CopyOut(w, towrite) \in Seq(Byte) /\ Len(CopyOut(w, towrite)) = towrite
  <2> HIDE DEF w
  <2>1. \A i \in 1 .. towrite : i \in 1 .. Len(w.body)
    BY <1>2, <1>6, BufferAssumption
  <2>2. \A i \in 1 .. towrite : w.body[i] \in Byte
    BY <1>2, <2>1, ElementOfSeq
  <2> QED
    BY <2>2, <1>6, SubSeqProperties DEF CopyOut
<1>8. /\ bytes \in Seq(Byte) /\ Len(bytes) = Len(header) + towrite
      /\ \A i \in 1 .. Len(header) : bytes[i] = header[i]
  <2> HIDE DEF w, q
  <2>1. header \in Seq(Byte) /\ CopyOut(w, towrite) \in Seq(Byte)
    BY <1>3, <1>7
  <2>2. Len(CopyOut(w, towrite)) = towrite
    BY <1>7
  <2> DEFINE copied == CopyOut(w, towrite)
  <2> HIDE DEF copied
  <2>3. copied \in Seq(Byte) /\ Len(copied) = towrite /\ bytes = header \o copied
    BY <2>1, <2>2 DEF copied
  <2> HIDE DEF bytes
  <2>4. /\ header \o copied \in Seq(Byte) /\ Len(header \o copied) = Len(header) + Len(copied)
        /\ \A i \in 1 .. Len(header) : (header \o copied)[i] = header[i]
    BY <2>1, <2>3, ConcatIs, Zenon
  <2> QED
    BY <2>3, <2>4
<1>9. /\ sent_ \in Whole /\ sent_.size_ = w.size_
      /\ sent_.offset_ = w.offset_ + towrite
  <2>1. w.offset_ + towrite \in Nat /\ w.offset_ + towrite <= w.size_
    BY <1>2, <1>6, BufferAssumption
  <2> HIDE DEF towrite
  <2>2. \A m \in Whole, n \in Nat :
          n <= m.size_ => LET f == [m EXCEPT !.offset_ = n]
                          IN  f \in Whole /\ f.size_ = m.size_ /\ f.offset_ = n
    BY DEF Whole
  <2>3. sent_ = [w EXCEPT !.offset_ = w.offset_ + towrite]
    BY <1>1 DEF Whole
  <2> HIDE DEF w, sent_
  <2> QED
    BY <1>1, <2>1, <2>2, <2>3
<1> HIDE DEF sent_, bytes
<1>10. PopFront(b) \in OutBuffer /\ PopFront(b).queue_ = Tail(q)
  <2>1. Tail(q) \in Seq(Whole)
    BY <1>1, HeadTailProperties, EmptySeq
  <2>2. b.written_ - w.size_ \in Int
    <3>1. b.written_ \in Int /\ w.size_ \in Int
      BY <1>2, BufferAssumption DEF OutBuffer
    <3> QED
      BY <3>1
  <2> QED
    BY <2>1, <2>2 DEF PopFront, OutBuffer
<1>11. moved \in OutBuffer /\ moved.queue_ = [q EXCEPT ![1] = sent_]
  <2>1. [q EXCEPT ![1] = sent_] \in Seq(Whole)
    BY <1>1, <1>9, ExceptSeq
  <2>2. moved = [b EXCEPT !.queue_ = [q EXCEPT ![1] = sent_]]
    BY DEF OutBuffer
  <2> HIDE DEF moved
  <2> QED
    BY <2>1, <2>2 DEF OutBuffer
<1> HIDE DEF moved
<1>12. t.room \in Nat /\ t.bytes = bytes /\ Len(bytes) + t.room = room
  <2> HIDE DEF w, q
  <2>1. t.room = space - towrite /\ t.bytes = bytes
    BY <1>4
  <2> QED
    BY <1>3, <1>5, <1>6, <1>8, <2>1
<1>13. t.buf \in OutBuffer
  BY <1>4, <1>10, <1>11
<1>14. TurnWrites(q, t.buf.queue_, bytes)
  <2>1. Len(bytes) = towrite + (IF w.offset_ = 0 THEN 2 ELSE 0)
    BY <1>3, <1>6, <1>8
  <2>2. w.offset_ = 0 => bytes[1] = HeaderOf(w.size_)[1] /\ bytes[2] = HeaderOf(w.size_)[2]
    BY <1>3, <1>8
  <2>5. t.buf.queue_ \in Seq(Whole) /\ bytes \in Seq(Byte)
    BY <1>8, <1>13 DEF OutBuffer
  <2>3. CASE w.offset_ + towrite = w.size_
    <3>1. t.buf.queue_ = Tail(q)
      <4> HIDE DEF w, q
      <4> QED
        BY <1>4, <1>9, <1>10, <2>3
    <3> HIDE DEF q, w
    <3> QED
      BY <1>1, <1>6, <2>1, <2>2, <2>3, <2>5, <3>1 DEF TurnWrites
  <2>4. CASE w.offset_ + towrite # w.size_
    <3>1. t.buf.queue_ = [q EXCEPT ![1] = sent_]
      <4> HIDE DEF w, q
      <4> QED
        BY <1>4, <1>9, <1>11, <2>4
    <3> HIDE DEF q, w
    <3>2. /\ w.offset_ + towrite < w.size_ /\ towrite > 0
      BY <1>2, <1>6, <2>4, BufferAssumption
    <3>3. /\ Len(t.buf.queue_) = Len(q) /\ t.buf.queue_[1] = sent_
          /\ \A i \in 2 .. Len(q) : t.buf.queue_[i] = q[i]
      BY <1>1, <1>9, <3>1, ExceptSeq
    <3> QED
      BY <1>1, <1>6, <1>9, <2>1, <2>2, <2>5, <3>2, <3>3 DEF TurnWrites
  <2> QED
    BY <2>3, <2>4
<1> HIDE DEF bytes, q
<1> QED
  BY <1>8, <1>12, <1>13, <1>14 DEF t, q

\* T2 is T, t bytes long, and then the b bytes after it.
Joined(T, bytes, T2, t, b) ==
  /\ Len(T) = t /\ Len(bytes) = b /\ Len(T2) = t + b
  /\ \A i \in 1 .. t : T2[i] = T[i]
  /\ \A i \in 1 .. b : T2[t + i] = bytes[i]

\* After t bytes, the b next ones are of the frame of message p + 1.
OfNextFrame(W, off, p, bytes, t, b) ==
  /\ \/ /\ t = off[p] /\ b >= 2
        /\ bytes[1] = HeaderOf(W[p + 1])[1] /\ bytes[2] = HeaderOf(W[p + 1])[2]
     \/ t >= off[p] + 2
  /\ t + b <= off[p + 1]

\* Bytes are added to the frame of the next message, and not beyond it.
LEMMA HeadersMore ==
  ASSUME NEW W, NEW off, IsOffset(off, W),
         NEW p \in Nat, p + 1 <= Len(W),
         NEW T, NEW bytes, NEW T2, Headers(T, W, off),
         NEW t \in Nat, NEW b \in Nat, Joined(T, bytes, T2, t, b),
         OfNextFrame(W, off, p, bytes, t, b)
  PROVE  Headers(T2, W, off)
<1> USE DEF Joined, OfNextFrame
<1>2. Len(W) \in Nat /\ \A k \in 1 .. Len(W) : W[k] \in Nat
  BY LenProperties, ElementOfSeq DEF IsOffset
<1> SUFFICES ASSUME NEW k \in 1 .. Len(W)
             PROVE  /\ off[k - 1] + 1 <= t + b => T2[off[k - 1] + 1] = HeaderOf(W[k])[1]
                    /\ off[k - 1] + 2 <= t + b => T2[off[k - 1] + 2] = HeaderOf(W[k])[2]
  BY DEF Headers
<1>3. /\ off[k - 1] + 1 <= t => T[off[k - 1] + 1] = HeaderOf(W[k])[1]
      /\ off[k - 1] + 2 <= t => T[off[k - 1] + 2] = HeaderOf(W[k])[2]
  BY DEF Headers
<1>4. off[k - 1] \in Nat /\ off[k] \in Nat /\ off[k] = off[k - 1] + 2 + W[k]
      /\ off[p] \in Nat /\ off[p + 1] \in Nat
  <2>1. k \in 0 .. Len(W) /\ k - 1 \in 0 .. Len(W) /\ p \in 0 .. Len(W) /\ p + 1 \in 0 .. Len(W)
    BY <1>2
  <2> QED
    BY <2>1 DEF IsOffset
<1>5. ASSUME off[k - 1] + 2 <= t
      PROVE  T2[off[k - 1] + 1] = HeaderOf(W[k])[1] /\ T2[off[k - 1] + 2] = HeaderOf(W[k])[2]
  <2>1. \A x \in Nat : x + 2 <= t => x + 1 \in 1 .. t /\ x + 2 \in 1 .. t /\ x + 1 <= t
    OBVIOUS
  <2>2. T2[off[k - 1] + 1] = T[off[k - 1] + 1] /\ T2[off[k - 1] + 2] = T[off[k - 1] + 2]
    BY <1>4, <1>5, <2>1
  <2> QED
    BY <1>3, <1>4, <1>5, <2>1, <2>2
<1>6. CASE k <= p
  <2>1. k \in 0 .. Len(W) /\ p \in k .. Len(W)
    BY <1>2, <1>6
  <2>2. off[p] >= off[k]
    BY <2>1, OffsetOrder
  <2>3. \A x, w, y \in Nat : y >= x + 2 + w /\ (t = y \/ t >= y + 2) => x + 2 <= t
    OBVIOUS
  <2>4. W[k] \in Nat /\ off[p] >= off[k - 1] + 2 + W[k] /\ (t = off[p] \/ t >= off[p] + 2)
    BY <1>2, <1>4, <2>2
  <2>5. off[k - 1] + 2 <= t
    BY <1>4, <2>3, <2>4
  <2> QED
    BY <1>5, <2>5
<1>7. CASE k = p + 1 /\ t >= off[p] + 2
  <2>1. k - 1 = p
    BY <1>7
  <2> QED
    BY <1>4, <1>5, <1>7, <2>1
<1>8. CASE k = p + 1 /\ ~(t >= off[p] + 2)
  <2>1. k - 1 = p /\ t = off[k - 1]
    BY <1>8
  <2>2. 1 \in 1 .. b /\ 2 \in 1 .. b
    BY <1>8
  <2>3. T2[t + 1] = bytes[1] /\ T2[t + 2] = bytes[2]
    BY <2>2
  <2> QED
    BY <1>8, <2>1, <2>3
<1>9. CASE k > p + 1
  <2>1. p + 1 \in 0 .. Len(W) /\ k - 1 \in p + 1 .. Len(W)
    BY <1>2, <1>9
  <2>2. off[k - 1] >= off[p + 1]
    BY <2>1, OffsetOrder
  <2>3. \A x, y \in Nat : t + b <= y /\ x >= y => ~(x + 1 <= t + b) /\ ~(x + 2 <= t + b)
    OBVIOUS
  <2>4. ~(off[k - 1] + 1 <= t + b) /\ ~(off[k - 1] + 2 <= t + b)
    BY <1>4, <2>2, <2>3
  <2> QED
    BY <2>4
<1> QED
  BY <1>2, <1>6, <1>7, <1>8, <1>9

\* What is taken from the queue is what is added to the stream.
LEMMA TurnFrames ==
  ASSUME NEW W, NEW off, IsOffset(off, W), NEW q, NEW T,
         Framed(q, W, off, T), q # <<>>, NEW q2, NEW bytes, TurnWrites(q, q2, bytes)
  PROVE  Framed(q2, W, off, T \o bytes)
<1> DEFINE p    == Len(W) - Len(q)
           size == q[1].size_
           o    == q[1].offset_
           T2   == T \o bytes
<1>0. q \in Seq(Whole) /\ q[1] \in Whole
  BY EmptySeq, ElementOfSeq DEF Framed
<1>1. /\ Len(q) \in Nat /\ Len(q) >= 1 /\ Len(q) <= Len(W) /\ Len(W) \in Nat
      /\ size \in Nat /\ o \in Nat /\ o <= size
  <2>1. q \in Seq(Whole) /\ Len(q) <= Len(W) /\ W \in Seq(Nat)
    BY DEF Framed, IsOffset
  <2>2. Len(q) \in Nat /\ Len(q) >= 1 /\ Len(W) \in Nat
    BY <2>1, EmptySeq, LenProperties
  <2> QED
    BY <1>0, <2>1, <2>2, BufferAssumption DEF Whole
<1>2. /\ p \in Nat /\ p + 1 \in 1 .. Len(W) /\ Len(W) - Len(q) = p
      /\ off[p] \in Nat /\ off[p + 1] \in Nat
      /\ off[p + 1] = off[p] + 2 + size /\ size = W[p + 1]
  <2>1. p \in 0 .. Len(W) /\ p + 1 \in 1 .. Len(W)
    BY <1>1
  <2>2. off[p] \in Nat /\ off[p + 1] \in Nat /\ off[p + 1] = off[p] + 2 + W[p + 1]
    <3>1. p + 1 \in 0 .. Len(W) /\ (p + 1) - 1 = p
      BY <1>1
    <3> HIDE DEF p
    <3> QED
      BY <2>1, <3>1 DEF IsOffset
  <2>3. size = W[p + 1]
    BY <1>1 DEF Framed
  <2> QED
    BY <1>1, <2>1, <2>2, <2>3
<1>3. Len(T) = off[p] + (IF o = 0 THEN 0 ELSE 2 + o)
  <2>1. q # <<>> /\ Len(T) = off[p] + Begun(q)
    BY DEF Framed
  <2> HIDE DEF p
  <2> QED
    BY <2>1 DEF Begun
<1> HIDE DEF p
<1>4. PICK n \in Nat :
        /\ Len(bytes) = n + (IF o = 0 THEN 2 ELSE 0)
        /\ o = 0 => bytes[1] = HeaderOf(size)[1] /\ bytes[2] = HeaderOf(size)[2]
        /\ \/ o + n = size /\ q2 = Tail(q)
           \/ /\ o + n < size /\ n > 0
              /\ Len(q2) = Len(q)
              /\ q2[1].size_ = size /\ q2[1].offset_ = o + n
              /\ \A i \in 2 .. Len(q) : q2[i] = q[i]
  BY DEF TurnWrites
<1> HIDE DEF size, o
<1>41. Len(bytes) = n + (IF o = 0 THEN 2 ELSE 0)
  BY <1>4
<1>42. size \in Nat /\ o \in Nat /\ n \in Nat
  BY <1>1
<1>43. off[p] \in Nat /\ off[p + 1] = off[p] + 2 + size
  BY <1>2
<1>5. o + n <= size
  BY <1>42, <1>4
<1>6. /\ T2 \in Seq(Byte) /\ Len(T2) = Len(T) + Len(bytes)
      /\ \A i \in 1 .. Len(T) : T2[i] = T[i]
      /\ \A i \in 1 .. Len(bytes) : T2[Len(T) + i] = bytes[i]
      /\ Len(T) \in Nat /\ Len(bytes) \in Nat
  <2>1. T \in Seq(Byte) /\ bytes \in Seq(Byte)
    BY DEF Framed, TurnWrites
  <2> QED
    BY <2>1, ConcatIs
<1> HIDE DEF T2
<1>61. Len(T2) = Len(T) + Len(bytes)
  BY <1>6
<1>7. Len(T2) = off[p] + 2 + o + n
  BY <1>3, <1>41, <1>42, <1>43, <1>61
<1>8. Headers(T2, W, off)
  <2>1. p \in Nat /\ p + 1 <= Len(W)
    BY <1>1, <1>2
  <2>2. \/ /\ Len(T) = off[p] /\ Len(bytes) >= 2
           /\ bytes[1] = HeaderOf(W[p + 1])[1] /\ bytes[2] = HeaderOf(W[p + 1])[2]
        \/ Len(T) >= off[p] + 2
    <3>1. CASE o = 0
      BY <1>2, <1>3, <1>4, <3>1
    <3>2. CASE o # 0
      <4>1. \A x, y \in Nat : x + (2 + y) >= x + 2
        OBVIOUS
      <4> QED
        BY <1>1, <1>2, <1>3, <3>2, <4>1
    <3> QED
      BY <3>1, <3>2
  <2>3. Len(T) + Len(bytes) <= off[p + 1]
    BY <1>42, <1>43, <1>5, <1>61, <1>7
  <2>4. Headers(T, W, off)
    BY DEF Framed
  <2> DEFINE t == Len(T)
             b == Len(bytes)
  <2>5. t \in Nat /\ b \in Nat /\ Joined(T, bytes, T2, t, b)
    BY <1>6 DEF Joined
  <2>6. OfNextFrame(W, off, p, bytes, t, b)
    BY <2>2, <2>3 DEF OfNextFrame
  <2> HIDE DEF t, b
  <2> QED
    BY <2>1, <2>4, <2>5, <2>6, HeadersMore
<1>9. CASE o + n = size /\ q2 = Tail(q)
  <2>1. /\ Len(q2) = Len(q) - 1
        /\ \A i \in 1 .. Len(q2) : q2[i] = q[i + 1]
    BY <1>0, <1>1, <1>9, HeadTailProperties
  <2>2. Len(W) - Len(q2) = p + 1 /\ Len(q2) <= Len(W) /\ Len(q2) \in Nat
    <3> DEFINE l == Len(W)
               b == Len(q)
               c == Len(q2)
    <3>1. l \in Nat /\ b \in Nat /\ p \in Nat
      BY <1>1, <1>2
    <3>2. c = b - 1 /\ l - b = p /\ b >= 1
      BY <1>1, <1>2, <2>1
    <3> HIDE DEF l, b, c
    <3>3. l - c = p + 1 /\ c <= l /\ c \in Nat
      BY ONLY <3>1, <3>2
    <3> QED
      BY ONLY <3>3 DEF l, c
  <2>3. \A i \in 1 .. Len(q2) : q2[i].size_ = W[p + 1 + i] /\ q2[i].offset_ = 0
    <3> SUFFICES ASSUME NEW i \in 1 .. Len(q2)
                 PROVE  q2[i].size_ = W[p + 1 + i] /\ q2[i].offset_ = 0
      OBVIOUS
    <3>1. i + 1 \in 1 .. Len(q) /\ i + 1 > 1 /\ p + 1 + i = p + (i + 1)
      BY <1>1, <1>2, <2>1, <2>2
    <3>2. q[i + 1].size_ = W[p + (i + 1)] /\ q[i + 1].offset_ = 0
      BY <1>2, <3>1 DEF Framed
    <3> QED
      BY <2>1, <3>1, <3>2
  <2>4. Begun(q2) = 0
    <3>1. q2 # <<>> => 1 \in 1 .. Len(q2)
      BY EmptySeq
    <3> QED
      BY <2>3, <3>1 DEF Begun
  <2>5. o + n = size
    BY <1>9
  <2>6. Len(T2) = off[p + 1] /\ off[p + 1] + 0 = off[p + 1]
    BY <1>42, <1>43, <1>7, <2>5
  <2>7. Len(T2) = off[Len(W) - Len(q2)] + Begun(q2)
    BY <2>2, <2>4, <2>6
  <2>8. \A i \in 1 .. Len(q2) : /\ q2[i].size_ = W[Len(W) - Len(q2) + i]
                                /\ i > 1 => q2[i].offset_ = 0
    BY <2>2, <2>3
  <2>9. q2 \in Seq(Whole) /\ T2 \in Seq(Byte) /\ Len(q2) <= Len(W)
    BY <1>6, <2>2 DEF TurnWrites
  <2> QED
    BY <1>8, <2>7, <2>8, <2>9 DEF Framed, T2
<1>10. CASE /\ o + n < size /\ n > 0
            /\ Len(q2) = Len(q)
            /\ q2[1].size_ = size /\ q2[1].offset_ = o + n
            /\ \A i \in 2 .. Len(q) : q2[i] = q[i]
  <2>1. \A i \in 1 .. Len(q2) : /\ q2[i].size_ = W[Len(W) - Len(q2) + i]
                                /\ i > 1 => q2[i].offset_ = 0
    <3> SUFFICES ASSUME NEW i \in 1 .. Len(q2)
                 PROVE  /\ q2[i].size_ = W[p + i]
                        /\ i > 1 => q2[i].offset_ = 0
      BY <1>2, <1>10
    <3>1. q[i].size_ = W[p + i] /\ (i > 1 => q[i].offset_ = 0)
      BY <1>2, <1>10 DEF Framed
    <3>2. CASE i = 1
      BY <1>2, <1>10, <3>2
    <3>3. CASE i \in 2 .. Len(q)
      BY <1>10, <3>1, <3>3
    <3> QED
      BY <1>1, <1>10, <3>2, <3>3
  <2>2. Begun(q2) = 2 + o + n
    <3>1. q2 # <<>> /\ q2[1].offset_ = o + n /\ o + n # 0
      BY <1>1, <1>10, EmptySeq
    <3> QED
      BY <1>1, <3>1 DEF Begun
  <2>3. Len(q2) <= Len(W) /\ Len(T2) = off[Len(W) - Len(q2)] + Begun(q2)
    <3>1. Len(q2) <= Len(W) /\ Len(W) - Len(q2) = p
      BY <1>1, <1>2, <1>10
    <3>2. Len(T2) = off[p] + (2 + o + n)
      BY ONLY <1>42, <1>43, <1>7
    <3> QED
      BY <2>2, <3>1, <3>2
  <2>4. q2 \in Seq(Whole) /\ T2 \in Seq(Byte)
    BY <1>6 DEF TurnWrites
  <2> QED
    BY <1>8, <2>1, <2>3, <2>4 DEF Framed, T2
<1> QED
  BY <1>4, <1>9, <1>10

\* One step of the recursion in GetData, and the recursion itself.
GetDataStep(before) ==
  IF before.room < 3 \/ before.buf.queue_ = <<>> THEN before
  ELSE LET t == GetDataTurn(before.buf, before.room)
       IN  [t EXCEPT !.bytes = before.bytes \o @]

Turns(b, mSize) ==
  CHOOSE turn : turn =
    [k \in 0 .. Len(b.queue_) |->
       IF k = 0 THEN [buf |-> b, room |-> mSize, bytes |-> <<>>]
       ELSE LET before == turn[k-1]
            IN  IF before.room < 3 \/ before.buf.queue_ = <<>> THEN before
                ELSE LET t == GetDataTurn(before.buf, before.room)
                     IN  [t EXCEPT !.bytes = before.bytes \o @]]

\* What is true between two turns of get_data, called for mSize bytes when T
\* had been taken from a bufOut_ to which messages of the sizes W were put.
Between(W, off, T, mSize) ==
  {s \in [buf : OutBuffer, room : Nat, bytes : Seq(Byte)] :
     Framed(s.buf.queue_, W, off, T \o s.bytes) /\ Len(s.bytes) + s.room = mSize}

LEMMA GetDataStepStays ==
  ASSUME NEW W, NEW off, IsOffset(off, W), NEW T \in Seq(Byte), NEW mSize \in Nat,
         NEW s \in Between(W, off, T, mSize)
  PROVE  GetDataStep(s) \in Between(W, off, T, mSize)
<1>1. CASE s.room < 3 \/ s.buf.queue_ = <<>>
  BY <1>1 DEF GetDataStep
<1>2. CASE ~(s.room < 3 \/ s.buf.queue_ = <<>>)
  <2> DEFINE t == GetDataTurn(s.buf, s.room)
             u == [t EXCEPT !.bytes = s.bytes \o @]
  <2>1. /\ s.buf \in OutBuffer /\ s.room \in Nat /\ s.bytes \in Seq(Byte)
        /\ Framed(s.buf.queue_, W, off, T \o s.bytes)
        /\ Len(s.bytes) + s.room = mSize
    BY DEF Between
  <2>2. /\ t.buf \in OutBuffer /\ t.room \in Nat /\ t.bytes \in Seq(Byte)
        /\ Len(t.bytes) + t.room = s.room
        /\ TurnWrites(s.buf.queue_, t.buf.queue_, t.bytes)
    <3>1. s.room >= 3 /\ s.buf.queue_ # <<>>
      BY <1>2, <2>1
    <3> HIDE DEF t
    <3> QED
      BY <2>1, <3>1, GetDataTurnWrites DEF t
  <2>3. u = [buf |-> t.buf, room |-> t.room, bytes |-> s.bytes \o t.bytes]
    <3>1. \E x, y, z : t = [buf |-> x, room |-> y, bytes |-> z]
      BY DEF GetDataTurn
    <3> HIDE DEF t
    <3>2. t \in [buf : OutBuffer, room : Nat, bytes : Seq(Byte)]
      BY <2>2, <3>1
    <3>3. \A r \in [buf : OutBuffer, room : Nat, bytes : Seq(Byte)] : \A z :
            [r EXCEPT !.bytes = z] = [buf |-> r.buf, room |-> r.room, bytes |-> z]
      OBVIOUS
    <3> QED
      BY <3>2, <3>3
  <2>4. GetDataStep(s) = u
    BY <1>2 DEF GetDataStep
  <2> HIDE DEF t, u
  <2>5. Framed(t.buf.queue_, W, off, (T \o s.bytes) \o t.bytes)
    <3>1. s.buf.queue_ # <<>>
      BY <1>2
    <3>2. Framed(s.buf.queue_, W, off, T \o s.bytes) /\ TurnWrites(s.buf.queue_, t.buf.queue_, t.bytes)
      BY <2>1, <2>2
    <3> QED
      BY <3>1, <3>2, TurnFrames
  <2>6. (T \o s.bytes) \o t.bytes = T \o (s.bytes \o t.bytes)
    <3>1. T \in Seq(Byte) /\ s.bytes \in Seq(Byte) /\ t.bytes \in Seq(Byte)
      BY <2>1, <2>2
    <3>2. Regroups(T, s.bytes, t.bytes)
      BY <3>1, Reassociated
    <3> QED
      BY <3>2 DEF Regroups
  <2>7. s.bytes \o t.bytes \in Seq(Byte) /\ Len(s.bytes \o t.bytes) = Len(s.bytes) + Len(t.bytes)
        /\ Len(s.bytes) \in Nat /\ Len(t.bytes) \in Nat
    BY <2>1, <2>2, ConcatIs
  <2>8. Len(s.bytes \o t.bytes) + t.room = mSize
    <3> DEFINE x == Len(s.bytes)
               y == Len(t.bytes)
               z == Len(s.bytes \o t.bytes)
    <3>1. x \in Nat /\ y \in Nat /\ z = x + y
      BY <2>7
    <3>2. t.room \in Nat /\ s.room \in Nat /\ y + t.room = s.room /\ x + s.room = mSize
      BY <2>1, <2>2
    <3> HIDE DEF x, y, z
    <3>3. z + t.room = mSize
      BY <3>1, <3>2
    <3> QED
      BY <3>3 DEF z
  <2>9. Framed(t.buf.queue_, W, off, T \o (s.bytes \o t.bytes))
    BY <2>5, <2>6
  <2>10. u \in Between(W, off, T, mSize)
    BY <2>2, <2>3, <2>7, <2>8, <2>9 DEF Between
  <2> QED
    BY <2>4, <2>10
<1> QED
  BY <1>1, <1>2

\* A call of get_data keeps the frames in order.
THEOREM GetDataFrames ==
  ASSUME NEW W, NEW off, IsOffset(off, W), NEW T, NEW b \in OutBuffer,
         Framed(b.queue_, W, off, T), NEW mSize \in Nat
  PROVE  LET g == GetData(b, mSize)
         IN  /\ g.buf \in OutBuffer /\ g.bytes \in Seq(Byte)
             /\ Len(g.bytes) <= mSize
             /\ Framed(g.buf.queue_, W, off, T \o g.bytes)
<1> DEFINE S == Between(W, off, T, mSize)
           n == Len(b.queue_)
           x == [buf |-> b, room |-> mSize, bytes |-> <<>>]
           F == [y \in Nat \X S |-> GetDataStep(y[2])]
           turn == Turns(b, mSize)
<1>1. T \in Seq(Byte) /\ n \in Nat
  BY LenProperties DEF Framed
<1>2. GetData(b, mSize) = turn[n]
  BY DEF GetData, Turns
<1>3. x \in S
  <2>1. <<>> \in Seq(Byte) /\ Len(<<>>) = 0
    BY EmptySeq
  <2>2. T \o <<>> = T
    BY <1>1, ConcatEmptySeq
  <2>3. Len(<<>>) + mSize = mSize
    BY <2>1
  <2> QED
    BY <2>1, <2>2, <2>3 DEF Between
<1>4. F \in [Nat \X S -> S]
  <2>1. \A y \in Nat \X S : GetDataStep(y[2]) \in S
    BY <1>1, GetDataStepStays
  <2> HIDE DEF S
  <2> QED
    BY <2>1
<1> DEFINE IsTurn(f) == f = [k \in 0 .. n |-> IF k = 0 THEN x ELSE GetDataStep(f[k - 1])]
<1>5. IsTurn(turn)
  <2>1. \E f : IsTurn(f)
    <3>1. PICK f : Unrolls(f, S, x, F, n)
      <4> HIDE DEF F, S, x, n
      <4> QED
        BY <1>1, <1>3, <1>4, Recursion, Zenon
    <3>2. f = [k \in 0 .. n |-> IF k = 0 THEN x ELSE GetDataStep(f[k - 1])]
      <4> HIDE DEF S, x, n
      <4>1. ASSUME NEW k \in 1 .. n PROVE f[k] = GetDataStep(f[k - 1])
        <5>1. f[k] = F[<<k, f[k - 1]>>] /\ f[k - 1] \in S
          <6> HIDE DEF F
          <6>1. k - 1 \in 0 .. n
            BY <1>1
          <6> QED
            BY <3>1, <6>1 DEF Unrolls
        <5>2. <<k, f[k - 1]>> \in Nat \X S
          BY <1>1, <5>1
        <5> QED
          BY <5>1, <5>2
      <4>2. f \in [0 .. n -> S] /\ f[0] = x
        BY <3>1 DEF Unrolls
      <4>3. \A k \in 0 .. n : k # 0 => k \in 1 .. n
        BY <1>1
      <4> QED
        BY <4>1, <4>2, <4>3
    <3> QED
      BY <3>2
  <2>2. turn = CHOOSE f : IsTurn(f)
    BY DEF Turns, GetDataStep
  <2> HIDE DEF IsTurn, turn
  <2> QED
    BY <2>1, <2>2
<1>6. turn[0] = x /\ \A k \in 1 .. n : turn[k] = GetDataStep(turn[k - 1])
  <2> HIDE DEF x, n, turn
  <2>1. 0 \in 0 .. n /\ \A k \in 1 .. n : k \in 0 .. n /\ k # 0
    BY <1>1
  <2> QED
    BY <1>5, <2>1
<1>7. turn[n] \in S
  <2> HIDE DEF x, n, turn, S
  <2>1. \A k \in 1 .. n : turn[k - 1] \in S => turn[k] = F[<<k, turn[k - 1]>>]
    BY <1>1, <1>6
  <2> HIDE DEF F
  <2>2. \A k \in 0 .. n : turn[k] \in S
    BY <1>1, <1>3, <1>4, <1>6, <2>1, RecursionStays
  <2> QED
    BY <1>1, <2>2
<1>8. /\ turn[n].buf \in OutBuffer /\ turn[n].bytes \in Seq(Byte) /\ turn[n].room \in Nat
      /\ Framed(turn[n].buf.queue_, W, off, T \o turn[n].bytes)
      /\ Len(turn[n].bytes) + turn[n].room = mSize
  <2> HIDE DEF turn, n
  <2> QED
    BY <1>7 DEF Between
<1> HIDE DEF turn, n
<1>9. Len(turn[n].bytes) \in Nat
  BY <1>8, LenProperties
<1>10. Len(turn[n].bytes) <= mSize
  BY <1>8, <1>9
<1> QED
  BY <1>2, <1>8, <1>10

\* A stream goes no further than the frames of what was written.
LEMMA FramedWithin ==
  ASSUME NEW W, NEW off, IsOffset(off, W), NEW T, NEW q, Framed(q, W, off, T)
  PROVE  Len(T) <= off[Len(W)] /\ off[Len(W)] \in Nat
<1> DEFINE p == Len(W) - Len(q)
<1>1. /\ q \in Seq(Whole) /\ T \in Seq(Byte) /\ W \in Seq(Nat) /\ Len(q) <= Len(W)
      /\ Len(q) \in Nat /\ Len(W) \in Nat /\ p \in Nat /\ Len(T) \in Nat
  <2>1. q \in Seq(Whole) /\ T \in Seq(Byte) /\ W \in Seq(Nat) /\ Len(q) <= Len(W)
    BY DEF Framed, IsOffset
  <2>2. Len(q) \in Nat /\ Len(W) \in Nat /\ Len(T) \in Nat
    BY <2>1, LenProperties
  <2> QED
    BY <2>1, <2>2
<1>8. Len(T) = off[p] + Begun(q)
  BY DEF Framed
<1>9. Len(T) <= off[Len(W)]
  <2>1. CASE q = <<>>
    <3>1. p = Len(W) /\ Begun(q) = 0 /\ off[Len(W)] \in Nat
      <4>1. Len(q) = 0 /\ Len(W) \in 0 .. Len(W)
        BY <1>1, <2>1, EmptySeq
      <4>2. off[Len(W)] \in Nat
        BY <4>1 DEF IsOffset
      <4> QED
        BY <1>1, <2>1, <4>1, <4>2 DEF Begun
    <3> QED
      BY <1>8, <3>1
  <2>2. CASE q # <<>>
    <3>1. 1 \in 1 .. Len(q) /\ q[1] \in Whole
      BY <1>1, <2>2, EmptySeq, ElementOfSeq
    <3>2. q[1].size_ = W[p + 1] /\ q[1].offset_ \in Nat /\ q[1].size_ \in Nat
          /\ q[1].offset_ <= q[1].size_
      BY <3>1, BufferAssumption DEF Framed, Whole
    <3>3. p + 1 \in 1 .. Len(W) /\ p + 1 \in 0 .. Len(W) /\ Len(W) \in p + 1 .. Len(W)
          /\ p \in 0 .. Len(W) /\ (p + 1) - 1 = p
      BY <1>1, <3>1
    <3>4. off[p + 1] = off[p] + 2 + W[p + 1] /\ off[p] \in Nat
      <4> HIDE DEF p
      <4> QED
        BY <3>3 DEF IsOffset
    <3>5. off[Len(W)] >= off[p + 1] /\ off[Len(W)] \in Nat
      BY <3>3, OffsetOrder
    <3>6. Begun(q) \in Nat /\ Begun(q) <= 2 + q[1].size_
      BY <2>2, <3>2 DEF Begun
    <3> HIDE DEF p
    <3>7. \A x, y, z, u, v \in Nat : v <= 2 + y /\ z = x + 2 + y /\ u >= z => x + v <= u
      OBVIOUS
    <3>8. off[p + 1] \in Nat
      BY <3>3 DEF IsOffset
    <3> QED
      BY <1>8, <3>2, <3>4, <3>5, <3>6, <3>7, <3>8
  <2> QED
    BY <2>1, <2>2
<1>10. off[Len(W)] \in Nat
  <2>1. Len(W) \in 0 .. Len(W)
    BY <1>1
  <2> QED
    BY <2>1 DEF IsOffset
<1> QED
  BY <1>9, <1>10

\* put_message adds a frame at the end of what is to come.
LEMMA PutMessageFrames ==
  ASSUME NEW W, NEW off, IsOffset(off, W), NEW n \in Nat, NEW off2,
         IsOffset(off2, Append(W, n)), NEW T, NEW q, Framed(q, W, off, T),
         NEW m \in Whole, m.size_ = n, m.offset_ = 0
  PROVE  Framed(Append(q, m), Append(W, n), off2, T)
<1> DEFINE p  == Len(W) - Len(q)
           q2 == Append(q, m)
           W2 == Append(W, n)
<1>1. /\ q \in Seq(Whole) /\ T \in Seq(Byte) /\ W \in Seq(Nat) /\ Len(q) <= Len(W)
      /\ Len(q) \in Nat /\ Len(W) \in Nat /\ p \in Nat /\ Len(T) \in Nat
  <2>1. q \in Seq(Whole) /\ T \in Seq(Byte) /\ W \in Seq(Nat) /\ Len(q) <= Len(W)
    BY DEF Framed, IsOffset
  <2>2. Len(q) \in Nat /\ Len(W) \in Nat /\ Len(T) \in Nat
    BY <2>1, LenProperties
  <2> QED
    BY <2>1, <2>2
<1>2. /\ q2 \in Seq(Whole) /\ q2 # <<>> /\ Len(q2) = Len(q) + 1 /\ q2[Len(q) + 1] = m
      /\ \A i \in 1 .. Len(q) : q2[i] = q[i]
  BY <1>1, AppendProperties
<1>3. /\ Len(W2) = Len(W) + 1 /\ W2[Len(W) + 1] = n
      /\ \A i \in 1 .. Len(W) : W2[i] = W[i]
  BY <1>1, AppendProperties
<1>4. \A k \in 0 .. Len(W) : off2[k] = off[k]
  BY OffsetStays
<1> HIDE DEF q2, W2
<1>5. Len(W2) - Len(q2) = p /\ Len(q2) <= Len(W2) /\ off2[p] = off[p]
  <2>1. p \in 0 .. Len(W)
    BY <1>1
  <2> QED
    BY <1>1, <1>2, <1>3, <1>4, <2>1
<1>6. ASSUME NEW i \in 1 .. Len(q2)
      PROVE  q2[i].size_ = W2[p + i] /\ (i > 1 => q2[i].offset_ = 0)
  <2>1. CASE i = Len(q) + 1
    <3>1. p + i = Len(W) + 1
      BY <1>1, <2>1
    <3> QED
      BY <1>2, <1>3, <2>1, <3>1
  <2>2. CASE i \in 1 .. Len(q)
    <3>1. p + i \in 1 .. Len(W)
      BY <1>1, <2>2
    <3>2. q[i].size_ = W[p + i] /\ (i > 1 => q[i].offset_ = 0)
      BY <2>2 DEF Framed
    <3> QED
      BY <1>2, <1>3, <2>2, <3>1, <3>2
  <2> QED
    BY <1>1, <1>2, <2>1, <2>2
<1>7. Begun(q2) = Begun(q)
  <2>1. CASE q = <<>>
    <3>1. Len(q) = 0
      BY <2>1, EmptySeq
    <3>2. Len(q2) = 1 /\ q2[1] = m
      <4>1. Len(q2) = Len(q) + 1 /\ q2[Len(q) + 1] = m
        BY <1>2
      <4>2. Len(q) + 1 = 1
        BY <3>1
      <4> QED
        BY <4>1, <4>2
    <3>3. q2 # <<>>
      BY <1>2
    <3> QED
      BY <2>1, <3>2, <3>3 DEF Begun
  <2>2. CASE q # <<>>
    <3>1. 1 \in 1 .. Len(q) /\ q2 # <<>>
      BY <1>1, <1>2, <2>2, EmptySeq
    <3> QED
      BY <1>2, <2>2, <3>1 DEF Begun
  <2> QED
    BY <2>1, <2>2
<1>8. Len(T) = off[p] + Begun(q)
  BY DEF Framed
<1>9. Len(T) <= off[Len(W)]
  BY FramedWithin
<1>10. Headers(T, W2, off2)
  <2> SUFFICES ASSUME NEW k \in 1 .. Len(W) + 1
               PROVE  /\ off2[k - 1] + 1 <= Len(T) => T[off2[k - 1] + 1] = HeaderOf(W2[k])[1]
                      /\ off2[k - 1] + 2 <= Len(T) => T[off2[k - 1] + 2] = HeaderOf(W2[k])[2]
    BY <1>3 DEF Headers
  <2>1. CASE k \in 1 .. Len(W)
    <3>1. off2[k - 1] = off[k - 1] /\ W2[k] = W[k]
      BY <1>1, <1>3, <1>4, <2>1
    <3>2. /\ off[k - 1] + 1 <= Len(T) => T[off[k - 1] + 1] = HeaderOf(W[k])[1]
          /\ off[k - 1] + 2 <= Len(T) => T[off[k - 1] + 2] = HeaderOf(W[k])[2]
      BY <2>1 DEF Framed, Headers
    <3> QED
      BY <3>1, <3>2
  <2>2. CASE k = Len(W) + 1
    <3>1. off2[k - 1] = off[Len(W)] /\ off[Len(W)] \in Nat
      <4>1. Len(W) \in 0 .. Len(W) /\ k - 1 = Len(W)
        BY <1>1, <2>2
      <4> QED
        BY <1>4, <4>1 DEF IsOffset
    <3>2. \A x, y \in Nat : y <= x => ~(x + 1 <= y) /\ ~(x + 2 <= y)
      OBVIOUS
    <3> QED
      BY <1>1, <1>9, <3>1, <3>2
  <2> QED
    <3>1. k \in 1 .. Len(W) \/ k = Len(W) + 1
      BY <1>1
    <3> QED
      BY <2>1, <2>2, <3>1
<1>11. Len(T) = off2[Len(W2) - Len(q2)] + Begun(q2)
  BY <1>5, <1>7, <1>8
<1>12. \A i \in 1 .. Len(q2) : /\ q2[i].size_ = W2[Len(W2) - Len(q2) + i]
                               /\ i > 1 => q2[i].offset_ = 0
  BY <1>5, <1>6
<1> QED
  BY <1>1, <1>2, <1>5, <1>10, <1>11, <1>12 DEF Framed, q2, W2

-----------------------------------------------------------------------------
(* One direction of the connection, from an end to its peer: the values of *)
(* the end's status, gone, bufOut_, writebuf_, pipe, written and taken,    *)
(* and the peer's given.                                                   *)

DirectionOK(st, g, b, wb, pi, W, T, G) ==
  /\ st \in {"open", "closed", "disposed"} /\ g \in {"no", "fin", "reset"}
  /\ W \in Seq(0 .. MaxMsgSize)
  /\ T \in Seq(Byte) /\ G \in Seq(Byte) /\ pi \in Seq(Byte) /\ wb \in Seq(Byte)
  /\ Headers(T, W, Offset(W)) /\ Len(T) <= Offset(W)[Len(W)]
  /\ st # "disposed" => b \in OutBuffer /\ Framed(b.queue_, W, Offset(W), T)
  /\ \E u \in Seq(Byte) : T = (G \o pi) \o u
  /\ st = "open" /\ g = "no" => T = (G \o pi) \o wb

LEMMA SmallSizes ==
  ASSUME NEW W \in Seq(0 .. MaxMsgSize)
  PROVE  W \in Seq(Nat) /\ IsOffset(Offset(W), W)
<1>1. W \in Seq(Nat)
  <2>1. 0 .. MaxMsgSize \subseteq Nat
    OBVIOUS
  <2> QED
    BY <2>1, SeqMonotonic
<1> QED
  BY <1>1, OffsetIs

LEMMA StartOK == DirectionOK("open", "no", EmptyBuffer, <<>>, <<>>, <<>>, <<>>, <<>>)
<1>1. /\ \A S : <<>> \in Seq(S)
      /\ Len(<<>>) = 0 /\ <<>> \o <<>> = <<>>
  OBVIOUS
<1>2. IsOffset(Offset(<<>>), <<>>)
  BY <1>1, SmallSizes
<1>3. Offset(<<>>)[0] = 0
  BY <1>2 DEF IsOffset
<1>4. EmptyBuffer \in OutBuffer /\ EmptyBuffer.queue_ = <<>>
  BY <1>1 DEF EmptyBuffer, OutBuffer
<1>5. Headers(<<>>, <<>>, Offset(<<>>))
  BY <1>1 DEF Headers
<1>6. Framed(<<>>, <<>>, Offset(<<>>), <<>>)
  BY <1>1, <1>3, <1>5 DEF Framed, Begun
<1>7. \E u \in Seq(Byte) : <<>> = (<<>> \o <<>>) \o u
  BY <1>1
<1>8. <<>> \in Seq(0 .. MaxMsgSize) /\ <<>> \in Seq(Byte)
  BY <1>1
<1>9. Len(<<>>) <= Offset(<<>>)[Len(<<>>)] /\ <<>> = (<<>> \o <<>>) \o <<>>
  BY <1>1, <1>3
<1> QED
  BY <1>4, <1>5, <1>6, <1>7, <1>8, <1>9 DEF DirectionOK

\* Nothing happens, or one end closes.
LEMMA CalmerOK ==
  ASSUME NEW st, NEW g, NEW b, NEW wb, NEW pi, NEW W, NEW T, NEW G,
         DirectionOK(st, g, b, wb, pi, W, T, G),
         NEW st2 \in {"open", "closed", "disposed"}, NEW g2 \in {"no", "fin", "reset"},
         NEW b2, NEW wb2 \in {wb, <<>>}, NEW pi2 \in {pi, <<>>},
         st2 # "disposed" => st # "disposed" /\ b2 = b,
         st2 = "open" /\ g2 = "no" => st = "open" /\ g = "no" /\ wb2 = wb /\ pi2 = pi
  PROVE  DirectionOK(st2, g2, b2, wb2, pi2, W, T, G)
<1>1. <<>> \in Seq(Byte)
  BY EmptySeq
<1>2. pi2 \in Seq(Byte) /\ wb2 \in Seq(Byte)
  BY <1>1 DEF DirectionOK
<1>3. \E u \in Seq(Byte) : T = (G \o pi2) \o u
  <2>1. PICK u \in Seq(Byte) : T = (G \o pi) \o u
    BY DEF DirectionOK
  <2>2. CASE pi2 = pi
    BY <2>1, <2>2
  <2>3. CASE pi2 = <<>>
    <3>1. G \in Seq(Byte) /\ pi \in Seq(Byte)
      BY DEF DirectionOK
    <3>2. Regroups(G, pi, u)
      BY <2>1, <3>1, Reassociated
    <3>3. T = G \o (pi \o u)
      BY <2>1, <3>2 DEF Regroups
    <3>4. G \o pi2 = G
      BY <2>3, <3>1, ConcatEmptySeq
    <3>5. pi \o u \in Seq(Byte)
      BY <3>1, ConcatIs
    <3> QED
      BY <3>3, <3>4, <3>5
  <2> QED
    BY <2>2, <2>3
<1> QED
  BY <1>2, <1>3 DEF DirectionOK

\* A call of write() that finds room.
LEMMA WroteOK ==
  ASSUME NEW st, NEW g, NEW b, NEW wb, NEW pi, NEW W, NEW T, NEW G,
         DirectionOK(st, g, b, wb, pi, W, T, G), st # "disposed",
         NEW n \in Nat, Fits(b, n)
  PROVE  DirectionOK(st, g, PutMessage(b, [i \in 1 .. n |-> 0]), wb, pi,
                     Append(W, n), T, G)
<1> DEFINE body == [i \in 1 .. n |-> 0]
           m    == [size_ |-> Len(body), offset_ |-> 0, body |-> body]
           W2   == Append(W, n)
<1>1. body \in Seq(Byte) /\ Len(body) = n
  <2>1. 0 \in Byte
    BY BufferAssumption DEF Byte
  <2> QED
    BY <2>1, SMT
<1> HIDE DEF body
<1>2. n \in 0 .. MaxMsgSize
  BY BufferAssumption DEF Fits
<1>3. m \in Whole /\ m.size_ = n /\ m.offset_ = 0
  BY <1>1, <1>2, BufferAssumption DEF Whole
<1>4. /\ W \in Seq(0 .. MaxMsgSize) /\ b \in OutBuffer
      /\ Framed(b.queue_, W, Offset(W), T)
  BY DEF DirectionOK
<1>5. W2 \in Seq(0 .. MaxMsgSize)
  BY <1>2, <1>4, AppendProperties
<1>6. PutMessage(b, body)
        = [b EXCEPT !.queue_ = Append(@, m), !.written_ = @ + Len(body)]
  BY <1>1 DEF PutMessage
<1> HIDE DEF m, W2
<1>7. /\ PutMessage(b, body).queue_ = Append(b.queue_, m)
      /\ PutMessage(b, body) \in OutBuffer
  <2>1. Append(b.queue_, m) \in Seq(Whole)
    BY <1>3, <1>4, AppendProperties DEF OutBuffer
  <2>2. b.written_ + Len(body) \in Int
    BY <1>1, <1>4 DEF OutBuffer
  <2> QED
    BY <1>4, <1>6, <2>1, <2>2 DEF OutBuffer
<1>8. IsOffset(Offset(W), W) /\ IsOffset(Offset(W2), W2)
  BY <1>4, <1>5, SmallSizes
<1>9. Framed(Append(b.queue_, m), W2, Offset(W2), T)
  BY <1>3, <1>4, <1>8, PutMessageFrames DEF W2
<1>10. Headers(T, W2, Offset(W2)) /\ Len(T) <= Offset(W2)[Len(W2)]
  BY <1>8, <1>9, FramedWithin DEF Framed
<1> HIDE DEF body
<1> QED
  BY <1>5, <1>7, <1>9, <1>10 DEF DirectionOK, W2, body

\* The peer's recv() takes n bytes.
LEMMA ReceivedOK ==
  ASSUME NEW st, NEW g, NEW b, NEW wb, NEW pi, NEW W, NEW T, NEW G,
         DirectionOK(st, g, b, wb, pi, W, T, G), NEW n \in 1 .. Len(pi)
  PROVE  DirectionOK(st, g, b, wb, SubSeq(pi, n + 1, Len(pi)), W, T,
                     G \o SubSeq(pi, 1, n))
<1> DEFINE x == SubSeq(pi, 1, n)
           y == SubSeq(pi, n + 1, Len(pi))
<1>1. G \in Seq(Byte) /\ pi \in Seq(Byte)
  BY DEF DirectionOK
<1>2. x \in Seq(Byte) /\ y \in Seq(Byte) /\ pi = x \o y
  BY <1>1, CutInTwo
<1> HIDE DEF x, y
<1>3. (G \o x) \o y = G \o pi /\ G \o x \in Seq(Byte)
  <2>1. G \in Seq(Byte) /\ x \in Seq(Byte) /\ y \in Seq(Byte)
    BY <1>1, <1>2
  <2>2. Regroups(G, x, y)
    BY <2>1, Reassociated
  <2>3. G \o x \in Seq(Byte)
    BY <2>1, ConcatIs
  <2> QED
    BY <1>2, <2>2, <2>3 DEF Regroups
<1> QED
  BY <1>2, <1>3 DEF DirectionOK, x, y

\* f is what Fetch gives, for the buffer b and the bytes wb.
Fetched(f, b, wb) ==
  f = IF wb # <<>>
      THEN [buf |-> b, bytes |-> wb, fresh |-> <<>>]
      ELSE LET g == GetData(b, QueueSize)
           IN  [buf |-> g.buf, bytes |-> g.bytes, fresh |-> g.bytes]

LEMMA FetchedOK ==
  ASSUME NEW st, NEW g, NEW b, NEW wb, NEW pi, NEW W, NEW T, NEW G,
         DirectionOK(st, g, b, wb, pi, W, T, G), st = "open",
         NEW f, Fetched(f, b, wb)
  PROVE  /\ f.buf \in OutBuffer /\ f.bytes \in Seq(Byte) /\ f.fresh \in Seq(Byte)
         /\ wb \o f.fresh = f.bytes
         /\ Framed(f.buf.queue_, W, Offset(W), T \o f.fresh)
         /\ Headers(T \o f.fresh, W, Offset(W))
         /\ Len(T \o f.fresh) <= Offset(W)[Len(W)]
         /\ Len(f.bytes) <= QueueSize \/ f.bytes = wb
<1>1. /\ W \in Seq(0 .. MaxMsgSize) /\ b \in OutBuffer
      /\ Framed(b.queue_, W, Offset(W), T)
      /\ T \in Seq(Byte) /\ wb \in Seq(Byte)
  BY DEF DirectionOK
<1>2. IsOffset(Offset(W), W)
  BY <1>1, SmallSizes
<1>3. /\ f.buf \in OutBuffer /\ f.bytes \in Seq(Byte) /\ f.fresh \in Seq(Byte)
      /\ wb \o f.fresh = f.bytes
      /\ Framed(f.buf.queue_, W, Offset(W), T \o f.fresh)
      /\ Len(f.bytes) <= QueueSize \/ f.bytes = wb
  <2>1. CASE wb # <<>>
    <3>1. f.buf = b /\ f.bytes = wb /\ f.fresh = <<>>
      BY <2>1 DEF Fetched
    <3>2. T \o <<>> = T /\ wb \o <<>> = wb /\ <<>> \in Seq(Byte)
      BY <1>1, ConcatEmptySeq, EmptySeq
    <3> QED
      BY <1>1, <3>1, <3>2
  <2>2. CASE wb = <<>>
    <3> DEFINE d == GetData(b, QueueSize)
    <3>1. f.buf = d.buf /\ f.bytes = d.bytes /\ f.fresh = d.bytes
      BY <2>2 DEF Fetched
    <3> HIDE DEF d
    <3>2. /\ d.buf \in OutBuffer /\ d.bytes \in Seq(Byte) /\ Len(d.bytes) <= QueueSize
          /\ Framed(d.buf.queue_, W, Offset(W), T \o d.bytes)
      <4>1. QueueSize \in Nat
        BY BufferAssumption
      <4> QED
        BY <1>1, <1>2, <4>1, GetDataFrames DEF d
    <3>3. <<>> \o d.bytes = d.bytes
      BY <3>2, ConcatEmptySeq
    <3> QED
      BY <2>2, <3>1, <3>2, <3>3
  <2> QED
    BY <2>1, <2>2
<1>4. Headers(T \o f.fresh, W, Offset(W)) /\ Len(T \o f.fresh) <= Offset(W)[Len(W)]
  BY <1>2, <1>3, FramedWithin DEF Framed
<1> QED
  BY <1>3, <1>4

\* send() takes w bytes and the peer is there.
LEMMA SentOK ==
  ASSUME NEW st, NEW g, NEW b, NEW wb, NEW pi, NEW W, NEW T, NEW G,
         DirectionOK(st, g, b, wb, pi, W, T, G), st = "open", g = "no",
         NEW f, Fetched(f, b, wb), NEW w \in Nat, w <= Len(f.bytes)
  PROVE  DirectionOK(st, g, f.buf, SubSeq(f.bytes, w + 1, Len(f.bytes)),
                     pi \o SubSeq(f.bytes, 1, w), W, T \o f.fresh, G)
<1> DEFINE x == SubSeq(f.bytes, 1, w)
           y == SubSeq(f.bytes, w + 1, Len(f.bytes))
           T2 == T \o f.fresh
<1>1. /\ T \in Seq(Byte) /\ G \in Seq(Byte) /\ pi \in Seq(Byte) /\ wb \in Seq(Byte)
      /\ T = (G \o pi) \o wb
  BY DEF DirectionOK
<1>2. /\ f.buf \in OutBuffer /\ f.bytes \in Seq(Byte) /\ f.fresh \in Seq(Byte)
      /\ wb \o f.fresh = f.bytes
      /\ Framed(f.buf.queue_, W, Offset(W), T2)
      /\ Headers(T2, W, Offset(W)) /\ Len(T2) <= Offset(W)[Len(W)]
  BY FetchedOK
<1>3. x \in Seq(Byte) /\ y \in Seq(Byte) /\ f.bytes = x \o y
  <2>1. w \in 0 .. Len(f.bytes)
    BY <1>2, LenProperties
  <2> QED
    BY <1>2, <2>1, CutInTwo
<1> HIDE DEF x, y
<1>4. T2 = (G \o (pi \o x)) \o y
  <2>1. G \o pi \in Seq(Byte)
    BY <1>1, ConcatIs
  <2>2. T2 = (G \o pi) \o (x \o y)
    <3>1. ((G \o pi) \o wb) \o f.fresh = (G \o pi) \o (wb \o f.fresh)
      <4> DEFINE A == G \o pi
                 F == f.fresh
      <4>1. A \in Seq(Byte) /\ wb \in Seq(Byte) /\ F \in Seq(Byte)
        BY <1>1, <1>2, <2>1
      <4> HIDE DEF A, F
      <4>2. Regroups(A, wb, F)
        BY <4>1, Reassociated
      <4> QED
        BY <4>2 DEF A, F, Regroups
    <3> QED
      BY <1>1, <1>2, <1>3, <3>1
  <2>3. (G \o pi) \o (x \o y) = ((G \o pi) \o x) \o y
    <3> DEFINE A == G \o pi
    <3>1. A \in Seq(Byte) /\ x \in Seq(Byte) /\ y \in Seq(Byte)
      BY <1>3, <2>1
    <3> HIDE DEF A
    <3>2. Regroups(A, x, y)
      BY <3>1, Reassociated
    <3> QED
      BY <3>2 DEF A, Regroups
  <2>4. (G \o pi) \o x = G \o (pi \o x)
    <3>1. G \in Seq(Byte) /\ pi \in Seq(Byte) /\ x \in Seq(Byte)
      BY <1>1, <1>3
    <3>2. Regroups(G, pi, x)
      BY <3>1, Reassociated
    <3> QED
      BY <3>2 DEF Regroups
  <2> QED
    BY <2>2, <2>3, <2>4
<1>5. T2 \in Seq(Byte) /\ pi \o x \in Seq(Byte)
  BY <1>1, <1>2, <1>3, ConcatIs
<1> HIDE DEF T2
<1>6. W \in Seq(0 .. MaxMsgSize) /\ st # "disposed"
  BY DEF DirectionOK
<1>7. DirectionOK(st, g, f.buf, y, pi \o x, W, T2, G)
  BY <1>1, <1>2, <1>3, <1>4, <1>5, <1>6 DEF DirectionOK
<1> QED
  BY <1>7 DEF x, y, T2

\* Bytes are taken from bufOut_ when the peer has closed, and so are lost, or
\* when send() fails.
LEMMA LostOK ==
  ASSUME NEW st, NEW g, NEW b, NEW wb, NEW pi, NEW W, NEW T, NEW G,
         DirectionOK(st, g, b, wb, pi, W, T, G), st = "open",
         NEW f, Fetched(f, b, wb), NEW wb2 \in Seq(Byte),
         NEW st2 \in {"open", "closed"}, NEW g2 \in {"no", "fin", "reset"},
         ~(st2 = "open" /\ g2 = "no")
  PROVE  DirectionOK(st2, g2, f.buf, wb2, pi, W, T \o f.fresh, G)
<1> DEFINE T2 == T \o f.fresh
<1>1. T \in Seq(Byte) /\ G \in Seq(Byte) /\ pi \in Seq(Byte)
  BY DEF DirectionOK
<1>2. /\ f.buf \in OutBuffer /\ f.fresh \in Seq(Byte)
      /\ Framed(f.buf.queue_, W, Offset(W), T2)
      /\ Headers(T2, W, Offset(W)) /\ Len(T2) <= Offset(W)[Len(W)]
  BY FetchedOK
<1>3. \E u \in Seq(Byte) : T2 = (G \o pi) \o u
  <2>1. PICK u \in Seq(Byte) : T = (G \o pi) \o u
    BY DEF DirectionOK
  <2>2. G \o pi \in Seq(Byte) /\ u \o f.fresh \in Seq(Byte)
    BY <1>1, <1>2, ConcatIs
  <2>3. ((G \o pi) \o u) \o f.fresh = (G \o pi) \o (u \o f.fresh)
    <3> DEFINE A == G \o pi
               F == f.fresh
    <3>1. A \in Seq(Byte) /\ u \in Seq(Byte) /\ F \in Seq(Byte)
      BY <1>2, <2>2
    <3> HIDE DEF A, F
    <3>2. Regroups(A, u, F)
      BY <3>1, Reassociated
    <3> QED
      BY <3>2 DEF A, F, Regroups
  <2> QED
    BY <2>1, <2>2, <2>3
<1>4. T2 \in Seq(Byte)
  BY <1>1, <1>2, ConcatIs
<1> HIDE DEF T2
<1>5. W \in Seq(0 .. MaxMsgSize)
  BY DEF DirectionOK
<1>6. DirectionOK(st2, g2, f.buf, wb2, pi, W, T2, G)
  BY <1>1, <1>2, <1>3, <1>4, <1>5 DEF DirectionOK
<1> QED
  BY <1>6 DEF T2

-----------------------------------------------------------------------------
(* The two ends. *)

LEMMA Peers ==
  /\ Client \in End /\ Server \in End
  /\ \A e \in End : Peer(e) \in End /\ Peer(e) # e /\ Peer(Peer(e)) = e
  /\ \A e, d \in End : d = e \/ d = Peer(e)
  BY LinkAssumption DEF End, Peer

\* Types; the contents of the buffers are left to Direction and Reception.
Shape ==
  /\ status \in [End -> {"open", "closed", "disposed"}]
  /\ gone \in [End -> {"no", "fin", "reset"}]
  /\ dropped \in [End -> BOOLEAN]
  /\ pipe \in [End -> Seq(Byte)] /\ writebuf_ \in [End -> Seq(Byte)]
  /\ taken \in [End -> Seq(Byte)] /\ given \in [End -> Seq(Byte)]
  /\ written \in [End -> Seq(0 .. MaxMsgSize)]
  /\ bufOut_ = [e \in End |-> bufOut_[e]]
  /\ bufIn_ = [e \in End |-> bufIn_[e]]
  /\ read_ = [e \in End |-> read_[e]]

Direction(e) ==
  DirectionOK(status[e], gone[e], bufOut_[e], writebuf_[e], pipe[e],
              written[e], taken[e], given[Peer(e)])

\* The inductive invariant of the senders and of what is between the ends.
StreamInv == Shape /\ \A e \in End : Direction(e)

LEMMA InitStreamInv == Init => StreamInv
<1> SUFFICES ASSUME Init PROVE StreamInv
  OBVIOUS
<1>1. <<>> \in Seq(Byte) /\ <<>> \in Seq(0 .. MaxMsgSize)
  BY EmptySeq
<1>2. Shape
  BY <1>1 DEF Init, Shape
<1>3. ASSUME NEW e \in End PROVE Direction(e)
  <2>1. /\ status[e] = "open" /\ gone[e] = "no" /\ bufOut_[e] = EmptyBuffer
        /\ writebuf_[e] = <<>> /\ pipe[e] = <<>> /\ written[e] = <<>>
        /\ taken[e] = <<>> /\ given[Peer(e)] = <<>>
    BY Peers DEF Init
  <2> QED
    BY <2>1, StartOK DEF Direction
<1> QED
  BY <1>2, <1>3 DEF StreamInv

\* An action after which the direction from d is as it was, or calmer.
LEMMA CalmerDirection ==
  ASSUME StreamInv, NEW d \in End, Shape',
         written'[d] = written[d], taken'[d] = taken[d],
         given'[Peer(d)] = given[Peer(d)],
         writebuf_'[d] \in {writebuf_[d], <<>>}, pipe'[d] \in {pipe[d], <<>>},
         status'[d] # "disposed" => status[d] # "disposed" /\ bufOut_'[d] = bufOut_[d],
         status'[d] = "open" /\ gone'[d] = "no" =>
           /\ status[d] = "open" /\ gone[d] = "no"
           /\ writebuf_'[d] = writebuf_[d] /\ pipe'[d] = pipe[d]
  PROVE  Direction(d)'
<1>1. Direction(d)
  BY DEF StreamInv
<1>2. status'[d] \in {"open", "closed", "disposed"} /\ gone'[d] \in {"no", "fin", "reset"}
  BY DEF Shape
<1> QED
  BY <1>1, <1>2, CalmerOK DEF Direction

LEMMA WriteStreamInv ==
  ASSUME StreamInv, NEW e \in End, NEW n \in Sizes[e], Write(e, n)
  PROVE  StreamInv'
<1>1. n \in Nat /\ n \in 0 .. MaxMsgSize
  <2>1. Sizes[e] \subseteq 0 .. Radix * Radix - 1
    BY LinkAssumption
  <2>2. n \in Nat
    BY <2>1
  <2> QED
    BY <2>2, BufferAssumption DEF Write, Fits
<1>2. Shape'
  <2>1. Append(written[e], n) \in Seq(0 .. MaxMsgSize)
    BY <1>1, AppendProperties DEF StreamInv, Shape
  <2> QED
    BY <2>1 DEF StreamInv, Shape, Write
<1>3. ASSUME NEW d \in End, d # e PROVE Direction(d)'
  BY <1>2, <1>3, CalmerDirection DEF Write, StreamInv, Shape
<1>4. Direction(e)'
  <2>1. Direction(e) /\ status[e] # "disposed" /\ Fits(bufOut_[e], n)
    BY DEF StreamInv, Write
  <2>2. DirectionOK(status[e], gone[e], PutMessage(bufOut_[e], [i \in 1 .. n |-> 0]),
                    writebuf_[e], pipe[e], Append(written[e], n), taken[e], given[Peer(e)])
    BY <1>1, <2>1, WroteOK DEF Direction
  <2>3. /\ bufOut_'[e] = PutMessage(bufOut_[e], [i \in 1 .. n |-> 0])
        /\ written'[e] = Append(written[e], n)
        /\ status' = status /\ gone' = gone /\ writebuf_' = writebuf_ /\ pipe' = pipe
        /\ taken' = taken /\ given' = given
    BY DEF Write, StreamInv, Shape
  <2> QED
    BY <2>2, <2>3 DEF Direction
<1> QED
  BY <1>2, <1>3, <1>4 DEF StreamInv

LEMMA ReadStreamInv ==
  ASSUME StreamInv, NEW e \in End, Read(e)
  PROVE  StreamInv'
<1>1. Shape'
  BY DEF StreamInv, Shape, Read
<1>2. ASSUME NEW d \in End PROVE Direction(d)'
  BY <1>1, CalmerDirection, Peers DEF Read, StreamInv, Shape
<1> QED
  BY <1>1, <1>2 DEF StreamInv

\* The two ends after one of them closed.
LEMMA ClosedEnds ==
  ASSUME StreamInv, NEW e \in End, SystemClose(e)
  PROVE  /\ gone' \in [End -> {"no", "fin", "reset"}] /\ pipe' \in [End -> Seq(Byte)]
         /\ gone'[e] = gone[e] /\ pipe'[e] = pipe[e]
         /\ gone'[Peer(e)] # "no" /\ pipe'[Peer(e)] = <<>>
<1>1. <<>> \in Seq(Byte)
  BY EmptySeq
<1>2. /\ gone \in [End -> {"no", "fin", "reset"}] /\ pipe \in [End -> Seq(Byte)]
      /\ Peer(e) \in End /\ Peer(e) # e
  BY Peers DEF StreamInv, Shape
<1> QED
  BY <1>1, <1>2 DEF SystemClose

LEMMA CloseStreamInv ==
  ASSUME StreamInv, NEW e \in End, status[e] = "open", CloseSocket(e),
         UNCHANGED <<bufIn_, bufOut_, writebuf_, history>>
  PROVE  StreamInv'
<1>1. /\ gone' \in [End -> {"no", "fin", "reset"}] /\ pipe' \in [End -> Seq(Byte)]
      /\ gone'[e] = gone[e] /\ pipe'[e] = pipe[e]
      /\ gone'[Peer(e)] # "no" /\ pipe'[Peer(e)] = <<>>
  BY ClosedEnds DEF CloseSocket
<1>2. /\ status' = [status EXCEPT ![e] = "closed"]
      /\ bufIn_' = bufIn_ /\ bufOut_' = bufOut_ /\ writebuf_' = writebuf_
      /\ written' = written /\ read_' = read_ /\ taken' = taken /\ given' = given
      /\ dropped' = dropped
  BY DEF CloseSocket, history
<1>3. Shape'
  BY <1>1, <1>2 DEF StreamInv, Shape
<1>4. /\ Peer(e) \in End /\ Peer(e) # e
      /\ status'[e] = "closed" /\ status'[Peer(e)] = status[Peer(e)]
  BY <1>2, Peers DEF StreamInv, Shape
<1>5. Direction(e)'
  BY <1>1, <1>2, <1>3, <1>4, CalmerDirection
<1>6. Direction(Peer(e))'
  BY <1>1, <1>2, <1>3, <1>4, CalmerDirection
<1> QED
  BY <1>3, <1>5, <1>6, Peers DEF StreamInv

LEMMA DisposeStreamInv ==
  ASSUME StreamInv, NEW e \in End, Dispose(e)
  PROVE  StreamInv'
<1>1. <<>> \in Seq(Byte)
  BY EmptySeq
<1>2. /\ gone' \in [End -> {"no", "fin", "reset"}] /\ pipe' \in [End -> Seq(Byte)]
      /\ pipe'[e] = pipe[e]
      /\ \/ gone'[Peer(e)] # "no" /\ pipe'[Peer(e)] = <<>>
         \/ gone' = gone /\ pipe' = pipe
  <2>1. CASE status[e] = "open"
    BY <2>1, ClosedEnds DEF Dispose
  <2>2. CASE status[e] # "open"
    BY <2>2 DEF Dispose, StreamInv, Shape
  <2> QED
    BY <2>1, <2>2
<1>3. /\ status' = [status EXCEPT ![e] = "disposed"]
      /\ bufIn_' = [bufIn_ EXCEPT ![e] = EmptyBuffer]
      /\ bufOut_' = [bufOut_ EXCEPT ![e] = EmptyBuffer]
      /\ writebuf_' = [writebuf_ EXCEPT ![e] = <<>>]
      /\ written' = written /\ read_' = read_ /\ taken' = taken /\ given' = given
      /\ dropped' = dropped
  BY DEF Dispose, history
<1>4. Shape'
  BY <1>1, <1>2, <1>3 DEF StreamInv, Shape
<1>5. /\ Peer(e) \in End /\ Peer(e) # e
      /\ status'[e] = "disposed" /\ status'[Peer(e)] = status[Peer(e)]
      /\ bufOut_'[Peer(e)] = bufOut_[Peer(e)]
      /\ writebuf_'[e] = <<>> /\ writebuf_'[Peer(e)] = writebuf_[Peer(e)]
  BY <1>3, Peers DEF StreamInv, Shape
<1>6. Direction(e)'
  BY <1>2, <1>3, <1>4, <1>5, CalmerDirection
<1>7. Direction(Peer(e))'
  <2>1. pipe'[Peer(e)] \in {pipe[Peer(e)], <<>>}
    BY <1>2
  <2>2. status'[Peer(e)] = "open" /\ gone'[Peer(e)] = "no" =>
           /\ status[Peer(e)] = "open" /\ gone[Peer(e)] = "no"
           /\ writebuf_'[Peer(e)] = writebuf_[Peer(e)] /\ pipe'[Peer(e)] = pipe[Peer(e)]
    BY <1>2, <1>5
  <2> QED
    BY <1>3, <1>4, <1>5, <2>1, <2>2, CalmerDirection
<1> QED
  BY <1>4, <1>6, <1>7, Peers DEF StreamInv

LEMMA ReceiveStreamInv ==
  ASSUME StreamInv, NEW e \in End,
         NEW n \in 1 .. AtMost(MaxMsgSize, Len(pipe[Peer(e)])), DoReadData(e, n)
  PROVE  StreamInv'
<1> DEFINE p == Peer(e)
           x == SubSeq(pipe[p], 1, n)
           y == SubSeq(pipe[p], n + 1, Len(pipe[p]))
<1>1. /\ p \in End /\ p # e /\ Peer(p) = e
      /\ pipe[p] \in Seq(Byte) /\ given[e] \in Seq(Byte)
  BY Peers DEF StreamInv, Shape
<1>2. n \in 1 .. Len(pipe[p])
  BY <1>1, LenProperties, BufferAssumption DEF AtMost
<1>3. x \in Seq(Byte) /\ y \in Seq(Byte) /\ given[e] \o x \in Seq(Byte)
  <2>1. n \in 0 .. Len(pipe[p])
    BY <1>2
  <2>2. x \in Seq(Byte) /\ y \in Seq(Byte)
    BY <1>1, <2>1, CutInTwo
  <2> HIDE DEF x, y
  <2> QED
    BY <1>1, <2>2, ConcatIs
<1>4. /\ bufIn_' = [bufIn_ EXCEPT ![e] = PutData(@, x)]
      /\ pipe' = [pipe EXCEPT ![p] = y]
      /\ given' = [given EXCEPT ![e] = @ \o x]
      /\ dropped' = [dropped EXCEPT ![e] = @ \/ Drops(bufIn_[e], x)]
      /\ status' = status /\ bufOut_' = bufOut_ /\ writebuf_' = writebuf_
      /\ gone' = gone /\ written' = written /\ read_' = read_ /\ taken' = taken
  BY DEF DoReadData
<1>5. Direction(p) /\ Direction(e)
  BY <1>1 DEF StreamInv
<1>6. DirectionOK(status[p], gone[p], bufOut_[p], writebuf_[p], y, written[p],
                  taken[p], given[e] \o x)
  BY <1>1, <1>2, <1>5, ReceivedOK DEF Direction
<1> HIDE DEF p, x, y
<1>7. Shape'
  BY <1>1, <1>3, <1>4 DEF StreamInv, Shape
<1>8. Direction(p)'
  BY <1>1, <1>4, <1>6 DEF Direction, StreamInv, Shape
<1>9. Direction(e)'
  BY <1>1, <1>4, <1>7, CalmerDirection DEF StreamInv, Shape, p
<1> QED
  BY <1>7, <1>8, <1>9, Peers DEF StreamInv, p

LEMMA FetchIsFetched ==
  ASSUME NEW e \in End
  PROVE  Fetched(Fetch(e), bufOut_[e], writebuf_[e])
  BY DEF Fetched, Fetch

LEMMA SendStreamInv ==
  ASSUME StreamInv, NEW e \in End, status[e] = "open", NEW w \in Nat,
         DoWriteData(e, w)
  PROVE  StreamInv'
<1> DEFINE f == Fetch(e)
           x == SubSeq(f.bytes, 1, w)
           y == SubSeq(f.bytes, w + 1, Len(f.bytes))
<1>1. Direction(e) /\ Fetched(f, bufOut_[e], writebuf_[e])
  BY FetchIsFetched DEF StreamInv
<1>2. /\ gone[e] # "reset" /\ w <= Len(f.bytes)
      /\ bufOut_' = [bufOut_ EXCEPT ![e] = f.buf]
      /\ writebuf_' = [writebuf_ EXCEPT ![e] = y]
      /\ taken' = [taken EXCEPT ![e] = @ \o f.fresh]
      /\ gone[e] = "fin" =>
           /\ gone' = [gone EXCEPT ![e] = IF w > 0 THEN "reset" ELSE @]
           /\ pipe' = pipe
      /\ gone[e] # "fin" => pipe' = [pipe EXCEPT ![e] = @ \o x] /\ gone' = gone
      /\ status' = status /\ bufIn_' = bufIn_ /\ written' = written
      /\ read_' = read_ /\ given' = given /\ dropped' = dropped
  BY DEF DoWriteData, Unsent
<1> HIDE DEF f
<1>3. f.bytes \in Seq(Byte) /\ f.fresh \in Seq(Byte) /\ x \in Seq(Byte) /\ y \in Seq(Byte)
  <2>1. f.bytes \in Seq(Byte) /\ f.fresh \in Seq(Byte)
    BY <1>1, FetchedOK DEF Direction
  <2>2. w \in 0 .. Len(f.bytes)
    BY <1>2, <2>1, LenProperties
  <2> QED
    BY <2>1, <2>2, CutInTwo
<1>4. gone[e] \in {"no", "fin", "reset"} /\ taken[e] \in Seq(Byte) /\ pipe[e] \in Seq(Byte)
  BY DEF StreamInv, Shape
<1>5. taken[e] \o f.fresh \in Seq(Byte) /\ pipe[e] \o x \in Seq(Byte)
  BY <1>3, <1>4, ConcatIs
<1>6. CASE gone[e] = "no"
  <2>1. DirectionOK(status[e], gone[e], f.buf, y, pipe[e] \o x, written[e],
                    taken[e] \o f.fresh, given[Peer(e)])
    BY <1>1, <1>2, <1>6, SentOK DEF Direction
  <2> HIDE DEF x, y
  <2>2. pipe' = [pipe EXCEPT ![e] = @ \o x] /\ gone' = gone
    BY <1>2, <1>6
  <2>3. Shape'
    BY <1>2, <1>3, <1>5, <2>2 DEF StreamInv, Shape
  <2>4. /\ bufOut_'[e] = f.buf /\ writebuf_'[e] = y /\ pipe'[e] = pipe[e] \o x
        /\ taken'[e] = taken[e] \o f.fresh
    BY <1>2, <2>2 DEF StreamInv, Shape
  <2>5. Direction(e)'
    BY <1>2, <2>1, <2>2, <2>4 DEF Direction
  <2>6. ASSUME NEW d \in End, d # e PROVE Direction(d)'
    BY <1>2, <2>2, <2>3, <2>6, CalmerDirection DEF StreamInv, Shape
  <2> QED
    BY <2>3, <2>5, <2>6 DEF StreamInv
<1>7. CASE gone[e] = "fin"
  <2> HIDE DEF x, y
  <2>1. gone' = [gone EXCEPT ![e] = IF w > 0 THEN "reset" ELSE @] /\ pipe' = pipe
    BY <1>2, <1>7
  <2>2. Shape'
    BY <1>2, <1>3, <1>5, <2>1 DEF StreamInv, Shape
  <2>3. /\ bufOut_'[e] = f.buf /\ writebuf_'[e] = y /\ taken'[e] = taken[e] \o f.fresh
        /\ gone'[e] \in {"fin", "reset"}
    BY <1>2, <1>7, <2>1 DEF StreamInv, Shape
  <2>4. DirectionOK(status[e], gone'[e], f.buf, y, pipe[e], written[e],
                    taken[e] \o f.fresh, given[Peer(e)])
    BY <1>1, <1>3, <2>3, LostOK DEF Direction
  <2>5. Direction(e)'
    BY <1>2, <2>1, <2>3, <2>4 DEF Direction
  <2>6. ASSUME NEW d \in End, d # e PROVE Direction(d)'
    BY <1>2, <2>1, <2>2, <2>6, CalmerDirection DEF StreamInv, Shape
  <2> QED
    BY <2>2, <2>5, <2>6 DEF StreamInv
<1> QED
  BY <1>2, <1>4, <1>6, <1>7

LEMMA SendFailsStreamInv ==
  ASSUME StreamInv, NEW e \in End, status[e] = "open", DoWriteFails(e)
  PROVE  StreamInv'
<1> DEFINE f == Fetch(e)
           p == Peer(e)
<1>1. Direction(e) /\ Fetched(f, bufOut_[e], writebuf_[e])
  BY FetchIsFetched DEF StreamInv
<1>2. /\ gone[e] = "reset"
      /\ bufOut_' = [bufOut_ EXCEPT ![e] = f.buf]
      /\ writebuf_' = [writebuf_ EXCEPT ![e] = f.bytes]
      /\ taken' = [taken EXCEPT ![e] = @ \o f.fresh]
      /\ status' = [status EXCEPT ![e] = "closed"]
      /\ SystemClose(e)
      /\ bufIn_' = bufIn_ /\ written' = written
      /\ read_' = read_ /\ given' = given /\ dropped' = dropped
  BY DEF DoWriteFails, CloseSocket
<1>3. /\ gone' \in [End -> {"no", "fin", "reset"}] /\ pipe' \in [End -> Seq(Byte)]
      /\ gone'[e] = gone[e] /\ pipe'[e] = pipe[e]
      /\ gone'[p] # "no" /\ pipe'[p] = <<>>
  BY <1>2, ClosedEnds
<1>4. p \in End /\ p # e /\ Peer(p) = e
  BY Peers
<1> HIDE DEF f, p
<1>5. f.bytes \in Seq(Byte) /\ f.fresh \in Seq(Byte)
  BY <1>1, FetchedOK DEF Direction
<1>6. taken[e] \in Seq(Byte) /\ taken[e] \o f.fresh \in Seq(Byte)
  <2>1. taken[e] \in Seq(Byte)
    BY DEF StreamInv, Shape
  <2> QED
    BY <1>5, <2>1, ConcatIs
<1>7. Shape'
  BY <1>2, <1>3, <1>5, <1>6 DEF StreamInv, Shape
<1>8. DirectionOK("closed", gone[e], f.buf, f.bytes, pipe[e], written[e],
                  taken[e] \o f.fresh, given[Peer(e)])
  <2>1. gone[e] \in {"no", "fin", "reset"}
    BY DEF StreamInv, Shape
  <2> QED
    BY <1>1, <1>5, <2>1, LostOK DEF Direction
<1>9. /\ bufOut_'[e] = f.buf /\ writebuf_'[e] = f.bytes /\ taken'[e] = taken[e] \o f.fresh
      /\ status'[e] = "closed"
      /\ bufOut_'[p] = bufOut_[p] /\ writebuf_'[p] = writebuf_[p] /\ taken'[p] = taken[p]
      /\ status'[p] = status[p]
  BY <1>2, <1>4 DEF StreamInv, Shape
<1>10. Direction(e)'
  BY <1>2, <1>3, <1>8, <1>9 DEF Direction
<1>11. Direction(p)'
  BY <1>2, <1>3, <1>4, <1>7, <1>9, CalmerDirection
<1> QED
  BY <1>7, <1>10, <1>11, Peers DEF StreamInv, p

LEMMA BreakStreamInv ==
  ASSUME StreamInv, Break
  PROVE  StreamInv'
<1>1. /\ gone' = [e \in End |-> "reset"]
      /\ status' = status /\ bufIn_' = bufIn_ /\ bufOut_' = bufOut_
      /\ writebuf_' = writebuf_ /\ pipe' = pipe
      /\ written' = written /\ read_' = read_ /\ taken' = taken /\ given' = given
      /\ dropped' = dropped
  BY DEF Break, socket, history
<1>2. Shape'
  BY <1>1 DEF StreamInv, Shape
<1>3. ASSUME NEW d \in End PROVE Direction(d)'
  BY <1>1, <1>2, CalmerDirection
<1> QED
  BY <1>2, <1>3 DEF StreamInv

\* What a step is, without the guards that only say when it is taken.
LEMMA Steps ==
  ASSUME Next
  PROVE  \/ \E e \in End : \E n \in Sizes[e] : Write(e, n)
         \/ \E e \in End : Read(e) \/ Dispose(e)
         \/ \E e \in End : /\ status[e] = "open" /\ ~InSend(e)
                           /\ \E n \in 1 .. AtMost(MaxMsgSize, Len(pipe[Peer(e)])) :
                                DoReadData(e, n)
         \/ \E e \in End : /\ status[e] = "open" /\ CloseSocket(e)
                           /\ UNCHANGED <<bufIn_, bufOut_, writebuf_, history>>
         \/ \E e \in End : status[e] = "open" /\ \E w \in Nat : DoWriteData(e, w)
         \/ \E e \in End : status[e] = "open" /\ DoWriteFails(e)
         \/ Break
<1>1. CASE \E e \in End : DoRead(e)
  BY <1>1 DEF DoRead, DoReadEnd
<1>2. CASE \E e \in End : DoWrite(e) \/ DoWriteBlocked(e)
  <2>1. 0 \in Nat /\ \A w \in 1 .. PipeSize : w \in Nat
    BY LinkAssumption
  <2> QED
    BY <1>2, <2>1 DEF DoWrite, DoWriteBlocked
<1>3. CASE \E e \in End : DoExcept(e)
  BY <1>3 DEF DoExcept
<1> QED
  BY <1>1, <1>2, <1>3 DEF Next

LEMMA StutterStreamInv == StreamInv /\ UNCHANGED vars => StreamInv'
  BY DEF StreamInv, Shape, Direction, vars

\* The bytes of each direction are framed as their messages were written, and
\* what has been received is a part of what was sent, from its beginning.
THEOREM StreamInvariance == Spec => []StreamInv
<1>1. ASSUME StreamInv, [Next]_vars PROVE StreamInv'
  <2>1. CASE Next
    BY <1>1, <2>1, Steps, WriteStreamInv, ReadStreamInv, DisposeStreamInv,
       ReceiveStreamInv, CloseStreamInv, SendStreamInv, SendFailsStreamInv, BreakStreamInv
  <2> QED
    BY <1>1, <2>1, StutterStreamInv
<1> QED
  BY <1>1, InitStreamInv, PTL DEF Spec

\* The bytes taken from a bufOut_ are, in order and each once, those given to
\* the peer, those under way and those do_write keeps, as long as nothing is
\* closed: whatever part of them send() takes each time.
THEOREM StreamIntactHolds == Spec => []StreamIntact
<1>1. StreamInv => StreamIntact
  <2> SUFFICES ASSUME StreamInv, Undisturbed, NEW e \in End
               PROVE  taken[e] = (given[Peer(e)] \o pipe[e]) \o writebuf_[e]
    BY DEF StreamIntact
  <2> QED
    BY DEF StreamInv, Direction, DirectionOK, Undisturbed
<1> QED
  BY <1>1, StreamInvariance, PTL

-----------------------------------------------------------------------------
(* The receiver: what put_data makes of the stream. *)

\* A bufIn_ from which no part of a message was dropped.
InBuffer ==
  [queue_ : Seq(Message), curTarget_ : Message \cup {NULL}, written_ : Int,
   toSkip_ : {0}, tmpSize_ : Nat \cup {NoSize}]

\* Of the messages of sizes W, the first m are complete: those read, of sizes
\* R, and those in the queue of b, where none has been refused.
Queued(b, R, W, off, m) ==
  /\ b \in InBuffer /\ R \in Seq(Nat)
  /\ m = Len(R) + Len(b.queue_) /\ m <= Len(W)
  /\ \A i \in 1 .. Len(R) : R[i] = W[i]
  /\ \A i \in 1 .. Len(b.queue_) : b.queue_[i].size_ = W[Len(R) + i]
  /\ b.written_ = off[m] - off[Len(R)] - 2 * Len(b.queue_)

\* What has become of the first n bytes when m messages are complete: nothing
\* more, or one byte of a length, or a length and part of the message.
AtPoint(b, W, off, m, n) ==
  \/ b.curTarget_ = NULL /\ b.tmpSize_ = NoSize /\ n = off[m]
  \/ /\ b.curTarget_ = NULL /\ m < Len(W)
     /\ b.tmpSize_ = HeaderOf(W[m + 1])[1] * Radix /\ n = off[m] + 1
  \/ /\ b.curTarget_ # NULL /\ m < Len(W) /\ b.tmpSize_ = NoSize
     /\ b.curTarget_.size_ = W[m + 1] /\ b.curTarget_.offset_ < W[m + 1]
     /\ n = off[m] + 2 + b.curTarget_.offset_

Parsed(b, R, W, off, n) == \E m \in Nat : Queued(b, R, W, off, m) /\ AtPoint(b, W, off, m, n)

\* The bytes d are those of the stream T that end with its N-th.
Window(d, T, N) ==
  /\ d \in Seq(Byte) /\ N \in Nat /\ Len(d) <= N
  /\ \A i \in 1 .. Len(d) : d[i] = T[N - Len(d) + i]

LEMMA WindowCut ==
  ASSUME NEW d, NEW T, NEW N, Window(d, T, N), NEW k \in 0 .. Len(d)
  PROVE  /\ Window(SubSeq(d, k + 1, Len(d)), T, N)
         /\ Len(SubSeq(d, k + 1, Len(d))) = Len(d) - k
         /\ Len(d) \in Nat
<1> DEFINE c == SubSeq(d, k + 1, Len(d))
<1>1. d \in Seq(Byte) /\ Len(d) \in Nat /\ N \in Nat /\ Len(d) <= N
  BY LenProperties DEF Window
<1>2. \A i \in k + 1 .. Len(d) : d[i] \in Byte
  BY <1>1, ElementOfSeq
<1>3. c \in Seq(Byte) /\ Len(c) = Len(d) - k
  BY <1>1, CutInTwo
<1>4. \A i \in 1 .. Len(d) - (k + 1) + 1 : c[i] = d[k + 1 + i - 1]
  <2>1. k + 1 \in Int /\ Len(d) \in Int
    BY <1>1
  <2> QED
    BY <1>2, <2>1, SubSeqProperties
<1> HIDE DEF c
<1>5. ASSUME NEW i \in 1 .. Len(c) PROVE c[i] = T[N - Len(c) + i]
  <2>1. i \in 1 .. Len(d) - (k + 1) + 1 /\ k + 1 + i - 1 = k + i /\ k + i \in 1 .. Len(d)
        /\ N - Len(d) + (k + i) = N - Len(c) + i
    BY <1>1, <1>3
  <2>2. c[i] = d[k + i]
    BY <1>4, <2>1
  <2>3. d[k + i] = T[N - Len(d) + (k + i)]
    BY <2>1 DEF Window
  <2> QED
    BY <2>1, <2>2, <2>3
<1>6. Len(c) <= N
  BY <1>1, <1>3
<1> QED
  BY <1>1, <1>3, <1>5, <1>6 DEF Window, c

\* The first N bytes of the stream T of messages of the sizes W are received.
StreamSoFar(W, off, T, N) ==
  /\ IsOffset(off, W) /\ \A i \in 1 .. Len(W) : W[i] <= MaxMsgSize
  /\ T \in Seq(Byte) /\ Headers(T, W, off) /\ Len(T) <= off[Len(W)]
  /\ N \in Nat /\ N <= Len(T)

\* b is so full that the next message does not fit.
Crowded(b, R, W, off) ==
  \E m \in Nat : Queued(b, R, W, off, m) /\ m < Len(W) /\ ~Fits(b, W[m + 1])

\* b waits for the rest of the m+1st message, of which it has n bytes or none.
Waiting(b, R, W, off, m) ==
  /\ Queued(b, R, W, off, m) /\ m < Len(W)
  /\ b.curTarget_ # NULL /\ b.tmpSize_ = NoSize
  /\ b.curTarget_.size_ = W[m + 1] /\ b.curTarget_.offset_ <= W[m + 1]

LEMMA QueuedTypes ==
  ASSUME NEW b, NEW R, NEW W, NEW off, NEW m, Queued(b, R, W, off, m), IsOffset(off, W)
  PROVE  /\ R \in Seq(Nat) /\ b.queue_ \in Seq(Message) /\ W \in Seq(Nat)
         /\ Len(R) \in Nat /\ Len(b.queue_) \in Nat /\ Len(W) \in Nat
         /\ m = Len(R) + Len(b.queue_) /\ m \in Nat /\ m <= Len(W)
         /\ \A i \in 1 .. Len(W) : W[i] \in Nat
         /\ \A i \in 0 .. Len(W) : off[i] \in Nat
         /\ m < Len(W) => off[m + 1] = off[m] + 2 + W[m + 1]
<1>1. R \in Seq(Nat) /\ b.queue_ \in Seq(Message) /\ W \in Seq(Nat)
  BY DEF Queued, InBuffer, IsOffset
<1>2. Len(R) \in Nat /\ Len(b.queue_) \in Nat /\ Len(W) \in Nat
  BY <1>1, LenProperties
<1>3. m = Len(R) + Len(b.queue_) /\ m \in Nat /\ m <= Len(W)
  BY <1>2 DEF Queued
<1>4. \A i \in 1 .. Len(W) : W[i] \in Nat
  BY <1>1, ElementOfSeq
<1>5. \A i \in 0 .. Len(W) : off[i] \in Nat
  BY DEF IsOffset
<1>6. m < Len(W) => off[m + 1] = off[m] + 2 + W[m + 1]
  <2> SUFFICES ASSUME m < Len(W) PROVE off[m + 1] = off[m] + 2 + W[m + 1]
    OBVIOUS
  <2>1. m + 1 \in 1 .. Len(W) /\ (m + 1) - 1 = m
    BY <1>2, <1>3
  <2> QED
    BY <2>1 DEF IsOffset
<1> QED
  BY <1>1, <1>2, <1>3, <1>4, <1>5, <1>6

\* A message that is complete goes to the end of the queue.
LEMMA QueuedMore ==
  ASSUME NEW b, NEW R, NEW W, NEW off, NEW m, Queued(b, R, W, off, m), IsOffset(off, W),
         m < Len(W), NEW f \in Message, f.size_ = W[m + 1], NEW c \in InBuffer,
         c.queue_ = Append(b.queue_, f), c.written_ = b.written_ + W[m + 1]
  PROVE  Queued(c, R, W, off, m + 1)
<1> DEFINE r == Len(R)
           k == Len(b.queue_)
<1>1. /\ R \in Seq(Nat) /\ b.queue_ \in Seq(Message)
      /\ r \in Nat /\ k \in Nat /\ Len(W) \in Nat /\ m = r + k /\ m \in Nat
      /\ \A i \in 1 .. Len(W) : W[i] \in Nat
      /\ \A i \in 0 .. Len(W) : off[i] \in Nat
      /\ off[m + 1] = off[m] + 2 + W[m + 1]
  BY QueuedTypes
<1>2. /\ Len(c.queue_) = k + 1 /\ c.queue_[k + 1] = f
      /\ \A i \in 1 .. k : c.queue_[i] = b.queue_[i]
  BY <1>1, AppendProperties
<1>3. /\ b.written_ = off[m] - off[r] - 2 * k
      /\ \A i \in 1 .. k : b.queue_[i].size_ = W[r + i]
      /\ \A i \in 1 .. r : R[i] = W[i]
  BY DEF Queued
<1> HIDE DEF r, k
<1>4. ASSUME NEW i \in 1 .. k + 1 PROVE c.queue_[i].size_ = W[r + i]
  <2>1. CASE i = k + 1
    <3>1. r + i = m + 1
      BY <1>1, <2>1
    <3> QED
      BY <1>2, <2>1, <3>1
  <2>2. CASE i \in 1 .. k
    BY <1>2, <1>3, <2>2
  <2>3. i = k + 1 \/ i \in 1 .. k
    BY <1>1
  <2> QED
    BY <2>1, <2>2, <2>3
<1>5. m + 1 = r + (k + 1) /\ m + 1 <= Len(W)
  BY <1>1
<1>6. c.written_ = off[m + 1] - off[r] - 2 * (k + 1)
  <2> DEFINE A == off[m]
             B == off[m + 1]
             C == off[r]
             w == W[m + 1]
  <2>1. m \in 0 .. Len(W) /\ r \in 0 .. Len(W) /\ m + 1 \in 1 .. Len(W)
    BY <1>1
  <2>2. A \in Nat /\ C \in Nat /\ w \in Nat /\ B = A + 2 + w /\ k \in Nat
    BY <1>1, <2>1
  <2>3. c.written_ = (A - C - 2 * k) + w
    BY <1>3
  <2> HIDE DEF A, B, C, w
  <2>4. c.written_ = B - C - 2 * (k + 1)
    BY <2>2, <2>3
  <2> QED
    BY <2>4 DEF B, C
<1> QED
  BY <1>1, <1>2, <1>3, <1>4, <1>5, <1>6 DEF Queued, r, k

\* Bytes of a message: they fill the target, which is queued when it is full.
LEMMA FillsTarget ==
  ASSUME NEW b, NEW R, NEW W, NEW off, NEW m, Waiting(b, R, W, off, m), IsOffset(off, W),
         NEW d, NEW T, NEW N, Window(d, T, N),
         N - Len(d) = off[m] + 2 + b.curTarget_.offset_
  PROVE  LET t == FillTarget(b, d)
         IN  /\ Window(t.rest, T, N) /\ Len(t.rest) \in Nat /\ Len(t.rest) <= Len(d)
             /\ b.curTarget_.offset_ < W[m + 1] /\ d # <<>> => Len(t.rest) < Len(d)
             /\ Parsed(t.buf, R, W, off, N - Len(t.rest))
<1> DEFINE target == b.curTarget_
           o      == target.offset_
           w      == W[m + 1]
           A      == off[m]
           toread == AtMost(target.size_ - o, Len(d))
           body   == CopyIn(target.body, d, toread)
           filled == [size_ |-> target.size_, offset_ |-> o + toread, body |-> body]
           whole  == [filled EXCEPT !.offset_ = 0]
           queued == [b EXCEPT !.queue_ = Append(@, whole),
                               !.written_ = @ + filled.size_,
                               !.curTarget_ = NULL]
           waits  == [b EXCEPT !.curTarget_ = filled]
           rest   == SubSeq(d, toread + 1, Len(d))
<1>1. /\ target \in Message /\ target # NULL /\ target.size_ = w /\ o \in Nat /\ o <= w
      /\ m < Len(W) /\ b.tmpSize_ = NoSize /\ Queued(b, R, W, off, m)
  BY DEF Waiting, Queued, InBuffer, Message
<1>2. d \in Seq(Byte) /\ Len(d) \in Nat /\ N \in Nat /\ N - Len(d) = A + 2 + o
  BY LenProperties DEF Window
<1>3. /\ m \in Nat /\ Len(W) \in Nat /\ A \in Nat /\ w \in Nat
      /\ off[m + 1] = A + 2 + w
  <2>1. /\ m \in Nat /\ Len(W) \in Nat /\ m <= Len(W)
        /\ \A i \in 1 .. Len(W) : W[i] \in Nat
        /\ \A i \in 0 .. Len(W) : off[i] \in Nat
        /\ m < Len(W) => off[m + 1] = off[m] + 2 + W[m + 1]
    BY <1>1, QueuedTypes
  <2>2. m \in 0 .. Len(W) /\ m + 1 \in 1 .. Len(W)
    BY <1>1, <2>1
  <2> QED
    BY <1>1, <2>1, <2>2
<1>4. FillTarget(b, d)
        = [buf  |-> IF filled.offset_ = filled.size_ THEN queued ELSE waits,
           rest |-> rest]
  BY DEF FillTarget
<1> HIDE DEF target, o, w, A
<1>5. /\ toread \in 0 .. Len(d) /\ o + toread <= w
      /\ o < w /\ Len(d) > 0 => toread > 0
      /\ o + toread = w \/ toread = Len(d)
  BY <1>1, <1>2, <1>3 DEF AtMost
<1>6. body \in Seq(Cell)
  <2>1. target.body \in Seq(Cell)
    BY <1>1 DEF Message
  <2>2. ASSUME NEW i \in 1 .. Len(target.body)
        PROVE  (IF i <= toread THEN d[i] ELSE target.body[i]) \in Cell
    BY <1>2, <1>5, <2>1, ElementOfSeq, LenProperties DEF Cell
  <2>3. body = [i \in 1 .. Len(target.body) |->
                   IF i <= toread THEN d[i] ELSE target.body[i]]
    BY <2>1 DEF CopyIn
  <2> HIDE DEF toread, body
  <2> QED
    BY <2>1, <2>2, <2>3, SMT
<1> HIDE DEF toread, body
<1>7. /\ filled \in Message /\ filled.size_ = w /\ filled.offset_ = o + toread
      /\ whole \in Message /\ whole.size_ = w
  <2>1. o + toread \in Nat
    BY <1>1, <1>5
  <2> QED
    BY <1>1, <1>3, <1>6, <2>1 DEF Message
<1> HIDE DEF filled, whole
<1>8. /\ Window(rest, T, N) /\ Len(rest) = Len(d) - toread
  BY <1>5, WindowCut
<1>9. /\ queued \in InBuffer /\ queued.queue_ = Append(b.queue_, whole)
      /\ queued.written_ = b.written_ + w /\ queued.curTarget_ = NULL
      /\ queued.tmpSize_ = b.tmpSize_
      /\ waits \in InBuffer /\ waits.queue_ = b.queue_ /\ waits.written_ = b.written_
      /\ waits.curTarget_ = filled /\ waits.tmpSize_ = b.tmpSize_
  <2>1. b \in InBuffer
    BY <1>1 DEF Queued
  <2>2. Append(b.queue_, whole) \in Seq(Message)
    BY <1>7, <2>1, AppendProperties DEF InBuffer
  <2>3. b.written_ + w \in Int /\ filled.size_ = w /\ filled \in Message
    BY <1>3, <1>7, <2>1 DEF InBuffer
  <2> QED
    BY <2>1, <2>2, <2>3 DEF InBuffer
<1> HIDE DEF queued, waits, rest
<1>10. /\ Len(rest) \in Nat /\ Len(rest) <= Len(d)
       /\ o < w /\ d # <<>> => Len(rest) < Len(d)
       /\ N - Len(rest) = A + 2 + o + toread
  <2>1. d # <<>> => Len(d) > 0
    BY <1>2, EmptySeq
  <2> DEFINE x == Len(rest)
             y == Len(d)
  <2>2. x = y - toread /\ y \in Nat /\ toread \in 0 .. y
    BY <1>2, <1>5, <1>8
  <2> HIDE DEF x, y
  <2>3. x \in Nat /\ x <= y /\ (toread > 0 => x < y)
    BY <2>2
  <2>4. N - y = A + 2 + o
    BY <1>2 DEF y
  <2>5. N - x = A + 2 + o + toread
    <3>1. /\ N \in Nat /\ A \in Nat /\ o \in Nat /\ y \in Nat /\ toread \in Nat
      BY <1>1, <1>2, <1>3, <2>2
    <3> QED
      BY <2>2, <2>4, <3>1
  <2> QED
    BY <1>5, <2>1, <2>3, <2>5 DEF x, y
<1>11. CASE o + toread = w
  <2>1. FillTarget(b, d) = [buf |-> queued, rest |-> rest]
    BY <1>4, <1>7, <1>11
  <2>2. Queued(queued, R, W, off, m + 1)
    BY <1>1, <1>7, <1>9, QueuedMore DEF w
  <2>3. N - Len(rest) = off[m + 1]
    BY <1>1, <1>3, <1>5, <1>10, <1>11
  <2>4. AtPoint(queued, W, off, m + 1, N - Len(rest))
    BY <1>1, <1>9, <2>3 DEF AtPoint
  <2>5. m + 1 \in Nat
    BY <1>3
  <2>6. Parsed(queued, R, W, off, N - Len(rest))
    BY <2>2, <2>4, <2>5 DEF Parsed
  <2> QED
    BY <1>8, <1>10, <2>1, <2>6 DEF o, w, target
<1>12. CASE o + toread # w
  <2>1. FillTarget(b, d) = [buf |-> waits, rest |-> rest]
    BY <1>4, <1>7, <1>12
  <2>2. Queued(waits, R, W, off, m)
    BY <1>1, <1>9 DEF Queued
  <2>3. filled.offset_ < w /\ N - Len(rest) = A + 2 + filled.offset_
    <3>1. filled.offset_ = o + toread /\ o + toread < w
      BY <1>1, <1>3, <1>5, <1>7, <1>12
    <3>2. A + 2 + o + toread = A + 2 + (o + toread)
      BY <1>1, <1>3, <1>5
    <3> QED
      BY <1>10, <3>1, <3>2
  <2>4. filled # NULL
    BY <1>7, BufferAssumption
  <2>5. AtPoint(waits, W, off, m, N - Len(rest))
    BY <1>1, <1>7, <1>9, <2>3, <2>4 DEF AtPoint, w, A
  <2>6. Parsed(waits, R, W, off, N - Len(rest))
    BY <1>3, <2>2, <2>5 DEF Parsed
  <2> QED
    BY <1>8, <1>10, <2>1, <2>6 DEF o, w, target
<1> QED
  BY <1>11, <1>12

\* A length is complete: there is room for the message.
LEMMA StartsMessage ==
  ASSUME NEW b, NEW R, NEW W, NEW off, NEW m, Queued(b, R, W, off, m), IsOffset(off, W),
         m < Len(W), b.curTarget_ = NULL, Fits(b, W[m + 1]),
         NEW d, NEW T, NEW N, Window(d, T, N), N - Len(d) = off[m] + 2
  PROVE  LET t == UseBytes(StartMessage(b, W[m + 1]), d)
         IN  /\ Window(t.rest, T, N) /\ Len(t.rest) \in Nat /\ Len(t.rest) <= Len(d)
             /\ Parsed(t.buf, R, W, off, N - Len(t.rest))
<1> DEFINE n == W[m + 1]
           f == [size_ |-> n, offset_ |-> 0, body |-> [i \in 1 .. n |-> Junk]]
           c == StartMessage(b, n)
<1>1. n \in Nat /\ b \in InBuffer /\ off[m] \in Nat
  <2>1. /\ \A i \in 1 .. Len(W) : W[i] \in Nat
        /\ \A i \in 0 .. Len(W) : off[i] \in Nat
        /\ m \in Nat /\ Len(W) \in Nat
    BY QueuedTypes
  <2>2. m + 1 \in 1 .. Len(W) /\ m \in 0 .. Len(W)
    BY <2>1
  <2> QED
    BY <2>1, <2>2 DEF Queued
<1>2. NewMessage(b, n) = f
  BY DEF NewMessage
<1> HIDE DEF n
<1>3. f \in Message /\ f.size_ = n /\ f.offset_ = 0
  <2>1. Junk \in Cell
    BY DEF Cell
  <2>2. [i \in 1 .. n |-> Junk] \in Seq(Cell)
    BY <1>1, <2>1, SMT
  <2> QED
    BY <1>1, <2>2 DEF Message
<1> HIDE DEF f
<1>4. f # NULL
  BY <1>3, BufferAssumption
<1>5. c = [b EXCEPT !.curTarget_ = f, !.toSkip_ = b.toSkip_, !.tmpSize_ = NoSize]
  BY <1>2, <1>4 DEF StartMessage
<1>6. /\ c \in InBuffer /\ c.queue_ = b.queue_ /\ c.written_ = b.written_
      /\ c.curTarget_ = f /\ c.tmpSize_ = NoSize
  BY <1>1, <1>3, <1>5 DEF InBuffer
<1> HIDE DEF c
<1>7. Waiting(c, R, W, off, m)
  <2>1. Queued(c, R, W, off, m)
    BY <1>6 DEF Queued
  <2>2. c.curTarget_.offset_ <= n
    BY <1>1, <1>3, <1>6
  <2> QED
    BY <1>3, <1>4, <1>6, <2>1, <2>2 DEF Waiting, n
<1>8. N - Len(d) = off[m] + 2 + c.curTarget_.offset_
  BY <1>1, <1>3, <1>6
<1>9. UseBytes(c, d) = FillTarget(c, d)
  BY <1>4, <1>6 DEF UseBytes
<1> QED
  BY <1>7, <1>8, <1>9, FillsTarget DEF c, n

LEMMA RoomForIs ==
  ASSUME NEW b, NEW n \in Nat
  PROVE  NewMessage(b, n) = NULL <=> ~Fits(b, n)
<1> DEFINE f == [size_ |-> n, offset_ |-> 0, body |-> [i \in 1 .. n |-> Junk]]
<1>1. f \in Message
  <2>1. Junk \in Cell
    BY DEF Cell
  <2>2. [i \in 1 .. n |-> Junk] \in Seq(Cell)
    BY <2>1, SMT
  <2> QED
    BY <2>2 DEF Message
<1>2. NewMessage(b, n) = IF Fits(b, n) THEN f ELSE NULL
  BY DEF NewMessage
<1> HIDE DEF f
<1>3. f # NULL
  BY <1>1, BufferAssumption
<1> QED
  BY <1>2, <1>3

\* A turn of put_data parses what it uses; and it refuses a message only if the
\* next one does not fit.
LEMMA PutDataTurnParses ==
  ASSUME NEW W, NEW off, NEW T, NEW R, NEW N, StreamSoFar(W, off, T, N),
         NEW b, NEW d, Window(d, T, N), d # <<>>, Parsed(b, R, W, off, N - Len(d))
  PROVE  LET t == PutDataTurn(b, d)
         IN  IF Refuses(b, d) THEN Crowded(b, R, W, off)
             ELSE /\ Window(t.rest, T, N) /\ Len(t.rest) \in Nat /\ Len(t.rest) < Len(d)
                  /\ Parsed(t.buf, R, W, off, N - Len(t.rest))
<1> DEFINE pos == N - Len(d)
<1>1. PICK m \in Nat : Queued(b, R, W, off, m) /\ AtPoint(b, W, off, m, pos)
  BY DEF Parsed
<1>2. /\ IsOffset(off, W) /\ Headers(T, W, off) /\ Len(T) <= off[Len(W)]
      /\ N \in Nat /\ N <= Len(T)
  BY DEF StreamSoFar
<1>3. /\ d \in Seq(Byte) /\ Len(d) \in Nat /\ Len(d) >= 1 /\ Len(d) <= N
      /\ d[1] \in Byte
  BY EmptySeq, LenProperties, ElementOfSeq DEF Window
<1>4. /\ Len(W) \in Nat /\ m <= Len(W)
      /\ \A i \in 1 .. Len(W) : W[i] \in Nat
      /\ \A i \in 0 .. Len(W) : off[i] \in Nat
  BY <1>1, <1>2, QueuedTypes
<1>5. m \in 0 .. Len(W) /\ Len(W) \in 0 .. Len(W)
  BY <1>4
<1>6. off[m] \in Nat /\ off[Len(W)] \in Nat
  BY <1>4, <1>5
<1>7. \A i \in 1 .. Len(d) : d[i] = T[pos + i]
  BY DEF Window
<1> DEFINE A == off[m]
<1>8. pos \in Nat /\ pos < off[Len(W)] /\ pos + Len(d) = N
  <2> DEFINE x == Len(d)
             y == Len(T)
             z == off[Len(W)]
  <2>1. x \in Nat /\ x >= 1 /\ x <= N /\ N <= y /\ y <= z /\ N \in Nat /\ z \in Nat
        /\ y \in Nat
    BY <1>2, <1>3, <1>6
  <2> HIDE DEF x, y, z
  <2>2. N - x < z /\ N - x \in Nat /\ (N - x) + x = N
    BY <2>1
  <2> QED
    BY <2>2 DEF x, z
<1>9. m < Len(W) =>
        /\ A + 1 <= Len(T) => T[A + 1] = HeaderOf(W[m + 1])[1]
        /\ A + 2 <= Len(T) => T[A + 2] = HeaderOf(W[m + 1])[2]
  <2> SUFFICES ASSUME m < Len(W)
               PROVE  /\ A + 1 <= Len(T) => T[A + 1] = HeaderOf(W[m + 1])[1]
                      /\ A + 2 <= Len(T) => T[A + 2] = HeaderOf(W[m + 1])[2]
    OBVIOUS
  <2>1. m + 1 \in 1 .. Len(W) /\ (m + 1) - 1 = m
    BY <1>4
  <2> QED
    BY <1>2, <2>1 DEF Headers
<1>10. m < Len(W) => W[m + 1] \in Nat /\ HeaderOf(W[m + 1])[1] * Radix + HeaderOf(W[m + 1])[2] = W[m + 1]
  <2> SUFFICES ASSUME m < Len(W)
               PROVE  W[m + 1] \in Nat
                      /\ HeaderOf(W[m + 1])[1] * Radix + HeaderOf(W[m + 1])[2] = W[m + 1]
    OBVIOUS
  <2>1. m + 1 \in 1 .. Len(W)
    BY <1>4
  <2>2. W[m + 1] \in Nat
    BY <1>4, <2>1
  <2> QED
    BY <2>2, SizeFromHeader
<1> DEFINE t == PutDataTurn(b, d)
<1> HIDE DEF A, pos
<1>11. CASE b.curTarget_ = NULL /\ b.tmpSize_ = NoSize /\ pos = A
  <2>1. m < Len(W)
    <3>1. m # Len(W)
      BY <1>4, <1>6, <1>8, <1>11 DEF A
    <3> QED
      BY <1>4, <3>1
  <2>2. pos + 1 <= N
    BY <1>3, <1>8
  <2>3. d[1] = HeaderOf(W[m + 1])[1]
    <3>1. 1 \in 1 .. Len(d)
      BY <1>3
    <3>2. d[1] = T[A + 1]
      BY <1>7, <1>11, <3>1
    <3>3. A + 1 <= Len(T)
      <4>1. Len(T) \in Nat
        BY LenProperties DEF StreamSoFar
      <4> QED
        BY <1>2, <1>8, <1>11, <2>2, <4>1
    <3> QED
      BY <1>9, <2>1, <3>2, <3>3
  <2>4. CASE Len(d) = 1
    <3> DEFINE c == [b EXCEPT !.tmpSize_ = HalfLength(d[1])]
    <3>1. t = [buf |-> c, rest |-> <<>>]
      BY <1>11, <2>4 DEF PutDataTurn
    <3>2. b \in InBuffer /\ d[1] * Radix \in Nat
      <4>1. b \in InBuffer
        BY ONLY <1>1 DEF Queued
      <4>2. d[1] \in Byte
        BY ONLY <1>3, ElementOfSeq
      <4>3. d[1] \in Nat /\ Radix \in Nat
        BY ONLY <4>2, BufferAssumption DEF Byte
      <4> QED
        BY ONLY <4>1, <4>3
    <3>3. /\ c \in InBuffer /\ c.queue_ = b.queue_ /\ c.written_ = b.written_
          /\ c.curTarget_ = b.curTarget_ /\ c.tmpSize_ = HeaderOf(W[m + 1])[1] * Radix
      BY <2>3, <3>2 DEF InBuffer, HalfLength
    <3> HIDE DEF c
    <3>4. Queued(c, R, W, off, m)
      BY <1>1, <3>3 DEF Queued
    <3>5. Len(<<>>) = 0 /\ <<>> \in Seq(Byte)
      BY EmptySeq
    <3>6. N - Len(<<>>) = A + 1
      BY <1>3, <1>8, <1>11, <2>4, <3>5
    <3>7. AtPoint(c, W, off, m, N - Len(<<>>))
      BY <1>11, <2>1, <3>3, <3>6 DEF AtPoint, A
    <3>8. Parsed(c, R, W, off, N - Len(<<>>))
      BY <3>4, <3>7 DEF Parsed
    <3>9. Window(<<>>, T, N)
      BY <1>2, <3>5 DEF Window
    <3>10. ~Refuses(b, d)
      BY <1>11, <2>4 DEF Refuses
    <3> QED
      BY <2>4, <3>1, <3>5, <3>8, <3>9, <3>10
  <2>5. CASE Len(d) # 1
    <3> DEFINE n == d[1] * Radix + d[2]
               rest == SubSeq(d, 3, Len(d))
    <3>1. t = UseBytes(StartMessage(b, n), rest)
      BY <1>11, <2>5 DEF PutDataTurn
    <3>2. 2 \in 0 .. Len(d) /\ 2 \in 1 .. Len(d)
      <4>1. \A x \in Nat : x >= 1 /\ x # 1 => 2 \in 0 .. x /\ 2 \in 1 .. x
        OBVIOUS
      <4> QED
        BY <1>3, <2>5, <4>1
    <3>3. A + 2 <= N /\ A + 2 <= Len(T)
      <4>1. Len(T) \in Nat
        BY LenProperties DEF StreamSoFar
      <4>2. pos + 2 <= N
        BY <1>3, <1>8, <3>2
      <4> QED
        BY <1>2, <1>8, <1>11, <4>1, <4>2
    <3>4. d[2] = HeaderOf(W[m + 1])[2]
      <4>1. d[2] = T[A + 2]
        BY <1>7, <1>11, <3>2
      <4> QED
        BY <1>9, <2>1, <3>3, <4>1
    <3>5. n = W[m + 1]
      BY <1>10, <2>1, <2>3, <3>4
    <3>6. Window(rest, T, N) /\ Len(rest) = Len(d) - 2
      <4>1. 2 + 1 = 3
        OBVIOUS
      <4> QED
        BY <3>2, <4>1, WindowCut
    <3>7. Refuses(b, d) <=> ~Fits(b, W[m + 1])
      <4>1. Len(d) > 1
        <5>1. \A x \in Nat : 2 \in 1 .. x => x > 1
          OBVIOUS
        <5> QED
          BY <1>3, <3>2, <5>1
      <4>2. Refuses(b, d) <=> NewMessage(b, n) = NULL
        BY <1>11, <4>1 DEF Refuses, NextLength
      <4> QED
        BY <1>10, <2>1, <3>5, <4>2, RoomForIs
    <3> HIDE DEF n, rest
    <3>8. N - Len(rest) = A + 2
      BY <1>3, <1>8, <1>11, <3>6
    <3>9. CASE ~Fits(b, W[m + 1])
      BY <1>1, <2>1, <3>7, <3>9 DEF Crowded
    <3>10. CASE Fits(b, W[m + 1])
      <4> HIDE DEF t
      <4>1. b.curTarget_ = NULL
        BY <1>11
      <4>2. t = UseBytes(StartMessage(b, W[m + 1]), rest)
        BY <3>1, <3>5
      <4>3. N - Len(rest) = off[m] + 2
        BY <3>8 DEF A
      <4>4. /\ Window(t.rest, T, N) /\ Len(t.rest) \in Nat /\ Len(t.rest) <= Len(rest)
            /\ Parsed(t.buf, R, W, off, N - Len(t.rest))
        BY <1>1, <1>2, <2>1, <3>6, <3>10, <4>1, <4>2, <4>3, StartsMessage
      <4>5. Len(t.rest) < Len(d)
        BY <1>3, <3>6, <4>4
      <4> QED
        BY <3>7, <3>10, <4>4, <4>5 DEF t
    <3> QED
      BY <3>9, <3>10
  <2> QED
    BY <2>4, <2>5
<1>12. CASE /\ b.curTarget_ = NULL /\ m < Len(W)
            /\ b.tmpSize_ = HeaderOf(W[m + 1])[1] * Radix /\ pos = A + 1
  <2> DEFINE n == b.tmpSize_ + d[1]
             rest == Tail(d)
  <2>1. b.tmpSize_ # NoSize
    <3>1. HeaderOf(W[m + 1])[1] * Radix \in Nat
      <4>1. HeaderOf(W[m + 1])[1] \in Nat
        BY <1>10, <1>12, HeaderIsNat
      <4> QED
        BY <4>1, BufferAssumption
    <3> QED
      BY <1>12, <3>1 DEF NoSize
  <2>2. t = UseBytes(StartMessage(b, n), rest)
    BY <2>1 DEF PutDataTurn
  <2>3. 1 \in 0 .. Len(d) /\ 1 \in 1 .. Len(d)
    BY <1>3
  <2>4. A + 2 <= N /\ A + 2 <= Len(T) /\ pos + 1 = A + 2
    <3>1. Len(T) \in Nat
      BY LenProperties DEF StreamSoFar
    <3>2. pos + 1 <= N /\ pos + 1 = A + 2
      BY <1>3, <1>6, <1>8, <1>12 DEF A
    <3> QED
      BY <1>2, <1>8, <3>1, <3>2
  <2>5. d[1] = HeaderOf(W[m + 1])[2]
    <3>1. d[1] = T[A + 2]
      BY <1>7, <2>3, <2>4
    <3> QED
      BY <1>9, <1>12, <2>4, <3>1
  <2>6. n = W[m + 1]
    BY <1>10, <1>12, <2>5
  <2>7. Window(rest, T, N) /\ Len(rest) = Len(d) - 1
    <3>1. rest = SubSeq(d, 1 + 1, Len(d))
      BY <1>3, TailIsSubSeq, EmptySeq
    <3> HIDE DEF rest
    <3> QED
      BY <2>3, <3>1, WindowCut
  <2>8. Refuses(b, d) <=> ~Fits(b, W[m + 1])
    <3>1. Refuses(b, d) <=> NewMessage(b, n) = NULL
      BY <2>1 DEF Refuses, NextLength
    <3> QED
      BY <1>10, <1>12, <2>6, <3>1, RoomForIs
  <2> HIDE DEF n, rest
  <2>9. N - Len(rest) = A + 2
    BY <1>3, <1>8, <1>12, <2>4, <2>7
  <2>10. CASE ~Fits(b, W[m + 1])
    BY <1>1, <1>12, <2>8, <2>10 DEF Crowded
  <2>11. CASE Fits(b, W[m + 1])
    <3> HIDE DEF t
    <3>1. b.curTarget_ = NULL /\ m < Len(W)
      BY <1>12
    <3>2. t = UseBytes(StartMessage(b, W[m + 1]), rest)
      BY <2>2, <2>6
    <3>3. N - Len(rest) = off[m] + 2
      BY <2>9 DEF A
    <3>4. /\ Window(t.rest, T, N) /\ Len(t.rest) \in Nat /\ Len(t.rest) <= Len(rest)
          /\ Parsed(t.buf, R, W, off, N - Len(t.rest))
      BY <1>1, <1>2, <2>7, <2>11, <3>1, <3>2, <3>3, StartsMessage
    <3>5. Len(t.rest) < Len(d)
      BY <1>3, <2>7, <3>4
    <3> QED
      BY <2>8, <2>11, <3>4, <3>5 DEF t
  <2> QED
    BY <2>10, <2>11
<1>13. CASE /\ b.curTarget_ # NULL /\ m < Len(W) /\ b.tmpSize_ = NoSize
            /\ b.curTarget_.size_ = W[m + 1] /\ b.curTarget_.offset_ < W[m + 1]
            /\ pos = A + 2 + b.curTarget_.offset_
  <2>1. t = FillTarget(b, d)
    BY <1>13 DEF PutDataTurn
  <2>2. b.curTarget_.offset_ \in Nat
    BY <1>1, <1>13 DEF Queued, InBuffer, Message
  <2>3. Waiting(b, R, W, off, m)
    BY <1>1, <1>10, <1>13, <2>2 DEF Waiting
  <2>4. N - Len(d) = off[m] + 2 + b.curTarget_.offset_
    BY <1>13 DEF pos, A
  <2> HIDE DEF t
  <2>5. /\ Window(t.rest, T, N) /\ Len(t.rest) \in Nat
        /\ b.curTarget_.offset_ < W[m + 1] /\ d # <<>> => Len(t.rest) < Len(d)
        /\ Parsed(t.buf, R, W, off, N - Len(t.rest))
    BY <1>2, <2>1, <2>3, <2>4, FillsTarget
  <2>6. ~Refuses(b, d)
    BY <1>13 DEF Refuses
  <2> QED
    BY <1>13, <2>5, <2>6 DEF t
<1> QED
  BY <1>1, <1>11, <1>12, <1>13 DEF AtPoint, A

\* One step of the recursion in PutDataTurns.
PutDataStep(before) ==
  IF before.rest = <<>> THEN before ELSE PutDataTurn(before.buf, before.rest)

LEMMA PutDataTurnsAre ==
  ASSUME NEW b, NEW d, Len(d) \in Nat, NEW turn, turn = PutDataTurns(b, d)
  PROVE  /\ turn[0] = [buf |-> b, rest |-> d]
         /\ \A k \in 1 .. Len(d) : turn[k] = PutDataStep(turn[k - 1])
<1> DEFINE n == Len(d)
           x == [buf |-> b, rest |-> d]
           IsTurn(f, m) == f = [k \in 0 .. m |-> IF k = 0 THEN x ELSE PutDataStep(f[k - 1])]
           P == {m \in Nat : \E f : IsTurn(f, m)}
<1>1. n \in Nat
  OBVIOUS
<1>2. turn = CHOOSE f : IsTurn(f, n)
  BY DEF PutDataTurns, PutDataStep
<1> HIDE DEF x, n
<1>3. 0 \in P
  <2>1. IsTurn([k \in 0 .. 0 |-> x], 0)
    OBVIOUS
  <2> QED
    BY <2>1
<1>4. ASSUME NEW m \in Nat, m \in P PROVE m + 1 \in P
  <2>1. PICK f : IsTurn(f, m)
    BY <1>4
  <2> DEFINE g == [k \in 0 .. m + 1 |-> IF k = m + 1 THEN PutDataStep(f[m]) ELSE f[k]]
  <2>2. ASSUME NEW k \in 0 .. m + 1
        PROVE  g[k] = IF k = 0 THEN x ELSE PutDataStep(g[k - 1])
    <3>1. CASE k = 0
      <4>1. g[k] = f[0] /\ 0 \in 0 .. m
        BY <3>1
      <4>2. f[0] = x
        BY <2>1, <4>1
      <4> QED
        BY <3>1, <4>1, <4>2
    <3>2. CASE k = m + 1
      <4>1. k - 1 = m /\ k # 0 /\ k - 1 \in 0 .. m + 1 /\ k - 1 # m + 1
        BY <3>2
      <4>2. g[k] = PutDataStep(f[m]) /\ g[k - 1] = f[m]
        BY <3>2, <4>1
      <4> QED
        BY <4>1, <4>2
    <3>3. CASE k \in 1 .. m
      <4>1. k \in 0 .. m /\ k # 0 /\ k # m + 1 /\ k - 1 \in 0 .. m + 1 /\ k - 1 # m + 1
        BY <3>3
      <4>2. g[k] = f[k] /\ g[k - 1] = f[k - 1]
        BY <4>1
      <4>3. f[k] = PutDataStep(f[k - 1])
        BY <2>1, <4>1
      <4> QED
        BY <4>1, <4>2, <4>3
    <3> QED
      BY <3>1, <3>2, <3>3
  <2>3. IsTurn(g, m + 1)
    <3>1. g = [k \in 0 .. m + 1 |-> g[k]]
      OBVIOUS
    <3> HIDE DEF g
    <3> QED
      BY <2>2, <3>1
  <2> HIDE DEF g, IsTurn
  <2> QED
    BY <2>3
<1>5. \E f : IsTurn(f, n)
  <2> HIDE DEF P
  <2>1. n \in P
    BY <1>1, <1>3, <1>4, Induction
  <2> QED
    BY <2>1 DEF P
<1>6. IsTurn(turn, n)
  <2> HIDE DEF IsTurn
  <2> QED
    BY <1>2, <1>5
<1>7. 0 \in 0 .. n /\ \A k \in 1 .. n : k \in 0 .. n /\ k # 0
  BY <1>1
<1> QED
  BY <1>6, <1>7 DEF x, n

\* What is true between two turns of put_data.
Partly(W, off, T, R, N) ==
  {s \in [buf : InBuffer, rest : Seq(Byte)] :
     Window(s.rest, T, N) /\ Parsed(s.buf, R, W, off, N - Len(s.rest))}

LEMMA PutDataStepStays ==
  ASSUME NEW W, NEW off, NEW T, NEW R, NEW N, StreamSoFar(W, off, T, N),
         NEW s \in Partly(W, off, T, R, N)
  PROVE  IF Refuses(s.buf, s.rest) THEN Crowded(s.buf, R, W, off)
         ELSE /\ PutDataStep(s) \in Partly(W, off, T, R, N)
              /\ s.rest # <<>> => Len(PutDataStep(s).rest) < Len(s.rest)
              /\ Len(s.rest) \in Nat /\ Len(PutDataStep(s).rest) \in Nat
<1>1. /\ s.buf \in InBuffer /\ s.rest \in Seq(Byte) /\ Len(s.rest) \in Nat
      /\ Window(s.rest, T, N) /\ Parsed(s.buf, R, W, off, N - Len(s.rest))
  BY LenProperties DEF Partly
<1>2. CASE s.rest = <<>>
  BY <1>1, <1>2 DEF PutDataStep, Refuses
<1>3. CASE s.rest # <<>> /\ Refuses(s.buf, s.rest)
  BY <1>1, <1>3, PutDataTurnParses
<1>4. CASE s.rest # <<>> /\ ~Refuses(s.buf, s.rest)
  <2> DEFINE t == PutDataTurn(s.buf, s.rest)
  <2>1. PutDataStep(s) = t
    BY <1>4 DEF PutDataStep
  <2>2. \E x, y : t = [buf |-> x, rest |-> y]
    BY ONLY Zenon DEF PutDataTurn, UseBytes, SkipBytes, FillTarget, t
  <2> HIDE DEF t
  <2>3. /\ Window(t.rest, T, N) /\ Len(t.rest) \in Nat /\ Len(t.rest) < Len(s.rest)
        /\ Parsed(t.buf, R, W, off, N - Len(t.rest))
    BY <1>1, <1>4, PutDataTurnParses DEF t
  <2>4. t.rest \in Seq(Byte) /\ t.buf \in InBuffer
    BY <2>3 DEF Window, Parsed, Queued
  <2>5. t \in [buf : InBuffer, rest : Seq(Byte)]
    BY <2>2, <2>4
  <2> QED
    BY <1>1, <1>4, <2>1, <2>3, <2>5 DEF Partly
<1> QED
  BY <1>2, <1>3, <1>4

\* As long as no turn has refused a message, each has parsed what it used.
LEMMA PutDataTurnsParse ==
  ASSUME NEW W, NEW off, NEW T, NEW R, NEW N, StreamSoFar(W, off, T, N),
         NEW b, NEW d, Window(d, T, N), Parsed(b, R, W, off, N - Len(d)),
         NEW turn, turn = PutDataTurns(b, d), NEW j \in 0 .. Len(d),
         \A k \in 1 .. j : ~Refuses(turn[k - 1].buf, turn[k - 1].rest)
  PROVE  turn[j] \in Partly(W, off, T, R, N) /\ Len(turn[j].rest) <= Len(d) - j
<1> DEFINE S == Partly(W, off, T, R, N)
           n == Len(d)
           P == {k \in Nat : k <= j => turn[k] \in S /\ Len(turn[k].rest) <= n - k}
<1>1. d \in Seq(Byte) /\ n \in Nat /\ b \in InBuffer /\ j \in Nat /\ j <= n
  BY LenProperties DEF Window, Parsed, Queued
<1>2. [buf |-> b, rest |-> d] \in S
  BY <1>1 DEF Partly
<1>3. /\ turn[0] = [buf |-> b, rest |-> d]
      /\ \A k \in 1 .. n : turn[k] = PutDataStep(turn[k - 1])
  BY <1>1, PutDataTurnsAre
<1> HIDE DEF S
<1>4. 0 \in P
  <2>1. turn[0] \in S /\ turn[0].rest = d
    BY <1>2, <1>3
  <2> QED
    BY <1>1, <2>1
<1>5. ASSUME NEW k \in Nat, k \in P PROVE k + 1 \in P
  <2> SUFFICES ASSUME k + 1 <= j
               PROVE  turn[k + 1] \in S /\ Len(turn[k + 1].rest) <= n - (k + 1)
    OBVIOUS
  <2> HIDE DEF n
  <2>1. turn[k] \in S /\ Len(turn[k].rest) <= n - k
    BY <1>1, <1>5
  <2>2. k + 1 \in 1 .. j /\ k + 1 \in 1 .. n /\ (k + 1) - 1 = k
    BY <1>1
  <2>3. turn[k + 1] = PutDataStep(turn[k]) /\ ~Refuses(turn[k].buf, turn[k].rest)
    BY <1>3, <2>2 DEF n
  <2>4. /\ PutDataStep(turn[k]) \in S
        /\ turn[k].rest # <<>> => Len(PutDataStep(turn[k]).rest) < Len(turn[k].rest)
        /\ Len(turn[k].rest) \in Nat /\ Len(PutDataStep(turn[k]).rest) \in Nat
    BY <2>1, <2>3, PutDataStepStays DEF S
  <2>5. CASE turn[k].rest = <<>>
    <3>1. PutDataStep(turn[k]).rest = <<>> /\ Len(<<>>) = 0
      BY <2>5, EmptySeq DEF PutDataStep
    <3>2. 0 <= n - (k + 1)
      BY <1>1, <2>2
    <3> QED
      BY <2>3, <2>4, <3>1, <3>2
  <2>6. CASE turn[k].rest # <<>>
    <3> DEFINE i == Len(turn[k].rest)
               l == Len(PutDataStep(turn[k]).rest)
    <3>1. i \in Nat /\ l \in Nat /\ l < i /\ i <= n - k
      BY <2>1, <2>4, <2>6
    <3> HIDE DEF i, l
    <3>2. l <= n - (k + 1)
      BY <1>1, <3>1
    <3> QED
      BY <2>3, <2>4, <3>2 DEF l
  <2> QED
    BY <2>5, <2>6
<1> HIDE DEF P, n
<1>6. j \in P
  BY <1>1, <1>4, <1>5, Induction
<1> QED
  BY <1>1, <1>6 DEF P, S, n

\* A call of put_data uses all its bytes and makes of the stream the messages it
\* was made of, unless it refuses one; and then bufIn_ was full.
THEOREM PutDataParses ==
  ASSUME NEW W, NEW off, NEW T, NEW R, NEW N, StreamSoFar(W, off, T, N),
         NEW b, NEW d, Window(d, T, N), Parsed(b, R, W, off, N - Len(d))
  PROVE  IF Drops(b, d) THEN \E c : Crowded(c, R, W, off)
         ELSE Parsed(PutData(b, d), R, W, off, N)
<1> DEFINE turn == PutDataTurns(b, d)
           Refused == {k \in 1 .. Len(d) : Refuses(turn[k - 1].buf, turn[k - 1].rest)}
<1>1. Len(d) \in Nat /\ N \in Nat
  BY LenProperties DEF Window
<1>2. PutData(b, d) = turn[Len(d)].buf
  BY DEF PutData
<1>3. Drops(b, d) <=> Refused # {}
  BY DEF Drops
<1> HIDE DEF turn
<1>4. CASE Refused # {}
  <2>1. Refused \subseteq Nat
    BY <1>1
  <2>2. PICK m \in Refused : \A k \in Refused : m <= k
    <3> HIDE DEF Refused
    <3> QED
      BY <1>4, <2>1, Least
  <2>3. m - 1 \in 0 .. Len(d) /\ \A k \in 1 .. m - 1 : k \in 1 .. Len(d) /\ k < m
    BY <1>1
  <2>4. ASSUME NEW k \in 1 .. m - 1 PROVE ~Refuses(turn[k - 1].buf, turn[k - 1].rest)
    <3>1. k \notin Refused
      <4> HIDE DEF Refused
      <4>1. k < m /\ k \in Nat /\ m \in Nat
        BY <2>1, <2>3
      <4> QED
        BY <2>2, <4>1
    <3> QED
      BY <2>3, <3>1
  <2>5. turn[m - 1] \in Partly(W, off, T, R, N)
    BY <2>3, <2>4, PutDataTurnsParse DEF turn
  <2>6. Refuses(turn[m - 1].buf, turn[m - 1].rest)
    OBVIOUS
  <2>7. Crowded(turn[m - 1].buf, R, W, off)
    BY <2>5, <2>6, PutDataStepStays
  <2> QED
    BY <1>3, <1>4, <2>7
<1>5. CASE Refused = {}
  <2>1. Len(d) \in 0 .. Len(d)
    BY <1>1
  <2>2. /\ turn[Len(d)] \in Partly(W, off, T, R, N)
        /\ Len(turn[Len(d)].rest) <= Len(d) - Len(d)
    BY <1>5, <2>1, PutDataTurnsParse DEF turn
  <2>3. /\ Parsed(turn[Len(d)].buf, R, W, off, N - Len(turn[Len(d)].rest))
        /\ Len(turn[Len(d)].rest) \in Nat
    BY <2>2, LenProperties DEF Partly
  <2>4. N - Len(turn[Len(d)].rest) = N
    BY <1>1, <2>2, <2>3
  <2> QED
    BY <1>2, <1>3, <1>5, <2>3, <2>4
<1> QED
  BY <1>4, <1>5

LEMMA StartParsed == Parsed(EmptyBuffer, <<>>, <<>>, Offset(<<>>), 0)
<1>1. /\ \A S : <<>> \in Seq(S)
      /\ Len(<<>>) = 0
  OBVIOUS
<1>2. Offset(<<>>)[0] = 0
  <2>1. IsOffset(Offset(<<>>), <<>>)
    BY <1>1, SmallSizes
  <2> QED
    BY <2>1 DEF IsOffset
<1>3. /\ EmptyBuffer \in InBuffer /\ EmptyBuffer.queue_ = <<>> /\ EmptyBuffer.written_ = 0
      /\ EmptyBuffer.curTarget_ = NULL /\ EmptyBuffer.tmpSize_ = NoSize
  BY <1>1 DEF EmptyBuffer, InBuffer
<1>4. Queued(EmptyBuffer, <<>>, <<>>, Offset(<<>>), 0)
  BY <1>1, <1>2, <1>3 DEF Queued
<1>5. AtPoint(EmptyBuffer, <<>>, Offset(<<>>), 0, 0)
  BY <1>2, <1>3 DEF AtPoint
<1> QED
  BY <1>4, <1>5 DEF Parsed

\* A message written at the other end is not seen yet.
LEMMA ParsedMore ==
  ASSUME NEW W, NEW off, IsOffset(off, W), NEW n \in Nat, NEW off2,
         IsOffset(off2, Append(W, n)), NEW b, NEW R, NEW x, Parsed(b, R, W, off, x)
  PROVE  Parsed(b, R, Append(W, n), off2, x)
<1> DEFINE W2 == Append(W, n)
<1>1. PICK m \in Nat : Queued(b, R, W, off, m) /\ AtPoint(b, W, off, m, x)
  BY DEF Parsed
<1>2. /\ W \in Seq(Nat) /\ Len(R) \in Nat /\ Len(b.queue_) \in Nat /\ Len(W) \in Nat
      /\ m = Len(R) + Len(b.queue_) /\ m <= Len(W)
  BY <1>1, QueuedTypes
<1>3. /\ Len(W2) = Len(W) + 1
      /\ \A i \in 1 .. Len(W) : W2[i] = W[i]
  BY <1>2, AppendProperties
<1>4. \A k \in 0 .. Len(W) : off2[k] = off[k]
  BY OffsetStays
<1> HIDE DEF W2
<1>5. m \in 0 .. Len(W) /\ Len(R) \in 0 .. Len(W) /\ (m < Len(W) => m + 1 \in 1 .. Len(W))
  BY <1>2
<1>6. Queued(b, R, W2, off2, m)
  <2>1. \A i \in 1 .. Len(R) : R[i] = W2[i]
    <3>1. \A i \in 1 .. Len(R) : R[i] = W[i] /\ i \in 1 .. Len(W)
      BY <1>1, <1>2 DEF Queued
    <3> QED
      BY <1>3, <3>1
  <2>2. \A i \in 1 .. Len(b.queue_) : b.queue_[i].size_ = W2[Len(R) + i]
    <3>1. \A i \in 1 .. Len(b.queue_) : b.queue_[i].size_ = W[Len(R) + i]
      BY ONLY <1>1 DEF Queued
    <3>2. \A i \in 1 .. Len(b.queue_) : Len(R) + i \in 1 .. Len(W)
      BY ONLY <1>2
    <3> QED
      BY ONLY <1>3, <3>1, <3>2
  <2>3. off2[m] = off[m] /\ off2[Len(R)] = off[Len(R)] /\ m <= Len(W2)
    BY <1>2, <1>3, <1>4, <1>5
  <2> QED
    BY <1>1, <2>1, <2>2, <2>3 DEF Queued
<1>7. AtPoint(b, W2, off2, m, x)
  <2>1. off2[m] = off[m] /\ (m < Len(W) => W2[m + 1] = W[m + 1] /\ m < Len(W2))
    BY <1>2, <1>3, <1>4, <1>5
  <2> QED
    BY <1>1, <2>1 DEF AtPoint
<1> QED
  BY <1>6, <1>7 DEF Parsed, W2

\* The application reads a message.
LEMMA ParsedRead ==
  ASSUME NEW W, NEW off, IsOffset(off, W), NEW b, NEW R, NEW x, Parsed(b, R, W, off, x),
         b.queue_ # <<>>
  PROVE  Parsed(PopFront(b), Append(R, Head(b.queue_).size_), W, off, x)
<1> DEFINE q  == b.queue_
           w  == Head(q).size_
           c  == PopFront(b)
           R2 == Append(R, w)
           r  == Len(R)
           k  == Len(q)
<1>1. PICK m \in Nat : Queued(b, R, W, off, m) /\ AtPoint(b, W, off, m, x)
  BY DEF Parsed
<1>2. /\ R \in Seq(Nat) /\ q \in Seq(Message) /\ r \in Nat /\ k \in Nat /\ Len(W) \in Nat
      /\ m = r + k /\ m <= Len(W)
      /\ \A i \in 0 .. Len(W) : off[i] \in Nat
      /\ \A i \in 1 .. Len(W) : W[i] \in Nat
  BY <1>1, QueuedTypes
<1>3. k >= 1 /\ Head(q) = q[1] /\ q[1] \in Message
  BY <1>2, EmptySeq, ElementOfSeq
<1>4. w \in Nat /\ w = W[r + 1]
  <2>1. w \in Nat
    BY <1>3 DEF Message
  <2>2. 1 \in 1 .. k
    BY <1>2, <1>3
  <2>3. q[1].size_ = W[r + 1]
    BY <1>1, <2>2 DEF Queued
  <2> QED
    BY <1>3, <2>1, <2>3
<1>5. /\ R2 \in Seq(Nat) /\ Len(R2) = r + 1 /\ R2[r + 1] = w
      /\ \A i \in 1 .. r : R2[i] = R[i]
  BY <1>2, <1>4, AppendProperties
<1>6. /\ Tail(q) \in Seq(Message) /\ Len(Tail(q)) = k - 1
      /\ \A i \in 1 .. k - 1 : Tail(q)[i] = q[i + 1]
  BY <1>2, HeadTailProperties
<1>7. /\ c \in InBuffer /\ c.queue_ = Tail(q) /\ c.written_ = b.written_ - w
      /\ c.curTarget_ = b.curTarget_ /\ c.tmpSize_ = b.tmpSize_
  <2>1. b \in InBuffer /\ b.written_ - w \in Int
    BY <1>1, <1>4 DEF Queued, InBuffer
  <2>2. c = [b EXCEPT !.queue_ = Tail(q), !.written_ = b.written_ - w]
    BY DEF PopFront
  <2> HIDE DEF c, w
  <2> QED
    BY <1>6, <2>1, <2>2 DEF InBuffer
<1> HIDE DEF c, w, R2, q
<1>8. Queued(c, R2, W, off, m)
  <2>1. /\ \A i \in 1 .. r : R[i] = W[i]
        /\ \A i \in 1 .. k : q[i].size_ = W[r + i]
        /\ b.written_ = off[m] - off[r] - 2 * k
    BY <1>1 DEF Queued, q
  <2> HIDE DEF r, k
  <2>2. m = (r + 1) + (k - 1)
    BY <1>2
  <2>3. ASSUME NEW i \in 1 .. r + 1 PROVE R2[i] = W[i]
    <3>1. CASE i = r + 1
      BY <1>4, <1>5, <3>1
    <3>2. CASE i \in 1 .. r
      BY <1>5, <2>1, <3>2
    <3>3. i = r + 1 \/ i \in 1 .. r
      BY <1>2
    <3> QED
      BY <3>1, <3>2, <3>3
  <2>4. ASSUME NEW i \in 1 .. k - 1 PROVE c.queue_[i].size_ = W[(r + 1) + i]
    <3>1. i + 1 \in 1 .. k /\ r + (i + 1) = (r + 1) + i
      BY <1>2
    <3>2. c.queue_[i] = q[i + 1]
      BY <1>6, <1>7
    <3> QED
      BY <2>1, <3>1, <3>2
  <2>5. c.written_ = off[m] - off[r + 1] - 2 * (k - 1)
    <3> DEFINE A == off[m]
               B == off[r]
               C == off[r + 1]
    <3>1. m \in 0 .. Len(W) /\ r \in 0 .. Len(W) /\ r + 1 \in 1 .. Len(W) /\ (r + 1) - 1 = r
      BY <1>2, <1>3
    <3>2. A \in Nat /\ B \in Nat
      BY <1>2, <3>1
    <3>3. C = B + 2 + w
      BY <1>4, <3>1 DEF IsOffset
    <3>4. c.written_ = (A - B - 2 * k) - w
      BY <1>7, <2>1
    <3>5. k \in Nat /\ w \in Nat
      BY <1>2, <1>4
    <3> HIDE DEF A, B, C
    <3>6. c.written_ = A - C - 2 * (k - 1)
      BY <3>2, <3>3, <3>4, <3>5
    <3> QED
      BY <3>6 DEF A, C
  <2>6. Len(R2) = r + 1 /\ Len(c.queue_) = k - 1 /\ R2 \in Seq(Nat) /\ c \in InBuffer
    BY <1>5, <1>6, <1>7
  <2> QED
    BY <1>2, <2>2, <2>3, <2>4, <2>5, <2>6 DEF Queued
<1>9. AtPoint(c, W, off, m, x)
  BY <1>1, <1>7 DEF AtPoint
<1> QED
  BY <1>8, <1>9 DEF Parsed, c, R2, w, q

LEMMA ParsedStarts ==
  ASSUME NEW W, NEW off, IsOffset(off, W), NEW b, NEW R, NEW x, Parsed(b, R, W, off, x)
  PROVE  Starts(R \o SizesIn(b.queue_), W) /\ R \in Seq(Nat) /\ Starts(R, W)
<1> DEFINE q == b.queue_
           z == SizesIn(q)
           k == Len(q)
           r == Len(R)
<1>1. PICK m \in Nat : Queued(b, R, W, off, m)
  BY DEF Parsed
<1>2. /\ R \in Seq(Nat) /\ q \in Seq(Message) /\ r \in Nat /\ k \in Nat /\ Len(W) \in Nat
      /\ m = r + k /\ m <= Len(W)
  BY <1>1, QueuedTypes
<1>3. z \in Seq(Nat) /\ Len(z) = k /\ \A i \in 1 .. k : z[i] = q[i].size_
  <2>1. \A i \in 1 .. k : q[i].size_ \in Nat
    <3>1. \A i \in 1 .. k : q[i] \in Message
      BY <1>2, ElementOfSeq
    <3> QED
      BY <3>1 DEF Message
  <2>2. z = [i \in 1 .. k |-> q[i].size_]
    BY <1>2 DEF SizesIn
  <2> HIDE DEF z, q, k
  <2> QED
    BY <1>2, <2>1, <2>2, SMT
<1>4. /\ Len(R \o z) = r + k
      /\ \A i \in 1 .. r + k : (R \o z)[i] = IF i <= r THEN R[i] ELSE z[i - r]
      /\ R \o z \in Seq(Nat)
  <2> HIDE DEF z
  <2>1. /\ R \o z \in Seq(Nat)
        /\ Len(R \o z) = Len(R) + Len(z)
        /\ \A i \in 1 .. Len(R) + Len(z) :
             (R \o z)[i] = IF i <= Len(R) THEN R[i] ELSE z[i - Len(R)]
    <3>1. R \in Seq(Nat) /\ z \in Seq(Nat)
      BY <1>2, <1>3
    <3> QED
      BY <3>1, ConcatProperties
  <2>2. Len(z) = k
    BY <1>3
  <2> HIDE DEF k
  <2> QED
    BY <2>1, <2>2
<1>5. /\ \A i \in 1 .. r : R[i] = W[i]
      /\ \A i \in 1 .. k : q[i].size_ = W[r + i]
  BY <1>1 DEF Queued
<1> HIDE DEF z, q, k, r
<1>6. ASSUME NEW i \in 1 .. r + k PROVE (R \o z)[i] = W[i]
  <2>1. CASE i \in 1 .. r
    BY <1>2, <1>4, <1>5, <2>1
  <2>2. CASE ~(i <= r)
    <3>1. i - r \in 1 .. k /\ r + (i - r) = i
      BY <1>2, <2>2
    <3> QED
      BY <1>3, <1>4, <1>5, <2>2, <3>1
  <2>3. i \in 1 .. r \/ ~(i <= r)
    BY <1>2
  <2> QED
    BY <2>1, <2>2, <2>3
<1>7. DOMAIN (R \o z) = 1 .. r + k /\ DOMAIN R = 1 .. r
  BY <1>2, <1>4, LenProperties DEF r
<1>8. Starts(R \o z, W)
  BY <1>2, <1>4, <1>6, <1>7 DEF Starts
<1>9. Starts(R, W)
  BY <1>2, <1>5, <1>7 DEF Starts, r
<1> QED
  BY <1>2, <1>8, <1>9 DEF z, q

-----------------------------------------------------------------------------
(* What an end has received of what its peer wrote. *)

\* The direction from e, of which its peer has dropped nothing.
Reception(e) ==
  LET p == Peer(e)
  IN  ~dropped[p] =>
        IF status[p] # "disposed"
        THEN Parsed(bufIn_[p], read_[p], written[e], Offset(written[e]), Len(given[p]))
        ELSE /\ bufIn_[p].queue_ = <<>>
             /\ read_[p] \in Seq(Nat) /\ Starts(read_[p], written[e])

\* The inductive invariant of the receivers.
ReceptionInv == StreamInv /\ \A e \in End : Reception(e)

LEMMA InitReceptionInv == Init => ReceptionInv
<1> SUFFICES ASSUME Init PROVE ReceptionInv
  OBVIOUS
<1>1. ASSUME NEW e \in End PROVE Reception(e)
  <2>1. /\ Peer(e) \in End
        /\ bufIn_[Peer(e)] = EmptyBuffer /\ read_[Peer(e)] = <<>> /\ written[e] = <<>>
        /\ given[Peer(e)] = <<>> /\ status[Peer(e)] = "open"
    BY Peers DEF Init
  <2>2. Len(<<>>) = 0
    BY EmptySeq
  <2> QED
    BY <2>1, <2>2, StartParsed DEF Reception
<1> QED
  BY <1>1, InitStreamInv DEF ReceptionInv

LEMMA WrittenOffsets ==
  ASSUME StreamInv, NEW e \in End
  PROVE  /\ written[e] \in Seq(0 .. MaxMsgSize) /\ written[e] \in Seq(Nat)
         /\ IsOffset(Offset(written[e]), written[e])
<1>1. written[e] \in Seq(0 .. MaxMsgSize)
  BY DEF StreamInv, Shape
<1> QED
  BY <1>1, SmallSizes

LEMMA SameReception ==
  ASSUME NEW e \in End, Reception(e),
         dropped'[Peer(e)] = dropped[Peer(e)], bufIn_'[Peer(e)] = bufIn_[Peer(e)],
         read_'[Peer(e)] = read_[Peer(e)], given'[Peer(e)] = given[Peer(e)],
         written'[e] = written[e],
         status'[Peer(e)] # "disposed" <=> status[Peer(e)] # "disposed"
  PROVE  Reception(e)'
<1>1. Peer(e)' = Peer(e) /\ Offset(written[e])' = Offset(written'[e])
  OBVIOUS
<1> QED
  BY DEF Reception

LEMMA StartsMore ==
  ASSUME NEW R \in Seq(Nat), NEW W \in Seq(Nat), Starts(R, W), NEW n \in Nat
  PROVE  Starts(R, Append(W, n))
<1>1. /\ Len(R) \in Nat /\ Len(W) \in Nat /\ Len(R) <= Len(W) /\ DOMAIN R = 1 .. Len(R)
      /\ \A i \in 1 .. Len(R) : R[i] = W[i]
  BY LenProperties DEF Starts
<1>2. Len(Append(W, n)) = Len(W) + 1 /\ \A i \in 1 .. Len(W) : Append(W, n)[i] = W[i]
  BY AppendProperties
<1>3. \A i \in 1 .. Len(R) : i \in 1 .. Len(W)
  BY <1>1
<1>4. Len(R) <= Len(W) + 1
  BY <1>1
<1> QED
  BY <1>1, <1>2, <1>3, <1>4 DEF Starts

LEMMA WriteReception ==
  ASSUME ReceptionInv, NEW e \in End, NEW n \in Sizes[e], Write(e, n)
  PROVE  \A d \in End : Reception(d)'
<1>1. StreamInv /\ StreamInv'
  BY WriteStreamInv DEF ReceptionInv
<1>2. /\ bufIn_' = bufIn_ /\ read_' = read_ /\ given' = given /\ dropped' = dropped
      /\ status' = status /\ written' = [written EXCEPT ![e] = Append(@, n)]
      /\ written'[e] = Append(written[e], n)
      /\ \A d \in End : d # e => written'[d] = written[d]
  BY <1>1 DEF Write, StreamInv, Shape
<1>3. ASSUME NEW d \in End, d # e PROVE Reception(d)'
  BY <1>2, <1>3, SameReception DEF ReceptionInv
<1>4. Reception(e)'
  <2> DEFINE p  == Peer(e)
             W  == written[e]
             W2 == Append(W, n)
  <2>1. n \in Nat
    BY LinkAssumption
  <2>2. IsOffset(Offset(W), W) /\ W \in Seq(Nat) /\ IsOffset(Offset(W2), W2)
    <3>1. IsOffset(Offset(W), W) /\ W \in Seq(Nat)
      BY <1>1, WrittenOffsets
    <3>2. W2 \in Seq(Nat)
      BY <2>1, <3>1, AppendProperties
    <3> QED
      BY <3>1, <3>2, OffsetIs
  <2> HIDE DEF W2
  <2> SUFFICES ASSUME ~dropped[p]
               PROVE  IF status[p] # "disposed"
                      THEN Parsed(bufIn_[p], read_[p], W2, Offset(W2), Len(given[p]))
                      ELSE /\ bufIn_[p].queue_ = <<>>
                           /\ read_[p] \in Seq(Nat) /\ Starts(read_[p], W2)
    BY <1>2 DEF Reception, W2
  <2>3. IF status[p] # "disposed"
        THEN Parsed(bufIn_[p], read_[p], W, Offset(W), Len(given[p]))
        ELSE /\ bufIn_[p].queue_ = <<>>
             /\ read_[p] \in Seq(Nat) /\ Starts(read_[p], W)
    BY DEF ReceptionInv, Reception
  <2> HIDE DEF p, W
  <2>4. CASE status[p] # "disposed"
    BY <2>1, <2>2, <2>3, <2>4, ParsedMore DEF W2
  <2>5. CASE status[p] = "disposed"
    BY <2>1, <2>2, <2>3, <2>5, StartsMore DEF W2
  <2> QED
    BY <2>4, <2>5
<1> QED
  BY <1>3, <1>4

LEMMA ReadReception ==
  ASSUME ReceptionInv, NEW p \in End, Read(p)
  PROVE  \A d \in End : Reception(d)'
<1> DEFINE e == Peer(p)
           w == Head(bufIn_[p].queue_).size_
<1>1. StreamInv /\ e \in End /\ Peer(e) = p /\ e # p
  BY Peers DEF ReceptionInv
<1>2. /\ bufIn_[p].queue_ # <<>> /\ status[p] # "disposed"
      /\ read_' = [read_ EXCEPT ![p] = Append(@, w)]
      /\ bufIn_' = [bufIn_ EXCEPT ![p] = PopFront(@)]
      /\ given' = given /\ dropped' = dropped /\ status' = status /\ written' = written
  BY DEF Read, CanGetMessage
<1> HIDE DEF e, w
<1>3. /\ bufIn_'[p] = PopFront(bufIn_[p]) /\ read_'[p] = Append(read_[p], w)
      /\ bufIn_'[e] = bufIn_[e] /\ read_'[e] = read_[e]
  BY <1>1, <1>2 DEF StreamInv, Shape
<1>4. Reception(p)'
  <2>1. Peer(p) = e /\ Reception(p)
    BY DEF e, ReceptionInv
  <2> QED
    BY <1>2, <1>3, <2>1, SameReception
<1>5. Reception(e)'
  <2> DEFINE W == written[e]
  <2> SUFFICES ASSUME ~dropped[p]
               PROVE  Parsed(bufIn_'[p], read_'[p], W, Offset(W), Len(given[p]))
    BY <1>1, <1>2 DEF Reception
  <2>1. Parsed(bufIn_[p], read_[p], W, Offset(W), Len(given[p]))
    BY <1>1, <1>2 DEF ReceptionInv, Reception
  <2>2. IsOffset(Offset(W), W)
    BY <1>1, WrittenOffsets
  <2> HIDE DEF W
  <2>3. Parsed(PopFront(bufIn_[p]), Append(read_[p], w), W, Offset(W), Len(given[p]))
    BY <1>2, <2>1, <2>2, ParsedRead DEF w
  <2> QED
    BY <1>3, <2>3
<1> QED
  BY <1>4, <1>5, Peers DEF e

LEMMA DisposeReception ==
  ASSUME ReceptionInv, NEW p \in End, Dispose(p)
  PROVE  \A d \in End : Reception(d)'
<1> DEFINE e == Peer(p)
<1>1. StreamInv /\ e \in End /\ Peer(e) = p /\ e # p
  BY Peers DEF ReceptionInv
<1>2. /\ status[p] # "disposed" /\ status' = [status EXCEPT ![p] = "disposed"]
      /\ bufIn_' = [bufIn_ EXCEPT ![p] = EmptyBuffer]
      /\ read_' = read_ /\ given' = given /\ dropped' = dropped /\ written' = written
  BY DEF Dispose, history
<1> HIDE DEF e
<1>3. /\ bufIn_'[p] = EmptyBuffer /\ bufIn_'[e] = bufIn_[e]
      /\ status'[p] = "disposed" /\ status'[e] = status[e]
  BY <1>1, <1>2 DEF StreamInv, Shape
<1>4. Reception(p)'
  <2>1. Peer(p) = e /\ Reception(p)
    BY DEF e, ReceptionInv
  <2> QED
    BY <1>2, <1>3, <2>1, SameReception
<1>5. Reception(e)'
  <2> DEFINE W == written[e]
  <2> SUFFICES ASSUME ~dropped[p]
               PROVE  read_[p] \in Seq(Nat) /\ Starts(read_[p], W)
    BY <1>1, <1>2, <1>3 DEF Reception, EmptyBuffer
  <2>1. Parsed(bufIn_[p], read_[p], W, Offset(W), Len(given[p]))
    BY <1>1, <1>2 DEF ReceptionInv, Reception
  <2>2. IsOffset(Offset(W), W)
    BY <1>1, WrittenOffsets
  <2> HIDE DEF W
  <2> QED
    BY <2>1, <2>2, ParsedStarts
<1> QED
  BY <1>4, <1>5, Peers DEF e

\* What is received is the part of the stream that follows what had been.
Received(x, n, T, N, G) ==
  /\ Window(x, T, N) /\ Len(x) = n /\ Len(G) \in Nat
  /\ N = Len(G) + n /\ N <= Len(T) /\ N - Len(x) = Len(G)

LEMMA ReceivedJoins ==
  ASSUME NEW G \in Seq(Byte), NEW pi \in Seq(Byte), NEW u \in Seq(Byte), NEW n \in 0 .. Len(pi)
  PROVE  LET x == SubSeq(pi, 1, n)
             y == SubSeq(pi, n + 1, Len(pi))
         IN  (G \o pi) \o u = (G \o x) \o (y \o u)
<1> DEFINE x == SubSeq(pi, 1, n)
           y == SubSeq(pi, n + 1, Len(pi))
           p == pi
<1>1. x \in Seq(Byte) /\ y \in Seq(Byte)
  BY CutInTwo
<1>2. p = x \o y
  BY CutInTwo
<1> HIDE DEF x, y, p
<1>3. (G \o (x \o y)) \o u = (G \o x) \o (y \o u)
  <2> DEFINE a == G \o x
  <2>1. Regroups(G, x, y)
    BY <1>1, Reassociated
  <2>2. a \in Seq(Byte)
    BY <1>1, ConcatIs
  <2> HIDE DEF a
  <2>3. Regroups(a, y, u)
    BY <1>1, <2>2, Reassociated
  <2> QED
    BY <2>1, <2>3, Zenon DEF Regroups, a
<1>4. (G \o p) \o u = (G \o x) \o (y \o u)
  BY <1>2, <1>3, Zenon
<1> QED
  BY <1>4 DEF x, y, p

LEMMA ReceivedWindow ==
  ASSUME NEW G \in Seq(Byte), NEW pi \in Seq(Byte), NEW u \in Seq(Byte), NEW T,
         T = (G \o pi) \o u, NEW n \in 1 .. Len(pi),
         NEW x, x = SubSeq(pi, 1, n), NEW N, N = Len(G \o x)
  PROVE  Received(x, n, T, N, G)
<1> DEFINE y == SubSeq(pi, n + 1, Len(pi))
<1>1. n \in 0 .. Len(pi) /\ n \in Nat
  BY LenProperties
<1>2. x \in Seq(Byte) /\ y \in Seq(Byte) /\ pi = x \o y /\ Len(x) = n
  BY <1>1, CutInTwo
<1> HIDE DEF y
<1>3. T = (G \o x) \o (y \o u) /\ G \o x \in Seq(Byte) /\ y \o u \in Seq(Byte)
  <2>1. G \o x \in Seq(Byte) /\ y \o u \in Seq(Byte)
    BY <1>2, ConcatIs
  <2>2. (G \o pi) \o u = (G \o x) \o (y \o u)
    BY <1>1, ReceivedJoins DEF y
  <2> QED
    BY <2>1, <2>2
<1>4. /\ N = Len(G) + Len(x) /\ Len(G) \in Nat
      /\ \A i \in 1 .. Len(x) : (G \o x)[Len(G) + i] = x[i]
  BY <1>2, ConcatIs
<1>5. /\ Len(T) = N + Len(y \o u) /\ Len(y \o u) \in Nat /\ N \in Nat
      /\ \A i \in 1 .. N : T[i] = (G \o x)[i]
  BY <1>3, ConcatIs
<1>6. N = Len(G) + n
  BY <1>2, <1>4
<1>7. N - Len(x) = Len(G) /\ N <= Len(T) /\ Len(x) <= N
  BY <1>1, <1>2, <1>4, <1>5, <1>6
<1>8. ASSUME NEW i \in 1 .. Len(x) PROVE x[i] = T[N - Len(x) + i]
  <2>1. Len(G) + i \in 1 .. N
    BY <1>1, <1>2, <1>4, <1>6
  <2> QED
    BY <1>4, <1>5, <1>7, <2>1
<1>9. Window(x, T, N)
  BY <1>2, <1>5, <1>7, <1>8 DEF Window
<1> QED
  BY <1>2, <1>4, <1>6, <1>7, <1>9 DEF Received

\* What p receives in one recv() of n bytes is put_data's to parse.
LEMMA ReceivedIsParsed ==
  ASSUME ReceptionInv, NEW p \in End, status[p] = "open", ~dropped[p],
         NEW n \in 1 .. AtMost(MaxMsgSize, Len(pipe[Peer(p)])), DoReadData(p, n),
         NEW x, x = SubSeq(pipe[Peer(p)], 1, n)
  PROVE  LET W   == written[Peer(p)]
             off == Offset(W)
         IN  /\ StreamSoFar(W, off, taken[Peer(p)], Len(given[p] \o x))
             /\ IF Drops(bufIn_[p], x) THEN \E c : Crowded(c, read_[p], W, off)
                ELSE Parsed(PutData(bufIn_[p], x), read_[p], W, off, Len(given[p] \o x))
<1> DEFINE e   == Peer(p)
           G   == given[p]
           W   == written[e]
           T   == taken[e]
           R   == read_[p]
           b   == bufIn_[p]
           pi  == pipe[e]
           off == Offset(W)
           N   == Len(G \o x)
           n0  == Len(G)
<1>1. StreamInv /\ e \in End /\ Peer(e) = p
  BY Peers DEF ReceptionInv
<1>2. Parsed(b, R, W, off, n0)
  <2>1. Reception(e)
    BY <1>1 DEF ReceptionInv
  <2> QED
    BY <1>1, <2>1 DEF Reception
<1>3. IsOffset(off, W) /\ W \in Seq(0 .. MaxMsgSize)
  BY <1>1, WrittenOffsets
<1>4. /\ T \in Seq(Byte) /\ G \in Seq(Byte) /\ pi \in Seq(Byte)
      /\ Headers(T, W, off) /\ Len(T) <= off[Len(W)]
      /\ \E u \in Seq(Byte) : T = (G \o pi) \o u
  <2>1. Direction(e)
    BY <1>1 DEF StreamInv
  <2> QED
    BY <1>1, <2>1 DEF Direction, DirectionOK
<1>5. x = SubSeq(pi, 1, n)
  OBVIOUS
<1>6. n \in 1 .. AtMost(MaxMsgSize, Len(pi))
  OBVIOUS
<1> HIDE DEF W, T, R, b, off
<1>7. n \in 1 .. Len(pi)
  <2>1. Len(pi) \in Nat
    BY <1>4, LenProperties
  <2> HIDE DEF pi
  <2> QED
    BY <1>6, <2>1, BufferAssumption DEF AtMost
<1>8. Window(x, T, N) /\ n0 \in Nat /\ N <= Len(T) /\ N - Len(x) = n0 /\ N \in Nat
  <2>1. PICK u \in Seq(Byte) : T = (G \o pi) \o u
    BY <1>4
  <2>2. N = Len(G \o x) /\ n0 = Len(G) /\ G \in Seq(Byte) /\ pi \in Seq(Byte)
    BY <1>4
  <2> HIDE DEF pi, G, N, n0
  <2>3. Received(x, n, T, N, G)
    BY <1>5, <1>7, <2>1, <2>2, ReceivedWindow
  <2>4. /\ Window(x, T, N) /\ Len(x) = n /\ Len(G) \in Nat
        /\ N = Len(G) + n /\ N <= Len(T) /\ N - Len(x) = Len(G)
    BY <2>3 DEF Received
  <2>5. N \in Nat
    BY <2>4 DEF Window
  <2> QED
    BY <2>2, <2>4, <2>5, Zenon
<1> HIDE DEF N, n0, pi, G
<1>9. StreamSoFar(W, off, T, N)
  <2>1. \A i \in 1 .. Len(W) : W[i] \in 0 .. MaxMsgSize
    BY <1>3, ElementOfSeq
  <2>2. \A i \in 1 .. Len(W) : W[i] <= MaxMsgSize
    BY <2>1
  <2> QED
    BY <1>3, <1>4, <1>8, <2>2 DEF StreamSoFar
<1>10. Parsed(b, R, W, off, N - Len(x))
  BY <1>2, <1>8
<1>11. IF Drops(b, x) THEN \E c : Crowded(c, R, W, off)
       ELSE Parsed(PutData(b, x), R, W, off, N)
  BY <1>8, <1>9, <1>10, PutDataParses
<1> QED
  BY <1>9, <1>11 DEF e, G, W, T, R, b, off, N

LEMMA ReceiveReception ==
  ASSUME ReceptionInv, NEW p \in End, status[p] = "open",
         NEW n \in 1 .. AtMost(MaxMsgSize, Len(pipe[Peer(p)])), DoReadData(p, n)
  PROVE  \A d \in End : Reception(d)'
<1> DEFINE e == Peer(p)
           x == SubSeq(pipe[e], 1, n)
<1>1. StreamInv /\ e \in End /\ Peer(e) = p /\ e # p
  BY Peers DEF ReceptionInv
<1>2. /\ bufIn_' = [bufIn_ EXCEPT ![p] = PutData(@, x)]
      /\ given' = [given EXCEPT ![p] = @ \o x]
      /\ dropped' = [dropped EXCEPT ![p] = @ \/ Drops(bufIn_[p], x)]
      /\ status' = status /\ written' = written /\ read_' = read_
  BY DEF DoReadData
<1>3. ~dropped[p] =>
        IF Drops(bufIn_[p], x)
        THEN \E c : Crowded(c, read_[p], written[e], Offset(written[e]))
        ELSE Parsed(PutData(bufIn_[p], x), read_[p], written[e], Offset(written[e]),
                    Len(given[p] \o x))
  BY ReceivedIsParsed
<1> HIDE DEF e, x
<1>4. /\ bufIn_'[p] = PutData(bufIn_[p], x) /\ given'[p] = given[p] \o x
      /\ dropped'[p] = (dropped[p] \/ Drops(bufIn_[p], x))
      /\ bufIn_'[e] = bufIn_[e] /\ given'[e] = given[e] /\ dropped'[e] = dropped[e]
  BY <1>1, <1>2 DEF StreamInv, Shape
<1>5. Reception(p)'
  <2>1. Peer(p) = e /\ Reception(p)
    BY DEF e, ReceptionInv
  <2> QED
    BY <1>2, <1>4, <2>1, SameReception
<1>6. Reception(e)'
  <2> DEFINE W == written[e]
  <2> SUFFICES ASSUME ~dropped[p], ~Drops(bufIn_[p], x)
               PROVE  Parsed(bufIn_'[p], read_[p], W, Offset(W), Len(given'[p]))
    BY <1>1, <1>2, <1>4 DEF Reception
  <2> QED
    BY <1>3, <1>4
<1> QED
  BY <1>5, <1>6, Peers DEF e

\* The other steps touch nothing an end has received.
LEMMA OtherReception ==
  ASSUME ReceptionInv, NEW e \in End, status[e] = "open",
         \/ CloseSocket(e) /\ UNCHANGED <<bufIn_, bufOut_, writebuf_, history>>
         \/ \E w \in Nat : DoWriteData(e, w)
         \/ DoWriteFails(e)
  PROVE  \A d \in End : Reception(d)'
<1>1. /\ bufIn_' = bufIn_ /\ read_' = read_ /\ given' = given /\ dropped' = dropped
      /\ written' = written
      /\ status' = status \/ status' = [status EXCEPT ![e] = "closed"]
  BY DEF CloseSocket, DoWriteData, DoWriteFails, history
<1>2. ASSUME NEW p \in End PROVE status'[p] # "disposed" <=> status[p] # "disposed"
  <2>1. status \in [End -> {"open", "closed", "disposed"}]
    BY DEF ReceptionInv, StreamInv, Shape
  <2> QED
    BY <1>1, <2>1
<1> QED
  BY <1>1, <1>2, SameReception, Peers DEF ReceptionInv

LEMMA StillReception ==
  ASSUME ReceptionInv,
         UNCHANGED <<bufIn_, read_, given, dropped, written, status>>
  PROVE  \A d \in End : Reception(d)'
  BY SameReception DEF ReceptionInv

\* Where nothing was dropped, what was received is parsed as it was written: the
\* messages read, those in bufIn_ and the one it is at.
THEOREM ReceptionInvariance == Spec => []ReceptionInv
<1>1. ASSUME ReceptionInv, [Next]_vars PROVE ReceptionInv'
  <2>1. StreamInv'
    <3>1. CASE Next
      BY <1>1, <3>1, Steps, WriteStreamInv, ReadStreamInv, DisposeStreamInv,
         ReceiveStreamInv, CloseStreamInv, SendStreamInv, SendFailsStreamInv,
         BreakStreamInv DEF ReceptionInv
    <3> QED
      BY <1>1, <3>1, StutterStreamInv DEF ReceptionInv
  <2>2. \A d \in End : Reception(d)'
    <3>1. CASE \E e \in End : \E n \in Sizes[e] : Write(e, n)
      BY <1>1, <3>1, WriteReception
    <3>2. CASE \E e \in End : Read(e) \/ Dispose(e)
      BY <1>1, <3>2, ReadReception, DisposeReception
    <3>3. CASE \E e \in End : /\ status[e] = "open" /\ ~InSend(e)
                              /\ \E n \in 1 .. AtMost(MaxMsgSize, Len(pipe[Peer(e)])) :
                                   DoReadData(e, n)
      BY <1>1, <3>3, ReceiveReception
    <3>4. CASE \E e \in End :
                 /\ status[e] = "open"
                 /\ \/ CloseSocket(e) /\ UNCHANGED <<bufIn_, bufOut_, writebuf_, history>>
                    \/ \E w \in Nat : DoWriteData(e, w)
                    \/ DoWriteFails(e)
      BY <1>1, <3>4, OtherReception
    <3>5. CASE Break \/ UNCHANGED vars
      BY <1>1, <3>5, StillReception DEF Break, socket, history, vars
    <3> QED
      BY <1>1, <3>1, <3>2, <3>3, <3>4, <3>5, Steps
  <2> QED
    BY <2>1, <2>2 DEF ReceptionInv
<1> QED
  BY <1>1, InitReceptionInv, PTL DEF Spec

\* documentation.h: "each call to write() on a socket will result in exactly one
\* return from read() for as many bytes on the other end": in that order, from
\* the first on, until bufIn_ refuses one for want of room.
THEOREM DeliveredInOrderHolds == Spec => []DeliveredInOrder
<1>1. ReceptionInv => DeliveredInOrder
  <2> SUFFICES ASSUME ReceptionInv, NEW e \in End, ~dropped[Peer(e)]
               PROVE  Starts(read_[Peer(e)] \o SizesIn(bufIn_[Peer(e)].queue_), written[e])
    BY DEF DeliveredInOrder
  <2> DEFINE p == Peer(e)
  <2>1. Reception(e) /\ IsOffset(Offset(written[e]), written[e])
    BY WrittenOffsets DEF ReceptionInv
  <2>2. CASE status[p] # "disposed"
    BY <2>1, <2>2, ParsedStarts DEF Reception
  <2>3. CASE status[p] = "disposed"
    <3>1. /\ bufIn_[p].queue_ = <<>> /\ read_[p] \in Seq(Nat)
          /\ Starts(read_[p], written[e])
      BY <2>1, <2>3 DEF Reception
    <3>2. SizesIn(<<>>) = <<>>
      BY DEF SizesIn
    <3>3. read_[p] \o <<>> = read_[p]
      BY <3>1, ConcatEmptySeq
    <3> QED
      BY <3>1, <3>2, <3>3
  <2> QED
    BY <2>2, <2>3
<1> QED
  BY <1>1, ReceptionInvariance, PTL

-----------------------------------------------------------------------------
(* The link implements Connection. *)

\* What of W is left after as many messages as R has.
Rest(R, W) == SubSeq(W, Len(R) + 1, Len(W))

LEMMA RestIs ==
  ASSUME NEW S, NEW R, Len(R) \in Nat, NEW W \in Seq(S), Len(R) <= Len(W)
  PROVE  /\ Rest(R, W) \in Seq(S) /\ Len(Rest(R, W)) = Len(W) - Len(R)
         /\ \A i \in 1 .. Len(W) - Len(R) : Rest(R, W)[i] = W[Len(R) + i]
<1> DEFINE m == Len(R) + 1
           n == Len(W)
<1>1. n \in Nat /\ m \in Nat /\ m >= 1 /\ m <= n + 1
  BY LenProperties
<1>2. \A i \in m .. n : W[i] \in S
  BY <1>1, ElementOfSeq
<1>3. \A i \in 1 .. n - m + 1 : m + i - 1 = Len(R) + i
  BY <1>1
<1>4. n - m + 1 = n - Len(R)
  BY <1>1
<1>5. /\ SubSeq(W, m, n) \in Seq(S)
      /\ Len(SubSeq(W, m, n)) = IF m <= n THEN n - m + 1 ELSE 0
      /\ \A i \in 1 .. n - m + 1 : SubSeq(W, m, n)[i] = W[m + i - 1]
  BY <1>1, <1>2, SubSeqProperties
<1>6. (IF m <= n THEN n - m + 1 ELSE 0) = n - m + 1
  BY <1>1
<1> QED
  BY <1>3, <1>4, <1>5, <1>6 DEF Rest

\* Nothing is left of as many messages as were written.
LEMMA RestEmpty == Rest(<<>>, <<>>) = <<>>
<1>1. <<>> \in Seq(Nat) /\ Len(<<>>) = 0
  BY EmptySeq
<1> DEFINE e == <<>>
           r == Rest(e, e)
<1>2. e \in Seq(Nat) /\ Len(e) \in Nat /\ Len(e) <= Len(e) /\ Len(e) - Len(e) = 0
  BY <1>1
<1> HIDE DEF e
<1>3. r \in Seq(Nat) /\ Len(r) = 0
  BY <1>2, RestIs
<1> HIDE DEF r
<1>4. r = <<>>
  BY <1>3, EmptySeq
<1> QED
  BY <1>4 DEF r, e

\* One more is written.
LEMMA RestAppend ==
  ASSUME NEW S, NEW R, Len(R) \in Nat, NEW W \in Seq(S), Len(R) <= Len(W), NEW n \in S
  PROVE  Rest(R, Append(W, n)) = Append(Rest(R, W), n)
<1> DEFINE k == Len(R)
           l == Len(W)
           W2 == Append(W, n)
           a == Rest(R, W2)
           c == Append(Rest(R, W), n)
<1>1. /\ k \in Nat /\ l \in Nat /\ k <= l
      /\ W2 \in Seq(S) /\ Len(W2) = l + 1 /\ W2[l + 1] = n
      /\ \A i \in 1 .. l : W2[i] = W[i]
  BY AppendProperties, LenProperties
<1> HIDE DEF W2
<1>2. /\ a \in Seq(S) /\ Len(a) = l + 1 - k
      /\ \A i \in 1 .. l + 1 - k : a[i] = W2[k + i]
  <2>1. k <= Len(W2)
    BY <1>1
  <2>2. /\ a \in Seq(S) /\ Len(a) = Len(W2) - k
        /\ \A i \in 1 .. Len(W2) - k : a[i] = W2[k + i]
    BY <1>1, <2>1, RestIs
  <2> QED
    BY <1>1, <2>2
<1>3. /\ c \in Seq(S) /\ Len(c) = l - k + 1 /\ c[l - k + 1] = n
      /\ \A i \in 1 .. l - k : c[i] = W[k + i]
  <2> DEFINE r == Rest(R, W)
  <2>1. /\ r \in Seq(S) /\ Len(r) = l - k /\ \A i \in 1 .. l - k : r[i] = W[k + i]
    BY <1>1, RestIs
  <2> HIDE DEF r
  <2>2. /\ Append(r, n) \in Seq(S) /\ Len(Append(r, n)) = Len(r) + 1
        /\ Append(r, n)[Len(r) + 1] = n
        /\ \A i \in 1 .. Len(r) : Append(r, n)[i] = r[i]
    BY <2>1, AppendProperties
  <2> QED
    BY <2>1, <2>2 DEF r
<1> HIDE DEF a, c, k, l
<1>4. l + 1 - k = l - k + 1 /\ l - k \in Nat
  BY <1>1
<1>5. ASSUME NEW i \in 1 .. Len(a) PROVE a[i] = c[i]
  <2>1. CASE i = l - k + 1
    <3>1. k + i = l + 1
      BY <1>1, <2>1
    <3> QED
      BY <1>1, <1>2, <1>3, <2>1, <3>1
  <2>2. CASE i # l - k + 1
    <3>1. i \in 1 .. l - k /\ k + i \in 1 .. l
      BY <1>1, <1>2, <1>4, <2>2
    <3> QED
      BY <1>1, <1>2, <1>3, <3>1
  <2> QED
    BY <2>1, <2>2
<1>6. Len(a) = Len(c)
  BY <1>2, <1>3, <1>4
<1>7. a = c
  BY <1>2, <1>3, <1>5, <1>6, SeqEqual
<1> QED
  BY <1>7 DEF a, c, W2

\* The oldest that is left is read.
LEMMA RestRead ==
  ASSUME NEW S, NEW R, NEW R2, Len(R) \in Nat, Len(R2) = Len(R) + 1,
         NEW W \in Seq(S), Len(R) < Len(W)
  PROVE  /\ Rest(R, W) # <<>> /\ Head(Rest(R, W)) = W[Len(R) + 1]
         /\ Rest(R2, W) = Tail(Rest(R, W))
<1> DEFINE k == Len(R)
           l == Len(W)
           r == Rest(R, W)
           r2 == Rest(R2, W)
           t == Tail(r)
<1>1. /\ l \in Nat /\ k \in Nat /\ k < l /\ W \in Seq(S)
      /\ Len(R2) = k + 1 /\ Len(R2) \in Nat /\ Len(R2) <= l
  BY LenProperties
<1>2. /\ r \in Seq(S) /\ Len(r) = l - k /\ \A i \in 1 .. l - k : r[i] = W[k + i]
  BY <1>1, RestIs
<1>3. /\ r2 \in Seq(S) /\ Len(r2) = l - (k + 1)
      /\ \A i \in 1 .. l - (k + 1) : r2[i] = W[k + 1 + i]
  <2>1. W \in Seq(S) /\ Len(R2) \in Nat /\ Len(R2) <= Len(W)
    BY <1>1
  <2>2. /\ r2 \in Seq(S) /\ Len(r2) = l - Len(R2)
        /\ \A i \in 1 .. l - Len(R2) : r2[i] = W[Len(R2) + i]
    BY ONLY <2>1, RestIs
  <2> QED
    BY <1>1, <2>2
<1> HIDE DEF k, l, r, r2
<1>4. r # <<>>
  BY <1>1, <1>2, EmptySeq
<1>5. /\ Head(r) = r[1] /\ t \in Seq(S) /\ Len(t) = Len(r) - 1
      /\ \A i \in 1 .. Len(r) - 1 : t[i] = r[i + 1]
  BY <1>2, <1>4, HeadTailProperties
<1> HIDE DEF t
<1>6. Head(r) = W[k + 1]
  BY <1>1, <1>2, <1>5
<1>7. ASSUME NEW i \in 1 .. Len(r2) PROVE r2[i] = t[i]
  <2>1. i \in 1 .. l - (k + 1) /\ i \in 1 .. Len(r) - 1 /\ i + 1 \in 1 .. l - k
        /\ k + (i + 1) = k + 1 + i
    BY <1>1, <1>2, <1>3
  <2>2. t[i] = W[k + (i + 1)]
    BY <1>2, <1>5, <2>1
  <2> QED
    BY <1>3, <2>1, <2>2
<1>8. Len(r2) = Len(t)
  <2>1. Len(r2) = l - (k + 1) /\ Len(t) = (l - k) - 1
    BY <1>2, <1>3, <1>5
  <2>2. l - (k + 1) = (l - k) - 1
    BY ONLY <1>1
  <2> QED
    BY ONLY <2>1, <2>2
<1>9. r2 = t
  BY <1>3, <1>5, <1>7, <1>8, SeqEqual
<1> QED
  BY <1>4, <1>6, <1>9 DEF k, r, r2, t

Lossy == {e \in End : dropped[e]}
Using == {e \in End : status[e] # "disposed"}

\* A step that neither writes nor reads, disposes nor drops is no step of a
\* Connection.
Idle ==
  written' = written /\ read_' = read_ /\ dropped' = dropped /\ Using' = Using

LEMMA IdleStutters == Idle => UNCHANGED Ways!vars
<1> SUFFICES ASSUME Idle PROVE UNCHANGED Ways!vars
  OBVIOUS
<1>1. \A e \in End : Unread(e)' = Unread(e) /\ Heard(e)' = Heard(e)
  BY DEF Unread, Heard, Idle
<1>2. Lossy' = Lossy /\ Using' = Using
  BY DEF Lossy, Idle
<1> QED
  BY <1>1, <1>2 DEF Ways!vars, Lossy, Using

\* As long as it has dropped nothing, what an end has read is the beginning of what
\* its peer has written, and what waits in its bufIn_ comes next.
LEMMA LosesNothing ==
  ASSUME ReceptionInv, NEW e \in End, ~dropped[Peer(e)]
  PROVE  /\ read_[Peer(e)] \in Seq(Nat) /\ Starts(read_[Peer(e)], written[e])
         /\ status[Peer(e)] # "disposed" =>
              Parsed(bufIn_[Peer(e)], read_[Peer(e)], written[e],
                     Offset(written[e]), Len(given[Peer(e)]))
<1>1. Reception(e) /\ IsOffset(Offset(written[e]), written[e])
  BY WrittenOffsets DEF ReceptionInv
<1>2. CASE status[Peer(e)] # "disposed"
  <2>1. Parsed(bufIn_[Peer(e)], read_[Peer(e)], written[e], Offset(written[e]),
               Len(given[Peer(e)]))
    BY <1>1, <1>2 DEF Reception
  <2> QED
    BY <1>1, <1>2, <2>1, ParsedStarts
<1>3. CASE status[Peer(e)] = "disposed"
  BY <1>1, <1>3 DEF Reception
<1> QED
  BY <1>2, <1>3

LEMMA NextUnread ==
  ASSUME NEW W, NEW off, IsOffset(off, W), NEW b, NEW R, NEW x, Parsed(b, R, W, off, x), b.queue_ # <<>>
  PROVE  /\ Len(R) \in Nat /\ Len(R) < Len(W)
         /\ Head(b.queue_).size_ = W[Len(R) + 1]
         /\ Len(Append(R, Head(b.queue_).size_)) = Len(R) + 1
<1> DEFINE q == b.queue_
           r == Len(R)
           k == Len(q)
<1>1. PICK m \in Nat : Queued(b, R, W, off, m)
  BY DEF Parsed
<1>2. /\ R \in Seq(Nat) /\ q \in Seq(Message) /\ r \in Nat /\ k \in Nat /\ Len(W) \in Nat
      /\ m = r + k /\ m <= Len(W)
  BY <1>1, QueuedTypes
<1>3. \A i \in 1 .. k : q[i].size_ = W[r + i]
  BY <1>1 DEF Queued
<1> HIDE DEF q, r, k
<1>4. k >= 1 /\ Head(q) = q[1] /\ Head(q) \in Message
  <2>1. q # <<>>
    BY DEF q
  <2> QED
    BY <1>2, <2>1, EmptySeq, HeadTailProperties DEF k
<1>5. Head(q).size_ \in Nat
  BY <1>4 DEF Message
<1>6. Len(Append(R, Head(q).size_)) = r + 1
  BY <1>2, <1>5, AppendProperties DEF r
<1>7. r < Len(W) /\ 1 \in 1 .. k
  BY <1>2, <1>4
<1>8. Head(q).size_ = W[r + 1]
  BY <1>3, <1>4, <1>7
<1> QED
  BY <1>2, <1>6, <1>7, <1>8 DEF q, r

\* Write is a Write, and what is unread grows at its end.
LEMMA WriteIsWrite ==
  ASSUME ReceptionInv, NEW e \in End, NEW n \in Sizes[e], Write(e, n)
  PROVE  n \in 0 .. MaxMsgSize /\ Ways!Write(e, n)
<1>1. /\ status[e] # "disposed" /\ written' = [written EXCEPT ![e] = Append(@, n)]
      /\ read_' = read_ /\ dropped' = dropped /\ status' = status
  BY DEF Write
<1>2. n \in 0 .. MaxMsgSize
  <2>1. n \in Nat
    BY LinkAssumption
  <2> QED
    BY <2>1, BufferAssumption DEF Write, Fits
<1>3. /\ \A d \in End : written'[d] = IF d = e THEN Append(written[e], n) ELSE written[d]
      /\ written[e] \in Seq(0 .. MaxMsgSize)
  BY <1>1 DEF ReceptionInv, StreamInv, Shape
<1>4. \A d \in End : Heard(d)' = Heard(d)
  BY <1>1 DEF Heard
<1>5. ASSUME ~dropped[Peer(e)] PROVE Unread(e)' = Append(Unread(e), n)
  <2> DEFINE R == read_[Peer(e)]
             W == written[e]
  <2>1. R \in Seq(Nat) /\ Len(R) \in Nat /\ Len(R) <= Len(W)
    BY <1>5, LosesNothing, LenProperties DEF Starts
  <2>2. Unread(e) = Rest(R, W) /\ Unread(e)' = Rest(R, Append(W, n))
    BY <1>1, <1>3, <1>5 DEF Unread, Rest
  <2> DEFINE S == 0 .. MaxMsgSize
  <2>3. W \in Seq(S) /\ n \in S
    BY <1>2, <1>3
  <2> HIDE DEF R, W, S
  <2>4. Rest(R, Append(W, n)) = Append(Rest(R, W), n)
    BY ONLY <2>1, <2>3, RestAppend
  <2> QED
    BY <2>2, <2>4
<1>6. \A d \in End : d # e \/ dropped[Peer(e)] => Unread(d)' = Unread(d)
  BY <1>1, <1>3 DEF Unread
<1>7. Ways!Write(e, n)
  BY <1>1, <1>4, <1>5, <1>6, Peers DEF Ways!Write
<1> QED
  BY <1>2, <1>7

\* Read takes the oldest of what is unread; of an end that has lost one nothing
\* is said.
LEMMA ReadIsRead ==
  ASSUME ReceptionInv, NEW p \in End, Read(p)
  PROVE  Ways!Read(p) \/ UNCHANGED Ways!vars
<1> DEFINE e == Peer(p)
           w == Head(bufIn_[p].queue_).size_
<1>1. /\ bufIn_[p].queue_ # <<>> /\ status[p] # "disposed"
      /\ read_' = [read_ EXCEPT ![p] = Append(@, w)]
      /\ dropped' = dropped /\ status' = status /\ written' = written
  BY DEF Read, CanGetMessage
<1>2. e \in End /\ Peer(e) = p /\ e # p /\ \A d \in End : d # e => Peer(d) # p
  BY Peers
<1>3. \A d \in End : read_'[d] = IF d = p THEN Append(read_[p], w) ELSE read_[d]
  BY <1>1 DEF ReceptionInv, StreamInv, Shape
<1>4. CASE dropped[p]
  <2>1. \A d \in End : Unread(d)' = Unread(d) /\ Heard(d)' = Heard(d)
    <3> HIDE DEF e, w
    <3> QED
      BY <1>1, <1>2, <1>3, <1>4, Peers DEF Unread, Heard
  <2> QED
    BY <1>1, <2>1 DEF Ways!vars
<1>5. CASE ~dropped[p]
  <2> DEFINE R == read_[p]
             W == written[e]
  <2>1. Parsed(bufIn_[p], R, W, Offset(W), Len(given[p]))
    BY <1>1, <1>2, <1>5, LosesNothing
  <2> DEFINE S == 0 .. MaxMsgSize
  <2>2. W \in Seq(S) /\ IsOffset(Offset(W), W)
    BY <1>2, WrittenOffsets DEF ReceptionInv, StreamInv, Shape
  <2>3. /\ Len(R) \in Nat /\ Len(R) < Len(W) /\ w = W[Len(R) + 1]
        /\ Len(Append(R, w)) = Len(R) + 1
    <3> HIDE DEF R, W
    <3> QED
      BY <1>1, <2>1, <2>2, NextUnread
  <2>4. /\ Rest(R, W) # <<>> /\ Head(Rest(R, W)) = w
        /\ Rest(Append(R, w), W) = Tail(Rest(R, W))
    <3> DEFINE R2 == Append(R, w)
    <3>1. Len(R2) = Len(R) + 1
      BY <2>3
    <3> HIDE DEF R, W, w, S, R2
    <3>2. /\ Rest(R, W) # <<>> /\ Head(Rest(R, W)) = W[Len(R) + 1]
          /\ Rest(R2, W) = Tail(Rest(R, W))
      BY ONLY <2>2, <2>3, <3>1, RestRead
    <3> QED
      BY <2>3, <3>2 DEF R2
  <2>5. Unread(e) = Rest(R, W) /\ Unread(e)' = Rest(Append(R, w), W)
    BY <1>1, <1>2, <1>3, <1>5 DEF Unread, Rest
  <2>6. Heard(p) = R /\ Heard(p)' = Append(R, w)
    BY <1>1, <1>3, <1>5 DEF Heard
  <2>7. \A d \in End : /\ d # e => Unread(d)' = Unread(d)
                       /\ d # p => Heard(d)' = Heard(d)
    <3> HIDE DEF e, w
    <3> QED
      BY <1>1, <1>2, <1>3, Peers DEF Unread, Heard
  <2> HIDE DEF R, W, w
  <2>8. /\ Unread(e) # <<>> /\ Unread(e)' = Tail(Unread(e))
        /\ Heard(p)' = Append(Heard(p), Head(Unread(e)))
    BY <2>4, <2>5, <2>6
  <2>9. Ways!Read(p)
    BY <1>1, <1>2, <1>5, <2>7, <2>8 DEF Ways!Read
  <2> QED
    BY <2>9
<1> QED
  BY <1>4, <1>5

\* The sum of the sizes s is what adding them up, one by one, comes to.
LEMMA TotalIs ==
  ASSUME NEW s \in Seq(Nat), NEW g \in [0 .. Len(s) -> Int], g[0] = 0,
         \A i \in 1 .. Len(s) : g[i] = g[i - 1] + s[i]
  PROVE  Ways!Total(s) = g[Len(s)]
<1> DEFINE n == Len(s)
           IsSum(f) == f = [i \in 0 .. n |-> IF i = 0 THEN 0 ELSE f[i - 1] + s[i]]
           sum == CHOOSE f : IsSum(f)
           P == {i \in Nat : i <= n => sum[i] = g[i]}
<1>1. n \in Nat
  BY LenProperties
<1>2. Ways!Total(s) = sum[n]
  BY DEF Ways!Total
<1> HIDE DEF n, sum
<1>3. IsSum(g)
  <2>1. \A i \in 0 .. n : g[i] = IF i = 0 THEN 0 ELSE g[i - 1] + s[i]
    <3>1. \A i \in 0 .. n : i # 0 => i \in 1 .. n
      BY <1>1
    <3> QED
      BY <3>1 DEF n
  <2>2. g = [i \in 0 .. n |-> g[i]]
    BY DEF n
  <2> QED
    BY <2>1, <2>2
<1>4. IsSum(sum)
  <2> HIDE DEF IsSum
  <2>1. \E f : IsSum(f)
    BY <1>3
  <2> QED
    BY <2>1 DEF sum
<1>5. \A i \in 0 .. n : sum[i] = IF i = 0 THEN 0 ELSE sum[i - 1] + s[i]
  BY <1>4
<1>6. 0 \in P
  BY <1>1, <1>5
<1>7. ASSUME NEW i \in Nat, i \in P PROVE i + 1 \in P
  <2> SUFFICES ASSUME i + 1 <= n PROVE sum[i + 1] = g[i + 1]
    OBVIOUS
  <2>1. i + 1 \in 1 .. n /\ i + 1 \in 0 .. n /\ i + 1 # 0 /\ (i + 1) - 1 = i /\ i <= n
    BY <1>1
  <2>2. sum[i + 1] = sum[i] + s[i + 1]
    BY <1>5, <2>1
  <2>3. g[i + 1] = g[i] + s[i + 1]
    BY <2>1 DEF n
  <2> QED
    BY <1>7, <2>1, <2>2, <2>3
<1> HIDE DEF P
<1>8. n \in P
  BY <1>1, <1>6, <1>7, Induction
<1> QED
  BY <1>1, <1>2, <1>8 DEF P, n

\* The bytes of the messages not read are those of their frames but for the
\* lengths.
LEMMA TotalOfRest ==
  ASSUME NEW W, NEW off, IsOffset(off, W), NEW R, Len(R) \in Nat, Len(R) <= Len(W)
  PROVE  /\ Len(Rest(R, W)) = Len(W) - Len(R)
         /\ Ways!Total(Rest(R, W)) = off[Len(W)] - off[Len(R)] - 2 * (Len(W) - Len(R))
<1> DEFINE r == Len(R)
           l == Len(W)
           s == Rest(R, W)
           g == [i \in 0 .. l - r |-> off[r + i] - off[r] - 2 * i]
<1>1. W \in Seq(Nat) /\ l \in Nat /\ r \in Nat /\ r <= l
  BY LenProperties DEF IsOffset
<1>2. s \in Seq(Nat) /\ Len(s) = l - r /\ \A i \in 1 .. l - r : s[i] = W[r + i]
  BY <1>1, RestIs
<1>3. \A i \in 0 .. l : off[i] \in Nat
  BY DEF IsOffset
<1> HIDE DEF s, r, l
<1>4. \A i \in 0 .. l - r : r + i \in 0 .. l /\ off[r + i] \in Nat
  <2>1. \A i \in 0 .. l - r : r + i \in 0 .. l
    BY <1>1
  <2> QED
    BY <1>3, <2>1
<1>5. off[r] \in Nat /\ r + 0 = r /\ 0 \in 0 .. l - r /\ l - r \in 0 .. l - r
      /\ r + (l - r) = l
  BY <1>1, <1>3
<1>6. g \in [0 .. l - r -> Int]
  <2>1. \A x, y \in Nat : \A i \in 0 .. l - r : x - y - 2 * i \in Int
    BY <1>1
  <2>2. \A i \in 0 .. l - r : off[r + i] - off[r] - 2 * i \in Int
    BY <1>4, <1>5, <2>1
  <2> QED
    BY <2>2
<1>7. g[0] = 0
  BY <1>5
<1>8. ASSUME NEW i \in 1 .. l - r PROVE g[i] = g[i - 1] + s[i]
  <2>1. /\ i \in 0 .. l - r /\ i - 1 \in 0 .. l - r /\ r + i \in 1 .. l
        /\ (r + i) - 1 = r + (i - 1)
    BY <1>1
  <2>2. off[r + i] = off[r + (i - 1)] + 2 + W[r + i]
    BY <2>1 DEF IsOffset, l
  <2>3. off[r + (i - 1)] \in Nat /\ s[i] \in Nat /\ s[i] = W[r + i]
    <3>1. i \in 1 .. Len(s)
      BY <1>2
    <3> QED
      BY <1>2, <1>4, <2>1, <3>1, ElementOfSeq
  <2>4. g[i] = off[r + i] - off[r] - 2 * i /\ g[i - 1] = off[r + (i - 1)] - off[r] - 2 * (i - 1)
    BY <2>1
  <2> DEFINE x == off[r + (i - 1)]
             y == off[r + i]
             z == off[r]
             w == s[i]
  <2>5. x \in Nat /\ z \in Nat /\ w \in Nat /\ y = x + 2 + w /\ i \in Int
    BY <1>5, <2>2, <2>3
  <2>6. g[i] = y - z - 2 * i /\ g[i - 1] = x - z - 2 * (i - 1)
    BY <2>4
  <2> HIDE DEF g, x, y, z, w
  <2>7. g[i] = g[i - 1] + w
    BY <2>5, <2>6
  <2> QED
    BY <2>7 DEF w
<1>9. Ways!Total(s) = g[l - r]
  <2> HIDE DEF g
  <2>1. g \in [0 .. Len(s) -> Int] /\ \A i \in 1 .. Len(s) : g[i] = g[i - 1] + s[i]
    BY <1>2, <1>6, <1>8
  <2>2. Ways!Total(s) = g[Len(s)]
    BY <1>2, <1>7, <2>1, TotalIs
  <2> QED
    BY <1>2, <2>2
<1>10. g[l - r] = off[l] - off[r] - 2 * (l - r)
  BY <1>5
<1> QED
  BY <1>2, <1>9, <1>10 DEF r, l, s

\* A bufIn_ too full for the next message: more is unread than it may hold.
LEMMA CrowdedIsTooMuch ==
  ASSUME NEW W, NEW off, IsOffset(off, W), \A i \in 1 .. Len(W) : W[i] <= MaxMsgSize,
         NEW b, NEW R, Crowded(b, R, W, off)
  PROVE  Ways!TooMuch(Rest(R, W))
<1> DEFINE r == Len(R)
           l == Len(W)
           k == Len(b.queue_)
<1>1. PICK m \in Nat : Queued(b, R, W, off, m) /\ m < Len(W) /\ ~Fits(b, W[m + 1])
  BY DEF Crowded
<1>2. /\ r \in Nat /\ k \in Nat /\ l \in Nat /\ m = r + k /\ m < l
      /\ \A i \in 1 .. l : W[i] \in Nat
      /\ \A i \in 0 .. l : off[i] \in Nat
      /\ off[m + 1] = off[m] + 2 + W[m + 1]
  BY <1>1, QueuedTypes
<1>3. b.written_ = off[m] - off[r] - 2 * k
  BY <1>1 DEF Queued
<1> DEFINE A == off[m]
           B == off[r]
           C == off[m + 1]
           D == off[l]
           w == W[m + 1]
<1>4. r <= l /\ r \in 0 .. l /\ m \in 0 .. l /\ m + 1 \in 1 .. l /\ m + 1 \in 0 .. l /\ l \in m + 1 .. l
  BY <1>2
<1>5. A \in Nat /\ B \in Nat /\ C \in Nat /\ D \in Nat /\ w \in Nat
  BY <1>2, <1>4
<1>6. D >= C + 2 * (l - (m + 1))
  BY <1>4, OffsetGrows
<1>7. /\ Len(Rest(R, W)) = l - r
      /\ Ways!Total(Rest(R, W)) = D - B - 2 * (l - r)
  BY <1>2, <1>4, TotalOfRest
<1>8. w <= MaxMsgSize
  BY <1>4
<1>9. C = A + 2 + w
  BY <1>2
<1> HIDE DEF A, B, C, D, w
<1>10. k >= MaxNumMessages \/ b.written_ + w > QueueSize
  <2>1. b.written_ \in Int
    BY <1>2, <1>3, <1>5 DEF A, B
  <2> QED
    BY <1>1, <1>2, <1>5, <1>8, <2>1, BufferAssumption DEF Fits, w, k
<1>11. CASE k >= MaxNumMessages
  <2>1. l - r > MaxNumMessages
    BY <1>2, <1>11, BufferAssumption
  <2> QED
    BY <1>7, <2>1 DEF Ways!TooMuch
<1>12. CASE b.written_ + w > QueueSize
  <2>1. (A - B - 2 * k) + w > QueueSize
    BY <1>3, <1>12 DEF A, B
  <2> HIDE DEF r, l, k
  <2>2. D - B - 2 * (l - r) > QueueSize
    BY <1>2, <1>5, <1>6, <1>9, <2>1, BufferAssumption
  <2> QED
    BY <1>7, <2>2 DEF Ways!TooMuch
<1> QED
  BY <1>10, <1>11, <1>12

\* recv() loses nothing, or what is unread was too much.
LEMMA ReceiveIsLose ==
  ASSUME ReceptionInv, NEW e \in End, status[e] = "open",
         NEW n \in 1 .. AtMost(MaxMsgSize, Len(pipe[Peer(e)])), DoReadData(e, n)
  PROVE  Ways!Lose(e) \/ UNCHANGED Ways!vars
<1> DEFINE x == SubSeq(pipe[Peer(e)], 1, n)
           W == written[Peer(e)]
<1>1. /\ dropped' = [dropped EXCEPT ![e] = @ \/ Drops(bufIn_[e], x)]
      /\ read_' = read_ /\ status' = status /\ written' = written
  BY DEF DoReadData
<1>2. ~dropped[e] =>
        /\ StreamSoFar(W, Offset(W), taken[Peer(e)], Len(given[e] \o x))
        /\ Drops(bufIn_[e], x) => \E c : Crowded(c, read_[e], W, Offset(W))
  BY ReceivedIsParsed
<1> HIDE DEF x
<1>3. /\ dropped \in [End -> BOOLEAN] /\ dropped' \in [End -> BOOLEAN]
      /\ \A d \in End : d # e => dropped'[d] = dropped[d]
      /\ dropped'[e] = (dropped[e] \/ Drops(bufIn_[e], x))
  BY <1>1 DEF ReceptionInv, StreamInv, Shape, Drops
<1>4. CASE dropped'[e] = dropped[e]
  <2>1. dropped' = dropped
    BY <1>3, <1>4
  <2> QED
    BY <1>1, <2>1, IdleStutters DEF Idle, Using
<1>5. CASE dropped'[e] # dropped[e]
  <2>1. dropped'[e] /\ ~dropped[e] /\ Drops(bufIn_[e], x)
    <3> DEFINE now == dropped[e]
               next == dropped'[e]
               drops == Drops(bufIn_[e], x)
    <3>1. now \in BOOLEAN /\ next \in BOOLEAN
      <4> \A f \in [End -> BOOLEAN] : f[e] \in BOOLEAN
        OBVIOUS
      <4> QED
        BY <1>3
    <3>2. next = (now \/ drops) /\ next # now
      BY <1>3, <1>5
    <3> HIDE DEF now, next, drops
    <3>3. next /\ ~now /\ drops
      BY <3>1, <3>2, Zenon
    <3> QED
      BY <3>3 DEF now, next, drops
  <2>2. /\ Unread(Peer(e))' = <<>> /\ Heard(e)' = <<>>
        /\ \A d \in End : /\ d # Peer(e) => Unread(d)' = Unread(d)
                          /\ d # e => Heard(d)' = Heard(d)
    BY <1>1, <1>3, <2>1, Peers DEF Unread, Heard
  <2>3. Lossy' = Lossy \cup {e} /\ e \notin Lossy
    BY <1>3, <2>1 DEF Lossy
  <2>4. Using' = Using /\ e \in Using
    BY <1>1 DEF Using
  <2>5. /\ [d \in End |-> Unread(d)]' = [[d \in End |-> Unread(d)] EXCEPT ![Peer(e)] = <<>>]
        /\ [d \in End |-> Heard(d)]' = [[d \in End |-> Heard(d)] EXCEPT ![e] = <<>>]
    BY <2>2
  <2>6. Ways!TooMuch(Unread(Peer(e)))
    <3>1. IsOffset(Offset(W), W) /\ \A i \in 1 .. Len(W) : W[i] <= MaxMsgSize
      BY <1>2, <2>1 DEF StreamSoFar
    <3>2. PICK c : Crowded(c, read_[e], W, Offset(W))
      BY <1>2, <2>1
    <3>3. Unread(Peer(e)) = Rest(read_[e], W)
      BY <2>1, Peers DEF Unread, Rest
    <3> HIDE DEF W
    <3> QED
      BY <3>1, <3>2, <3>3, CrowdedIsTooMuch
  <2>7. Peer(e) \in End
    BY Peers
  <2> QED
    BY <2>3, <2>4, <2>5, <2>6, <2>7 DEF Ways!Lose, Lossy, Using
<1> QED
  BY <1>4, <1>5

LEMMA DisposeIsDispose ==
  ASSUME ReceptionInv, NEW e \in End, Dispose(e)
  PROVE  Ways!Dispose(e)
<1>1. /\ status[e] # "disposed" /\ status' = [status EXCEPT ![e] = "disposed"]
      /\ read_' = read_ /\ dropped' = dropped /\ written' = written
  BY DEF Dispose, history
<1>2. \A d \in End : Unread(d)' = Unread(d) /\ Heard(d)' = Heard(d)
  BY <1>1 DEF Unread, Heard
<1>3. \A d \in End : status'[d] # "disposed" <=> status[d] # "disposed" /\ d # e
  BY <1>1 DEF ReceptionInv, StreamInv, Shape
<1> QED
  BY <1>1, <1>2, <1>3 DEF Ways!Dispose

\* Closing, sending and losing the connection are nothing to a Connection.
LEMMA OthersStutter ==
  ASSUME ReceptionInv,
         \/ \E e \in End : /\ status[e] = "open" /\ CloseSocket(e)
                           /\ UNCHANGED <<bufIn_, bufOut_, writebuf_, history>>
         \/ \E e \in End : status[e] = "open" /\ \E w \in Nat : DoWriteData(e, w)
         \/ \E e \in End : status[e] = "open" /\ DoWriteFails(e)
         \/ Break
         \/ UNCHANGED vars
  PROVE  UNCHANGED Ways!vars
<1>1. CASE \E e \in End : /\ status[e] = "open" /\ CloseSocket(e)
                          /\ written' = written /\ read_' = read_ /\ dropped' = dropped
  <2>1. Using' = Using
    BY <1>1 DEF CloseSocket, Using, ReceptionInv, StreamInv, Shape
  <2> QED
    BY <1>1, <2>1, IdleStutters DEF Idle
<1>2. CASE \E e \in End : \E w \in Nat : DoWriteData(e, w)
  BY <1>2, IdleStutters DEF Idle, DoWriteData, Using
<1>3. CASE Break \/ UNCHANGED vars
  BY <1>3, IdleStutters DEF Idle, Break, socket, history, vars, Using
<1> QED
  BY <1>1, <1>2, <1>3 DEF history, DoWriteFails

\* documentation.h: "each call to write() on a socket will result in exactly one
\* return from read() for as many bytes on the other end".  To the applications
\* the two sockets, their buffers, the bytes under way and the partial sends are a
\* first-in first-out queue of messages each way, whatever the limits; a message
\* can be dropped only when more are unread than a bufIn_ may hold.
THEOREM LinkIsConnection == Spec => IsConnection
<1>1. Init => Ways!Init
  <2> SUFFICES ASSUME Init PROVE Ways!Init
    OBVIOUS
  <2>1. \A e \in End : Unread(e) = <<>> /\ Heard(e) = <<>> /\ ~dropped[e] /\ status[e] = "open"
    BY Peers, RestEmpty DEF Init, Unread, Heard, Rest
  <2> QED
    BY <2>1 DEF Ways!Init
<1>2. ReceptionInv /\ [Next]_vars => [Ways!Next]_(Ways!vars)
  <2> SUFFICES ASSUME ReceptionInv, [Next]_vars
               PROVE  Ways!Next \/ UNCHANGED Ways!vars
    OBVIOUS
  <2>1. CASE \E e \in End : \E n \in Sizes[e] : Write(e, n)
    BY <2>1, WriteIsWrite DEF Ways!Next
  <2>2. CASE \E e \in End : Read(e)
    BY <2>2, ReadIsRead DEF Ways!Next
  <2>3. CASE \E e \in End : Dispose(e)
    BY <2>3, DisposeIsDispose DEF Ways!Next
  <2>4. CASE \E e \in End : /\ status[e] = "open" /\ ~InSend(e)
                            /\ \E n \in 1 .. AtMost(MaxMsgSize, Len(pipe[Peer(e)])) :
                                 DoReadData(e, n)
    BY <2>4, ReceiveIsLose DEF Ways!Next
  <2> QED
    BY <2>1, <2>2, <2>3, <2>4, Steps, OthersStutter
<1>3. Spec => Ways!Spec
  BY <1>1, <1>2, ReceptionInvariance, PTL DEF Spec, Ways!Spec
<1> QED
  BY <1>3 DEF IsConnection

=============================================================================

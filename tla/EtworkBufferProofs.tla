-------------------------- MODULE EtworkBufferProofs --------------------------
(***************************************************************************)
(* Proofs about EtworkBuffer for every choice of its limits, of the byte   *)
(* range, of the messages sent and of the way calls cut them.              *)
(*                                                                         *)
(* Capacity and QueueIsFifo are not inductive alone.  Room for a message   *)
(* is checked when its header is read and used when its last byte comes,   *)
(* so the invariant keeps the room reserved for the target in between      *)
(* (BufferOK); written_ is never below zero because it is a difference of  *)
(* running totals (Totals).                                                *)
(*                                                                         *)
(* FramesFollowed, OutputFramed and NoNeedlessDrop relate the buffer to    *)
(* all that was sent.  Their invariant, FollowInv, names what no variable  *)
(* holds: the whole stream S of the peer's frames and the place off[k]     *)
(* where the k-th ends (IsStream).  The bytes not used yet are the rest of *)
(* S, and the buffer's fields say between which bytes of which frame they  *)
(* begin (Point): at a frame or in one that is skipped, after one length   *)
(* byte, or in the body being filled.                                      *)
(***************************************************************************)
EXTENDS EtworkBuffer, TLAPS, SequenceTheorems, WellFoundedInduction

\* Some room is held for the message being filled; a message's memory is as
\* long as the message, and no offset is beyond its end.
MessageOK(m) ==
  m.size_ <= MaxMsgSize /\ Len(m.body) = m.size_ /\ m.offset_ <= m.size_

BufferOK(b) ==
  /\ b \in BufferType
  /\ Len(b.queue_) <= MaxNumMessages
  /\ b.written_ <= QueueSize
  /\ \A i \in DOMAIN b.queue_ : MessageOK(b.queue_[i])
  /\ b.curTarget_ # NULL =>
       /\ MessageOK(b.curTarget_)
       /\ Len(b.queue_) < MaxNumMessages
       /\ b.written_ + b.curTarget_.size_ <= QueueSize
       /\ b.tmpSize_ = NoSize

\* c is b, or b with one more message at the end of its queue.
Grows(b, c) ==
  \/ c.queue_ = b.queue_ /\ c.written_ = b.written_
  \/ \E m \in Message : /\ MessageOK(m)
                        /\ c.queue_ = Append(b.queue_, m)
                        /\ c.written_ = b.written_ + m.size_

-----------------------------------------------------------------------------
(* The operations. *)

LEMMA FieldTypes ==
  ASSUME NEW b, BufferOK(b)
  PROVE  /\ b.queue_ \in Seq(Message) /\ b.written_ \in Nat /\ b.toSkip_ \in Nat
         /\ b.tmpSize_ \in Nat \cup {NoSize} /\ b.curTarget_ \in Message \cup {NULL}
  BY DEF BufferOK, BufferType

LEMMA NewMessageOK ==
  ASSUME NEW b, BufferOK(b), NEW size \in Nat, NewMessage(b, size) # NULL
  PROVE  /\ NewMessage(b, size) \in Message
         /\ MessageOK(NewMessage(b, size))
         /\ NewMessage(b, size).size_ = size
         /\ Len(b.queue_) < MaxNumMessages
         /\ b.written_ + size <= QueueSize
<1>1. Fits(b, size)
  BY DEF NewMessage
<1>2. NewMessage(b, size)
        = [size_ |-> size, offset_ |-> 0, body |-> [i \in 1 .. size |-> Junk]]
  BY <1>1 DEF NewMessage
<1>3. Junk \in Cell
  BY DEF Cell
<1>4. /\ [i \in 1 .. size |-> Junk] \in Seq(Cell)
      /\ Len([i \in 1 .. size |-> Junk]) = size
  BY <1>3, SMT
<1> QED
  BY <1>1, <1>2, <1>4, BufferAssumption DEF Fits, MessageOK, Message

LEMMA StartMessageOK ==
  ASSUME NEW b, BufferOK(b), b.curTarget_ = NULL, NEW length \in Nat
  PROVE  /\ BufferOK(StartMessage(b, length))
         /\ StartMessage(b, length).queue_ = b.queue_
         /\ StartMessage(b, length).written_ = b.written_
         /\ StartMessage(b, length).tmpSize_ = NoSize
<1> DEFINE target == NewMessage(b, length)
           c == StartMessage(b, length)
<1>1. /\ c.queue_ = b.queue_ /\ c.written_ = b.written_ /\ c.tmpSize_ = NoSize
      /\ c.curTarget_ = target
      /\ c.toSkip_ = IF target = NULL THEN length ELSE b.toSkip_
  BY DEF StartMessage, BufferOK, BufferType
<1>2. target \in Message \cup {NULL}
  BY NewMessageOK
<1>3. c \in BufferType
  <2>1. c = [b EXCEPT !.curTarget_ = target,
                !.toSkip_ = IF target = NULL THEN length ELSE @,
                !.tmpSize_ = NoSize]
    BY DEF StartMessage
  <2>2. (IF target = NULL THEN length ELSE b.toSkip_) \in Nat
    BY FieldTypes
  <2> HIDE DEF target, c
  <2> QED
    BY <1>2, <2>1, <2>2 DEF BufferOK, BufferType
<1>4. target # NULL => /\ MessageOK(target)
                       /\ Len(b.queue_) < MaxNumMessages
                       /\ b.written_ + target.size_ <= QueueSize
  BY NewMessageOK
<1> HIDE DEF target, c
<1>5. BufferOK(c)
  BY <1>1, <1>3, <1>4 DEF BufferOK
<1> QED
  BY <1>1, <1>5 DEF c

LEMMA SubSeqOfBytes ==
  ASSUME NEW bytes \in Seq(Byte), NEW k \in Nat
  PROVE  SubSeq(bytes, k + 1, Len(bytes)) \in Seq(Byte)
<1>1. ASSUME NEW i \in (k + 1) .. Len(bytes) PROVE bytes[i] \in Byte
  BY <1>1, ElementOfSeq
<1> QED
  BY <1>1, SubSeqProperties

LEMMA SkipBytesOK ==
  ASSUME NEW b, BufferOK(b), NEW bytes \in Seq(Byte)
  PROVE  /\ BufferOK(SkipBytes(b, bytes).buf)
         /\ Grows(b, SkipBytes(b, bytes).buf)
         /\ SkipBytes(b, bytes).rest \in Seq(Byte)
<1> DEFINE skip == AtMost(b.toSkip_, Len(bytes))
           c == [b EXCEPT !.toSkip_ = @ - skip]
<1>1. skip \in Nat /\ b.toSkip_ - skip \in Nat
  BY FieldTypes, LenProperties DEF AtMost
<1>2. SkipBytes(b, bytes) = [buf |-> c, rest |-> SubSeq(bytes, skip + 1, Len(bytes))]
  BY DEF SkipBytes
<1>3. SubSeq(bytes, skip + 1, Len(bytes)) \in Seq(Byte)
  BY <1>1, SubSeqOfBytes
<1> HIDE DEF skip
<1>4. BufferOK(c) /\ c.queue_ = b.queue_ /\ c.written_ = b.written_
  BY <1>1 DEF BufferOK, BufferType
<1> HIDE DEF c
<1>5. Grows(b, c)
  BY <1>4 DEF Grows
<1> QED
  BY <1>2, <1>3, <1>4, <1>5

LEMMA RewoundMessage ==
  ASSUME NEW m \in Message
  PROVE  LET f == [m EXCEPT !.offset_ = 0]
         IN  /\ f \in Message /\ f.size_ = m.size_
             /\ f.offset_ = 0 /\ f.body = m.body
  BY DEF Message

LEMMA FillTargetOK ==
  ASSUME NEW b, BufferOK(b), b.curTarget_ # NULL, NEW bytes \in Seq(Byte)
  PROVE  /\ BufferOK(FillTarget(b, bytes).buf)
         /\ Grows(b, FillTarget(b, bytes).buf)
         /\ FillTarget(b, bytes).rest \in Seq(Byte)
<1> DEFINE target == b.curTarget_
           toread == AtMost(target.size_ - target.offset_, Len(bytes))
           body   == CopyIn(target.body, bytes, toread)
           filled == [size_ |-> target.size_, offset_ |-> target.offset_ + toread,
                      body |-> body]
           whole  == [filled EXCEPT !.offset_ = 0]
           queued == [b EXCEPT !.queue_ = Append(@, whole),
                               !.written_ = @ + filled.size_,
                               !.curTarget_ = NULL]
           waits  == [b EXCEPT !.curTarget_ = filled]
<1>1. target \in Message /\ MessageOK(target)
  BY DEF BufferOK, BufferType
<1>2. /\ toread \in Nat /\ toread <= Len(bytes)
      /\ target.offset_ + toread <= target.size_
  BY <1>1, LenProperties DEF Message, MessageOK, AtMost
<1>3. body \in Seq(Cell) /\ Len(body) = Len(target.body)
  <2>1. target.body \in Seq(Cell)
    BY <1>1 DEF Message
  <2>2. ASSUME NEW i \in 1 .. Len(target.body)
        PROVE  (IF i <= toread THEN bytes[i] ELSE target.body[i]) \in Cell
    BY <1>2, <2>1, ElementOfSeq, LenProperties DEF Cell
  <2>3. body = [i \in 1 .. Len(target.body) |->
                   IF i <= toread THEN bytes[i] ELSE target.body[i]]
    BY <2>1 DEF CopyIn
  <2> HIDE DEF toread, target, body
  <2> QED
    BY <2>1, <2>2, <2>3, SMT
<1> HIDE DEF target, toread
<1>4. /\ filled \in Message /\ filled.size_ = target.size_
      /\ filled.offset_ = target.offset_ + toread /\ filled.body = body
  <2> HIDE DEF body
  <2> QED
    BY <1>1, <1>2, <1>3 DEF Message
<1> HIDE DEF filled
<1>5. MessageOK(filled) /\ whole \in Message /\ MessageOK(whole)
      /\ whole.size_ = target.size_
  <2>1. /\ whole \in Message /\ whole.size_ = target.size_
        /\ whole.offset_ = 0 /\ whole.body = body
    BY <1>4, RewoundMessage
  <2> HIDE DEF whole, body
  <2> QED
    BY <1>1, <1>2, <1>3, <1>4, <2>1 DEF MessageOK, Message
<1>6. FillTarget(b, bytes)
        = [buf  |-> IF filled.offset_ = filled.size_ THEN queued ELSE waits,
           rest |-> SubSeq(bytes, toread + 1, Len(bytes))]
  BY DEF FillTarget, target, toread, filled
<1>7. SubSeq(bytes, toread + 1, Len(bytes)) \in Seq(Byte)
  BY <1>2, SubSeqOfBytes
<1> HIDE DEF filled, whole, body, toread
<1>8. /\ Len(b.queue_) < MaxNumMessages
      /\ b.written_ + target.size_ <= QueueSize
      /\ b.tmpSize_ = NoSize
  BY DEF BufferOK, target
<1>9. BufferOK(queued) /\ Grows(b, queued)
  <2>1. queued.queue_ = Append(b.queue_, whole)
        /\ queued.written_ = b.written_ + target.size_ /\ queued.curTarget_ = NULL
    BY <1>4 DEF BufferOK, BufferType
  <2>2. /\ Append(b.queue_, whole) \in Seq(Message)
        /\ Len(Append(b.queue_, whole)) = Len(b.queue_) + 1
        /\ \A i \in 1 .. Len(b.queue_) : Append(b.queue_, whole)[i] = b.queue_[i]
        /\ Append(b.queue_, whole)[Len(b.queue_) + 1] = whole
    BY <1>5, FieldTypes, AppendProperties
  <2>3. queued \in BufferType
    <3>1. b.written_ + filled.size_ \in Nat
      BY <1>1, <1>4, FieldTypes DEF Message
    <3> QED
      BY <2>2, <3>1 DEF BufferOK, BufferType
  <2>4. \A i \in DOMAIN queued.queue_ : MessageOK(queued.queue_[i])
    BY <1>5, <2>1, <2>2, FieldTypes, LenProperties DEF BufferOK
  <2>5. Len(queued.queue_) <= MaxNumMessages
    BY <1>8, <2>1, <2>2, FieldTypes, LenProperties, BufferAssumption
  <2>6. BufferOK(queued)
    BY <1>8, <2>1, <2>3, <2>4, <2>5 DEF BufferOK
  <2>7. Grows(b, queued)
    BY <1>5, <2>1 DEF Grows
  <2> QED
    BY <2>6, <2>7
<1>10. BufferOK(waits) /\ Grows(b, waits)
  <2>1. /\ waits.queue_ = b.queue_ /\ waits.written_ = b.written_
        /\ waits.curTarget_ = filled /\ waits.tmpSize_ = b.tmpSize_
    BY DEF BufferOK, BufferType
  <2>2. waits \in BufferType
    BY <1>4 DEF BufferOK, BufferType
  <2> QED
    BY <1>4, <1>5, <1>8, <2>1, <2>2 DEF BufferOK, Grows
<1> QED
  BY <1>6, <1>7, <1>9, <1>10

LEMMA NonEmpty ==
  ASSUME NEW S, NEW s \in Seq(S), s # <<>>
  PROVE  /\ Len(s) \in Nat /\ Len(s) >= 1
         /\ Head(s) = s[1] /\ Head(s) \in S
         /\ Tail(s) \in Seq(S) /\ Len(Tail(s)) = Len(s) - 1
         /\ \A i \in 1 .. Len(Tail(s)) : Tail(s)[i] = s[i+1]
<1>1. Len(s) \in Nat \ {0}
  BY EmptySeq
<1> QED
  BY <1>1, ElementOfSeq, HeadTailProperties

LEMMA UseBytesOK ==
  ASSUME NEW b, BufferOK(b), NEW bytes \in Seq(Byte)
  PROVE  /\ BufferOK(UseBytes(b, bytes).buf)
         /\ Grows(b, UseBytes(b, bytes).buf)
         /\ UseBytes(b, bytes).rest \in Seq(Byte)
  BY SkipBytesOK, FillTargetOK DEF UseBytes

LEMMA StartAndUseOK ==
  ASSUME NEW b, BufferOK(b), b.curTarget_ = NULL, NEW length \in Nat,
         NEW bytes \in Seq(Byte)
  PROVE  LET t == UseBytes(StartMessage(b, length), bytes)
         IN  BufferOK(t.buf) /\ Grows(b, t.buf) /\ t.rest \in Seq(Byte)
<1> DEFINE c == StartMessage(b, length)
<1>1. BufferOK(c) /\ c.queue_ = b.queue_ /\ c.written_ = b.written_
  BY StartMessageOK
<1> HIDE DEF c
<1>2. /\ BufferOK(UseBytes(c, bytes).buf) /\ Grows(c, UseBytes(c, bytes).buf)
      /\ UseBytes(c, bytes).rest \in Seq(Byte)
  BY <1>1, UseBytesOK
<1>3. Grows(b, UseBytes(c, bytes).buf)
  BY <1>1, <1>2 DEF Grows
<1> QED
  BY <1>2, <1>3 DEF c

\* A turn of put_data keeps the buffer well formed, whatever bytes arrive, and
\* queues at most one message.
LEMMA PutDataTurnOK ==
  ASSUME NEW b, BufferOK(b), NEW bytes \in Seq(Byte), bytes # <<>>
  PROVE  /\ BufferOK(PutDataTurn(b, bytes).buf)
         /\ Grows(b, PutDataTurn(b, bytes).buf)
         /\ PutDataTurn(b, bytes).rest \in Seq(Byte)
<1>1. bytes[1] \in Nat /\ Len(bytes) \in Nat /\ Tail(bytes) \in Seq(Byte)
  BY ElementOfSeq, LenProperties, EmptySeq, HeadTailProperties, BufferAssumption DEF Byte
<1>2. CASE b.tmpSize_ # NoSize
  <2>1. b.curTarget_ = NULL /\ b.tmpSize_ + bytes[1] \in Nat
    BY <1>1, <1>2, FieldTypes DEF BufferOK
  <2>2. PutDataTurn(b, bytes)
          = UseBytes(StartMessage(b, b.tmpSize_ + bytes[1]), Tail(bytes))
    BY <1>2 DEF PutDataTurn
  <2> QED
    BY <1>1, <2>1, <2>2, StartAndUseOK
<1>3. CASE b.tmpSize_ = NoSize /\ b.curTarget_ # NULL
  BY <1>3, FillTargetOK DEF PutDataTurn
<1>4. CASE b.tmpSize_ = NoSize /\ b.curTarget_ = NULL /\ Len(bytes) = 1
  <2> DEFINE c == [b EXCEPT !.tmpSize_ = HalfLength(bytes[1])]
  <2>1. HalfLength(bytes[1]) \in Nat
    BY <1>1, BufferAssumption DEF HalfLength
  <2>2. BufferOK(c) /\ c.queue_ = b.queue_ /\ c.written_ = b.written_
    BY <1>4, <2>1 DEF BufferOK, BufferType
  <2>3. PutDataTurn(b, bytes) = [buf |-> c, rest |-> <<>>]
    BY <1>4 DEF PutDataTurn
  <2>4. <<>> \in Seq(Byte)
    BY EmptySeq
  <2> HIDE DEF c
  <2>5. Grows(b, c)
    BY <2>2 DEF Grows
  <2> QED
    BY <2>2, <2>3, <2>4, <2>5
<1>5. CASE b.tmpSize_ = NoSize /\ b.curTarget_ = NULL /\ Len(bytes) # 1
  <2>1. Len(bytes) >= 2
    <3>1. Len(bytes) \in Nat /\ Len(bytes) >= 1
      BY NonEmpty
    <3>2. Len(bytes) # 1
      BY <1>5
    <3>3. \A n \in Nat : n >= 1 /\ n # 1 => n >= 2
      OBVIOUS
    <3> QED
      BY <3>1, <3>2, <3>3
  <2>2. bytes[1] * Radix + bytes[2] \in Nat
    <3>1. 1 \in 1 .. Len(bytes) /\ 2 \in 1 .. Len(bytes)
      BY <2>1, LenProperties
    <3>2. bytes[1] \in Byte /\ bytes[2] \in Byte
      BY <3>1, ElementOfSeq
    <3>3. bytes[1] \in Nat /\ bytes[2] \in Nat /\ Radix \in Nat
      BY ONLY <3>2, BufferAssumption DEF Byte
    <3> QED
      BY ONLY <3>3
  <2>3. SubSeq(bytes, 3, Len(bytes)) \in Seq(Byte)
    BY SubSeqOfBytes
  <2>4. PutDataTurn(b, bytes)
          = UseBytes(StartMessage(b, bytes[1] * Radix + bytes[2]),
                     SubSeq(bytes, 3, Len(bytes)))
    BY <1>5 DEF PutDataTurn
  <2> QED
    BY <1>5, <2>2, <2>3, <2>4, StartAndUseOK
<1> QED
  BY <1>2, <1>3, <1>4, <1>5

LEMMA PutMessageOK ==
  ASSUME NEW b, BufferOK(b), b.curTarget_ = NULL, NEW msg \in Seq(Byte),
         Fits(b, Len(msg))
  PROVE  LET m == [size_ |-> Len(msg), offset_ |-> 0, body |-> msg]
         IN  /\ m \in Message /\ MessageOK(m)
             /\ PutMessage(b, msg).queue_ = Append(b.queue_, m)
             /\ PutMessage(b, msg).written_ = b.written_ + Len(msg)
             /\ BufferOK(PutMessage(b, msg))
             /\ PutMessage(b, msg).curTarget_ = NULL
             /\ PutMessage(b, msg).tmpSize_ = b.tmpSize_
<1> DEFINE m == [size_ |-> Len(msg), offset_ |-> 0, body |-> msg]
           c == PutMessage(b, msg)
           q == Append(b.queue_, m)
<1>1. Len(msg) \in Nat /\ msg \in Seq(Cell)
  BY LenProperties, SeqMonotonic DEF Cell
<1>2. m \in Message /\ MessageOK(m)
  BY <1>1 DEF Message, MessageOK, Fits
<1>3. c = [b EXCEPT !.queue_ = q, !.written_ = b.written_ + Len(msg)]
  BY DEF PutMessage
<1> HIDE DEF m
<1>4. /\ q \in Seq(Message) /\ Len(q) = Len(b.queue_) + 1
      /\ \A i \in 1 .. Len(b.queue_) : q[i] = b.queue_[i]
      /\ q[Len(b.queue_) + 1] = m
  BY <1>2, FieldTypes, AppendProperties
<1> HIDE DEF q, c
<1>5. b.written_ + Len(msg) \in Nat
  BY <1>1, FieldTypes
<1>6. /\ c \in BufferType /\ c.queue_ = q /\ c.written_ = b.written_ + Len(msg)
      /\ c.curTarget_ = NULL /\ c.tmpSize_ = b.tmpSize_
  BY <1>3, <1>4, <1>5 DEF BufferOK, BufferType
<1>7. \A i \in DOMAIN q : MessageOK(q[i])
  BY <1>2, <1>4, FieldTypes, LenProperties DEF BufferOK
<1>8. Len(q) <= MaxNumMessages /\ b.written_ + Len(msg) <= QueueSize
  BY <1>4, FieldTypes, LenProperties, BufferAssumption DEF Fits
<1>9. BufferOK(c)
  BY <1>6, <1>7, <1>8 DEF BufferOK
<1> QED
  BY <1>2, <1>6, <1>9 DEF m, q, c

-----------------------------------------------------------------------------
(* Taking messages off the queue. *)

LEMMA PopFrontOK ==
  ASSUME NEW b, BufferOK(b), b.queue_ # <<>>, b.written_ - Head(b.queue_).size_ \in Nat
  PROVE  /\ BufferOK(PopFront(b))
         /\ PopFront(b).queue_ = Tail(b.queue_)
         /\ PopFront(b).written_ = b.written_ - Head(b.queue_).size_
         /\ PopFront(b).curTarget_ = b.curTarget_
         /\ PopFront(b).tmpSize_ = b.tmpSize_
<1> DEFINE c == PopFront(b)
           n == Head(b.queue_).size_
           w == b.written_ - n
<1>1. /\ Tail(b.queue_) \in Seq(Message) /\ Len(Tail(b.queue_)) = Len(b.queue_) - 1
      /\ \A i \in 1 .. Len(Tail(b.queue_)) : Tail(b.queue_)[i] = b.queue_[i+1]
  BY FieldTypes, HeadTailProperties
<1>2. /\ c \in BufferType /\ c.queue_ = Tail(b.queue_) /\ c.written_ = w
      /\ c.curTarget_ = b.curTarget_ /\ c.tmpSize_ = b.tmpSize_
  BY <1>1 DEF PopFront, BufferOK, BufferType
<1>3. n \in Nat /\ Len(b.queue_) \in Nat /\ Len(b.queue_) >= 1
  <2>1. Head(b.queue_) \in Message
    BY FieldTypes, NonEmpty
  <2> QED
    BY <2>1, FieldTypes, NonEmpty DEF Message
<1> HIDE DEF c, n, w
<1>4. w <= b.written_ /\ w \in Nat
  BY <1>3, FieldTypes DEF w, n
<1>5. \A i \in DOMAIN Tail(b.queue_) : MessageOK(Tail(b.queue_)[i])
  BY <1>1, <1>3, FieldTypes, LenProperties DEF BufferOK
<1>6. Len(c.queue_) <= MaxNumMessages /\ c.written_ <= QueueSize
  BY <1>1, <1>2, <1>3, <1>4, FieldTypes, BufferAssumption DEF BufferOK
<1>7. b.curTarget_ # NULL =>
        /\ Len(c.queue_) < MaxNumMessages
        /\ c.written_ + b.curTarget_.size_ <= QueueSize
  <2> HAVE b.curTarget_ # NULL
  <2>1. b.curTarget_.size_ \in Nat
    BY FieldTypes DEF Message
  <2>2. /\ Len(b.queue_) < MaxNumMessages
        /\ b.written_ + b.curTarget_.size_ <= QueueSize
    BY DEF BufferOK
  <2> QED
    BY <1>1, <1>2, <1>3, <1>4, <2>1, <2>2, FieldTypes, BufferAssumption
<1>8. BufferOK(c)
  BY <1>2, <1>5, <1>6, <1>7 DEF BufferOK
<1> QED
  BY <1>2, <1>8 DEF c, w, n

LEMMA HeaderOfOK ==
  ASSUME NEW n \in Nat, n < Radix * Radix
  PROVE  HeaderOf(n) \in Seq(Byte) /\ Len(HeaderOf(n)) = 2
<1>1. n \div Radix \in Nat /\ n % Radix \in 0 .. Radix - 1
  BY BufferAssumption
<1>2. n \div Radix < Radix
  BY BufferAssumption
<1> QED
  BY <1>1, <1>2, BufferAssumption DEF HeaderOf, Byte

-----------------------------------------------------------------------------
(* The history: k lists what was queued, p messages have left, q is the    *)
(* queue and w the value of written_.                                      *)

TotalAt(k, i) == IF i = 0 THEN 0 ELSE k[i].upto

Totals(k) ==
  /\ \A i \in 1 .. Len(k) : k[i].upto = TotalAt(k, i-1) + k[i].size
  /\ \A i \in 0 .. Len(k) : TotalAt(k, i) <= TotalAt(k, Len(k))

Fifo(k, q, p, w) ==
  /\ Len(k) = p + Len(q)
  /\ \A i \in 1 .. Len(q) : q[i].size_ = k[p + i].size
  /\ w = TotalAt(k, Len(k)) - TotalAt(k, p)

LEMMA QueuedKeepsHistory ==
  ASSUME NEW k \in Seq(Entry), NEW q \in Seq(Message), NEW p \in Nat, NEW w \in Nat,
         Totals(k), Fifo(k, q, p, w), NEW m \in Message, NEW e \in Entry,
         e.size = m.size_, e.upto = TotalAt(k, Len(k)) + e.size
  PROVE  Totals(Append(k, e)) /\ Fifo(Append(k, e), Append(q, m), p, w + m.size_)
<1> DEFINE k2 == Append(k, e)
           q2 == Append(q, m)
<1>1. /\ k2 \in Seq(Entry) /\ Len(k2) = Len(k) + 1 /\ k2[Len(k) + 1] = e
      /\ \A i \in 1 .. Len(k) : k2[i] = k[i]
  BY AppendProperties
<1>2. /\ Len(q2) = Len(q) + 1 /\ q2[Len(q) + 1] = m
      /\ \A i \in 1 .. Len(q) : q2[i] = q[i]
  BY AppendProperties
<1>3. Len(k) \in Nat /\ Len(q) \in Nat
  BY LenProperties
<1>4. /\ m.size_ \in Nat /\ e.upto \in Nat
      /\ \A i \in 1 .. Len(k) : k[i].upto \in Nat /\ k[i].size \in Nat
  <2>1. \A i \in 1 .. Len(k) : k[i] \in Entry
    BY ElementOfSeq
  <2> QED
    BY <2>1 DEF Message, Entry
<1> HIDE DEF k2, q2
<1>5. \A i \in 0 .. Len(k) : TotalAt(k2, i) = TotalAt(k, i) /\ TotalAt(k, i) \in Nat
  BY <1>1, <1>3, <1>4 DEF TotalAt
<1>6. TotalAt(k2, Len(k) + 1) = e.upto
  BY <1>1, <1>3 DEF TotalAt
<1>7. Totals(k2)
  <2>1. ASSUME NEW i \in 1 .. Len(k2)
        PROVE  k2[i].upto = TotalAt(k2, i-1) + k2[i].size
    <3>1. i - 1 \in 0 .. Len(k) /\ TotalAt(k2, i-1) = TotalAt(k, i-1)
      BY <1>1, <1>3, <1>5
    <3>2. CASE i \in 1 .. Len(k)
      BY <1>1, <3>1, <3>2 DEF Totals
    <3>3. CASE i = Len(k) + 1
      <4>1. i - 1 = Len(k)
        BY <1>3, <3>3
      <4> QED
        BY <1>1, <3>1, <3>3, <4>1
    <3> QED
      BY <1>1, <1>3, <3>2, <3>3
  <2>2. ASSUME NEW i \in 0 .. Len(k2)
        PROVE  TotalAt(k2, i) <= TotalAt(k2, Len(k2))
    <3>1. \A j \in 0 .. Len(k) : TotalAt(k, j) <= TotalAt(k, Len(k))
      BY DEF Totals
    <3>2. TotalAt(k, Len(k)) <= e.upto
      <4> DEFINE z == TotalAt(k, Len(k))
                 n == m.size_
                 u == e.upto
      <4>1. z \in Nat
        BY <1>3, <1>5
      <4>2. n \in Nat /\ u = z + n
        BY <1>4
      <4> HIDE DEF z, n, u
      <4>3. z <= u
        BY ONLY <4>1, <4>2
      <4> QED
        BY ONLY <4>3 DEF z, u
    <3>3. CASE i = Len(k) + 1
      BY <1>1, <1>4, <1>6, <3>3
    <3>4. CASE i \in 0 .. Len(k)
      <4> DEFINE x  == TotalAt(k, i)
                 z  == TotalAt(k, Len(k))
                 x2 == TotalAt(k2, i)
                 z2 == TotalAt(k2, Len(k2))
                 u  == e.upto
      <4>1. x \in Nat /\ x2 = x
        BY ONLY <1>5, <3>4
      <4>2. z \in Nat
        BY ONLY <1>3, <1>5
      <4>3. u \in Nat /\ z2 = u
        BY ONLY <1>1, <1>4, <1>6
      <4>4. x <= z /\ z <= u
        BY <3>1, <3>2, <3>4
      <4> HIDE DEF x, z, x2, z2, u
      <4>5. x2 <= z2
        BY ONLY <4>1, <4>2, <4>3, <4>4
      <4> QED
        BY ONLY <4>5 DEF x2, z2
    <3> QED
      BY <1>1, <1>3, <3>3, <3>4
  <2> QED
    BY <2>1, <2>2 DEF Totals
<1>8. Fifo(k2, q2, p, w + m.size_)
  <2>1. Len(k2) = p + Len(q2)
    BY <1>1, <1>2, <1>3 DEF Fifo
  <2>2. ASSUME NEW i \in 1 .. Len(q2)
        PROVE  q2[i].size_ = k2[p + i].size
    <3>1. \A j \in 1 .. Len(q) : q[j].size_ = k[p + j].size /\ p + j \in 1 .. Len(k)
      BY <1>3 DEF Fifo
    <3>2. p + (Len(q) + 1) = Len(k) + 1
      BY <1>3 DEF Fifo
    <3>3. CASE i \in 1 .. Len(q)
      BY <1>1, <1>2, <3>1, <3>3
    <3>4. CASE i = Len(q) + 1
      BY <1>1, <1>2, <3>2, <3>4
    <3> QED
      BY <1>2, <1>3, <3>3, <3>4
  <2>3. w + m.size_ = TotalAt(k2, Len(k2)) - TotalAt(k2, p)
    <3>1. p \in 0 .. Len(k)
      BY <1>3 DEF Fifo
    <3>2. w = TotalAt(k, Len(k)) - TotalAt(k, p)
      BY DEF Fifo
    <3> QED
      <4>1. TotalAt(k2, p) = TotalAt(k, p) /\ TotalAt(k, p) \in Nat
        BY <1>5, <3>1
      <4>2. TotalAt(k, Len(k)) \in Nat
        BY <1>3, <1>5
      <4>3. TotalAt(k2, Len(k2)) = TotalAt(k, Len(k)) + m.size_
        BY <1>1, <1>6
      <4> QED
        BY <1>4, <3>2, <4>1, <4>2, <4>3
  <2> QED
    BY <2>1, <2>2, <2>3 DEF Fifo
<1> QED
  BY <1>7, <1>8 DEF k2, q2

LEMMA PoppedKeepsHistory ==
  ASSUME NEW k \in Seq(Entry), NEW q \in Seq(Message), NEW p \in Nat, NEW w \in Nat,
         Totals(k), Fifo(k, q, p, w), q # <<>>
  PROVE  /\ w - Head(q).size_ \in Nat
         /\ Head(q).size_ = k[p + 1].size
         /\ Fifo(k, Tail(q), p + 1, w - Head(q).size_)
<1>1. /\ Len(q) \in Nat /\ Len(q) >= 1 /\ Head(q) = q[1] /\ Head(q) \in Message
      /\ Len(Tail(q)) = Len(q) - 1
      /\ \A i \in 1 .. Len(Tail(q)) : Tail(q)[i] = q[i+1]
  BY NonEmpty
<1>2. Len(k) \in Nat /\ p + 1 \in 1 .. Len(k) /\ Len(k) = p + Len(q)
  BY <1>1, LenProperties DEF Fifo
<1>3. Head(q).size_ = k[p + 1].size
  BY <1>1 DEF Fifo
<1>4. \A i \in 1 .. Len(k) : k[i].upto \in Nat /\ k[i].size \in Nat
  <2>1. \A i \in 1 .. Len(k) : k[i] \in Entry
    BY ElementOfSeq
  <2> QED
    BY <2>1 DEF Entry
<1>5. \A i \in 0 .. Len(k) : TotalAt(k, i) \in Nat
  BY <1>2, <1>4 DEF TotalAt
<1>6. TotalAt(k, p + 1) = TotalAt(k, p) + k[p + 1].size
  BY <1>2 DEF Totals, TotalAt
<1>7. w - Head(q).size_ = TotalAt(k, Len(k)) - TotalAt(k, p + 1)
  <2>1. w = TotalAt(k, Len(k)) - TotalAt(k, p)
    BY DEF Fifo
  <2>2. TotalAt(k, p) \in Nat /\ TotalAt(k, Len(k)) \in Nat /\ k[p + 1].size \in Nat
    BY <1>2, <1>4, <1>5
  <2> QED
    BY <1>3, <1>6, <2>1, <2>2
<1>8. TotalAt(k, p + 1) <= TotalAt(k, Len(k))
  BY <1>2 DEF Totals
<1>9. w - Head(q).size_ \in Nat
  <2> DEFINE a == TotalAt(k, Len(k))
             b == TotalAt(k, p + 1)
             d == w - Head(q).size_
  <2>1. a \in Nat /\ b \in Nat
    BY <1>2, <1>5
  <2>2. d = a - b /\ b <= a
    BY <1>7, <1>8
  <2> HIDE DEF a, b, d
  <2>3. d \in Nat
    BY ONLY <2>1, <2>2
  <2> QED
    BY ONLY <2>3 DEF d
<1>10. Fifo(k, Tail(q), p + 1, w - Head(q).size_)
  <2>1. Len(k) = p + 1 + Len(Tail(q))
    BY <1>1, <1>2
  <2>2. ASSUME NEW i \in 1 .. Len(Tail(q))
        PROVE  Tail(q)[i].size_ = k[p + 1 + i].size
    <3>1. Tail(q)[i] = q[i+1] /\ i + 1 \in 1 .. Len(q) /\ p + (i + 1) = p + 1 + i
      BY <1>1
    <3> QED
      BY <3>1 DEF Fifo
  <2> QED
    BY <1>7, <2>1, <2>2 DEF Fifo
<1> QED
  BY <1>3, <1>9, <1>10

-----------------------------------------------------------------------------
(* The inductive invariant. *)

Returned(k, g, p) ==
  Len(g) = p /\ \A i \in 1 .. Len(g) : Len(g[i]) = k[i].size

\* Which calls a mode has: only "receive" fills a target, only "send" gets data.
ModeOK ==
  /\ data # <<>> => mode = "receive"
  /\ room > 0 => mode = "send" /\ room >= 3 /\ buf.queue_ # <<>>
  /\ mode # "receive" => buf.curTarget_ = NULL

Inv ==
  /\ TypeOK
  /\ BufferOK(buf)
  /\ Totals(kept)
  /\ Fifo(kept, buf.queue_, popped, buf.written_)
  /\ mode # "send" => Returned(kept, got, popped)
  /\ ModeOK

LEMMA EntryForOK ==
  ASSUME Inv, NEW size \in Nat, NEW frame \in Nat, NEW whole \in BOOLEAN
  PROVE  LET e == EntryFor(size, frame, whole)
         IN  e \in Entry /\ e.size = size
             /\ e.upto = TotalAt(kept, Len(kept)) + e.size
<1>1. kept \in Seq(Entry)
  BY DEF Inv, TypeOK
<1>2. Upto(Len(kept)) = TotalAt(kept, Len(kept)) /\ TotalAt(kept, Len(kept)) \in Nat
  <2>1. Len(kept) \in Nat /\ (Len(kept) # 0 => kept[Len(kept)] \in Entry)
    BY <1>1, LenProperties, ElementOfSeq
  <2> QED
    BY <2>1 DEF Upto, TotalAt, Entry
<1> QED
  BY <1>2 DEF EntryFor, Entry

LEMMA AppendReturned ==
  ASSUME NEW k \in Seq(Entry), NEW g \in Seq(Seq(Cell)), NEW p \in Nat, NEW e \in Entry,
         Returned(k, g, p), p <= Len(k)
  PROVE  Returned(Append(k, e), g, p)
<1>1. \A i \in 1 .. Len(k) : Append(k, e)[i] = k[i]
  BY AppendProperties
<1>2. Len(k) \in Nat
  BY LenProperties
<1> QED
  BY <1>1, <1>2 DEF Returned

LEMMA InitInv == Init => Inv
<1> SUFFICES ASSUME Init PROVE Inv
  OBVIOUS
<1> USE DEF Init, EmptyBuffer
<1>1. buf \in BufferType
  BY DEF BufferType
<1>2. TypeOK
  <2>1. \A S : <<>> \in Seq(S)
    BY EmptySeq
  <2> QED
    BY <1>1, <2>1 DEF TypeOK
<1>3. BufferOK(buf)
  BY <1>1, BufferAssumption DEF BufferOK
<1>4. /\ Totals(kept) /\ Fifo(kept, buf.queue_, popped, buf.written_)
      /\ Returned(kept, got, popped)
  BY DEF Totals, Fifo, TotalAt, Returned
<1> QED
  BY <1>2, <1>3, <1>4 DEF Inv, ModeOK

LEMMA BodyOK ==
  ASSUME NEW k \in Nat, NEW n \in Sizes
  PROVE  Body(k, n) \in Seq(Byte) /\ Len(Body(k, n)) = n /\ n \in Nat /\ n < Radix * Radix
<1>1. n \in Nat /\ n < Radix * Radix
  BY ClientAssumption, BufferAssumption
<1>2. \A i \in 1 .. n : (k + i) % Radix \in Byte
  BY <1>1, BufferAssumption DEF Byte
<1>3. Body(k, n) = [i \in 1 .. n |-> (k + i) % Radix]
  BY DEF Body
<1> QED
  BY <1>1, <1>2, <1>3

LEMMA PeerSendsInv ==
  ASSUME Inv, NEW n \in Sizes, PeerSends(n)
  PROVE  Inv'
<1> DEFINE body == Body(Len(sent) + 1, n)
<1>1. /\ sent' = Append(sent, body) /\ wire' = wire \o FrameOf(body)
      /\ UNCHANGED <<mode, buf, data, room, heads, kept, got, out, popped, torn>>
  BY DEF PeerSends, call
<1>2. sent \in Seq(Seq(Byte)) /\ wire \in Seq(Byte)
  BY DEF Inv, TypeOK
<1>3. body \in Seq(Byte) /\ Len(body) = n /\ n \in Nat /\ n < Radix * Radix
  <2>1. Len(sent) + 1 \in Nat
    BY <1>2, LenProperties
  <2> QED
    BY <2>1, BodyOK
<1> HIDE DEF body
<1>4. FrameOf(body) \in Seq(Byte)
  BY <1>3, HeaderOfOK, ConcatProperties DEF FrameOf
<1>5. sent' \in Seq(Seq(Byte)) /\ wire' \in Seq(Byte)
  BY <1>1, <1>2, <1>3, <1>4, AppendProperties, ConcatProperties
<1> QED
  BY <1>1, <1>5 DEF Inv, TypeOK, ModeOK

LEMMA PutDataCallInv ==
  ASSUME Inv, NEW n \in 1 .. Len(wire), PutDataCall(n)
  PROVE  Inv'
<1>1. wire \in Seq(Byte) /\ Len(wire) \in Nat /\ n \in Nat
  BY LenProperties DEF Inv, TypeOK
<1>2. wire' \in Seq(Byte)
  BY <1>1, SubSeqOfBytes DEF PutDataCall
<1>3. data' \in Seq(Byte)
  <2>1. \A i \in 1 .. n : wire[i] \in Byte
    BY <1>1, ElementOfSeq
  <2> QED
    BY <1>1, <2>1, SubSeqProperties DEF PutDataCall
<1>4. torn' \in BOOLEAN
  BY DEF PutDataCall, Inv, TypeOK
<1> QED
  BY <1>2, <1>3, <1>4 DEF PutDataCall, Inv, TypeOK, ModeOK, Idle

LEMMA PutMessageCallInv ==
  ASSUME Inv, NEW n \in Sizes, PutMessageCall(n)
  PROVE  Inv'
<1> DEFINE body == Body(Len(sent) + 1, n)
           m    == [size_ |-> Len(body), offset_ |-> 0, body |-> body]
           e    == EntryFor(n, Len(sent) + 1, TRUE)
<1>1. sent \in Seq(Seq(Byte)) /\ Len(sent) + 1 \in Nat
  BY LenProperties DEF Inv, TypeOK
<1>2. body \in Seq(Byte) /\ Len(body) = n /\ n \in Nat
  BY <1>1, BodyOK
<1>3. sent' = Append(sent, body) /\ sent' \in Seq(Seq(Byte)) /\ Len(sent') = Len(sent) + 1
  BY <1>1, <1>2, AppendProperties DEF PutMessageCall
<1>4. /\ buf' = PutMessage(buf, body) /\ kept' = Append(kept, e)
      /\ UNCHANGED <<mode, data, room, wire, heads, got, out, popped, torn>>
      /\ mode # "receive" /\ Fits(buf, n)
  BY <1>3 DEF PutMessageCall, call
<1>5. e \in Entry /\ e.size = n /\ e.upto = TotalAt(kept, Len(kept)) + e.size
  BY <1>1, <1>2, EntryForOK
<1> HIDE DEF body, e
<1>6. /\ m \in Message /\ buf'.queue_ = Append(buf.queue_, m)
      /\ buf'.written_ = buf.written_ + n /\ BufferOK(buf')
      /\ buf'.curTarget_ = NULL
  BY <1>2, <1>4, PutMessageOK DEF Inv, ModeOK
<1>7. m.size_ = n
  BY <1>2
<1> HIDE DEF m
<1>8. /\ kept \in Seq(Entry) /\ buf.queue_ \in Seq(Message) /\ popped \in Nat
      /\ buf.written_ \in Nat /\ got \in Seq(Seq(Cell))
  BY FieldTypes DEF Inv, TypeOK
<1>9. Totals(kept') /\ Fifo(kept', buf'.queue_, popped', buf'.written_)
  BY <1>4, <1>5, <1>6, <1>7, <1>8, QueuedKeepsHistory DEF Inv
<1>10. mode' # "send" => Returned(kept', got', popped')
  <2>1. popped <= Len(kept)
    BY <1>8, LenProperties DEF Inv, Fifo
  <2> QED
    BY <1>4, <1>5, <1>8, <2>1, AppendReturned DEF Inv
<1>11. TypeOK'
  <2>1. kept' \in Seq(Entry) /\ buf' \in BufferType
    BY <1>4, <1>5, <1>6, <1>8, AppendProperties DEF BufferOK
  <2> QED
    BY <1>3, <1>4, <2>1 DEF Inv, TypeOK
<1> QED
  BY <1>4, <1>6, <1>9, <1>10, <1>11 DEF Inv, ModeOK

LEMMA PutDataLoopInv ==
  ASSUME Inv, PutDataLoop
  PROVE  Inv'
<1> DEFINE t == PutDataTurn(buf, data)
<1>1. /\ buf' = t.buf /\ data' = t.rest /\ data # <<>>
      /\ UNCHANGED <<mode, room, wire, sent, got, out, popped, torn>>
  BY DEF PutDataLoop
<1>2. /\ kept \in Seq(Entry) /\ buf.queue_ \in Seq(Message) /\ popped \in Nat
      /\ buf.written_ \in Nat /\ got \in Seq(Seq(Cell)) /\ BufferOK(buf)
      /\ data \in Seq(Byte) /\ room \in Nat
  BY FieldTypes DEF Inv, TypeOK
<1>3. mode = "receive" /\ room = 0
  BY <1>1, <1>2 DEF Inv, ModeOK
<1>4. BufferOK(t.buf) /\ Grows(buf, t.buf) /\ t.rest \in Seq(Byte)
  BY <1>1, <1>2, PutDataTurnOK
<1>5. heads' \in Nat
  BY DEF PutDataLoop, Inv, TypeOK
<1>6. kept' = IF Len(t.buf.queue_) = Len(buf.queue_) THEN kept
              ELSE Append(kept,
                     EntryFor(t.buf.queue_[Len(t.buf.queue_)].size_, heads',
                              \/ buf.curTarget_ = NULL
                              \/ buf.curTarget_.offset_ = 0))
  BY DEF PutDataLoop
<1> HIDE DEF t
<1>7. /\ kept' \in Seq(Entry) /\ Totals(kept')
      /\ Fifo(kept', buf'.queue_, popped, buf'.written_)
      /\ Returned(kept', got, popped)
  <2>1. CASE buf'.queue_ = buf.queue_ /\ buf'.written_ = buf.written_
    BY <1>1, <1>2, <1>3, <1>6, <2>1 DEF Inv
  <2>2. CASE \E m \in Message : /\ MessageOK(m)
                                /\ buf'.queue_ = Append(buf.queue_, m)
                                /\ buf'.written_ = buf.written_ + m.size_
    <3>1. PICK m \in Message : /\ MessageOK(m)
                               /\ buf'.queue_ = Append(buf.queue_, m)
                               /\ buf'.written_ = buf.written_ + m.size_
      BY <2>2
    <3> DEFINE whole == \/ buf.curTarget_ = NULL
                        \/ buf.curTarget_.offset_ = 0
               e     == EntryFor(m.size_, heads', whole)
    <3>2. Len(buf'.queue_) = Len(buf.queue_) + 1 /\ buf'.queue_[Len(buf'.queue_)] = m
      BY <1>2, <3>1, AppendProperties
    <3>3. Len(buf'.queue_) # Len(buf.queue_)
      BY <1>2, <3>2, LenProperties
    <3>4. kept' = Append(kept, e)
      BY <1>1, <1>6, <3>2, <3>3
    <3>5. e \in Entry /\ e.size = m.size_ /\ e.upto = TotalAt(kept, Len(kept)) + e.size
      <4>1. m.size_ \in Nat /\ whole \in BOOLEAN
        BY <3>1 DEF Message
      <4> HIDE DEF whole
      <4> QED
        BY <1>5, <4>1, EntryForOK
    <3> HIDE DEF e
    <3>6. Totals(kept') /\ Fifo(kept', buf'.queue_, popped, buf'.written_)
      BY <1>2, <3>1, <3>4, <3>5, QueuedKeepsHistory DEF Inv
    <3>7. Returned(kept', got, popped)
      <4>1. popped <= Len(kept)
        BY <1>2, LenProperties DEF Inv, Fifo
      <4> QED
        BY <1>2, <1>3, <3>4, <3>5, <4>1, AppendReturned DEF Inv
    <3>8. kept' \in Seq(Entry)
      BY <1>2, <3>4, <3>5, AppendProperties
    <3> QED
      BY <3>6, <3>7, <3>8
  <2> QED
    BY <1>1, <1>4, <2>1, <2>2 DEF Grows
<1>8. TypeOK'
  BY <1>1, <1>4, <1>5, <1>7 DEF Inv, TypeOK, BufferOK
<1>9. ModeOK'
  BY <1>1, <1>3 DEF ModeOK
<1> QED
  BY <1>1, <1>4, <1>7, <1>8, <1>9 DEF Inv

LEMMA GetMessageCallInv ==
  ASSUME Inv, NEW mSize \in Rooms, GetMessageCall(mSize)
  PROVE  Inv'
<1> DEFINE m == Head(buf.queue_)
<1>1. /\ buf' = PopFront(buf) /\ got' = Append(got, m.body) /\ popped' = popped + 1
      /\ buf.queue_ # <<>> /\ mode # "send" /\ room = 0 /\ data = <<>>
      /\ UNCHANGED <<mode, data, room, wire, sent, heads, kept, out, torn>>
  BY DEF GetMessageCall, CanGetMessage, call, Idle
<1>2. /\ kept \in Seq(Entry) /\ buf.queue_ \in Seq(Message) /\ popped \in Nat
      /\ buf.written_ \in Nat /\ got \in Seq(Seq(Cell)) /\ BufferOK(buf)
  BY FieldTypes DEF Inv, TypeOK
<1>3. m \in Message /\ Len(m.body) = m.size_
  <2>1. m = buf.queue_[1] /\ 1 \in 1 .. Len(buf.queue_) /\ m \in Message
    BY <1>1, <1>2, NonEmpty
  <2> QED
    BY <1>2, <2>1, LenProperties DEF BufferOK, MessageOK
<1>4. /\ buf.written_ - m.size_ \in Nat /\ m.size_ = kept[popped + 1].size
      /\ Fifo(kept, Tail(buf.queue_), popped + 1, buf.written_ - m.size_)
  BY <1>1, <1>2, PoppedKeepsHistory DEF Inv
<1>5. /\ BufferOK(buf') /\ buf'.queue_ = Tail(buf.queue_)
      /\ buf'.written_ = buf.written_ - m.size_ /\ buf'.curTarget_ = buf.curTarget_
  BY <1>1, <1>2, <1>4, PopFrontOK
<1>6. Returned(kept', got', popped')
  <2>1. Len(got) = popped /\ \A i \in 1 .. Len(got) : Len(got[i]) = kept[i].size
    BY <1>1 DEF Inv, Returned
  <2>2. /\ Len(got') = popped + 1 /\ got'[popped + 1] = m.body
        /\ \A i \in 1 .. popped : got'[i] = got[i]
    <3>1. m.body \in Seq(Cell)
      BY ONLY <1>3 DEF Message
    <3> HIDE DEF m
    <3> QED
      BY ONLY <1>1, <1>2, <2>1, <3>1, AppendProperties
  <2>3. ASSUME NEW i \in 1 .. popped + 1
        PROVE  Len(got'[i]) = kept[i].size
    <3>1. CASE i = popped + 1
      BY ONLY <1>3, <1>4, <2>2, <3>1
    <3>2. CASE i \in 1 .. popped
      BY ONLY <2>1, <2>2, <3>2
    <3> QED
      BY <1>2, <3>1, <3>2
  <2> QED
    BY ONLY <1>1, <2>2, <2>3 DEF Returned
<1>7. TypeOK'
  <2>1. m.body \in Seq(Cell)
    BY <1>3 DEF Message
  <2>2. got' \in Seq(Seq(Cell)) /\ popped' \in Nat
    BY <1>1, <1>2, <2>1, AppendProperties
  <2> QED
    BY <1>1, <1>5, <2>2 DEF Inv, TypeOK, BufferOK
<1>8. ModeOK'
  BY <1>1, <1>5 DEF Inv, ModeOK
<1> QED
  BY <1>1, <1>4, <1>5, <1>6, <1>7, <1>8 DEF Inv

LEMMA GetDataCallInv ==
  ASSUME Inv, NEW mSize \in Rooms, GetDataCall(mSize)
  PROVE  Inv'
<1>1. mSize \in Nat
  BY ClientAssumption
<1> QED
  BY <1>1 DEF Inv, TypeOK, ModeOK, GetDataCall, Idle

SameEntries(k, k2) ==
  /\ Len(k2) = Len(k)
  /\ \A i \in 1 .. Len(k) : k2[i].size = k[i].size /\ k2[i].upto = k[i].upto

SameMessages(q, q2) ==
  /\ Len(q2) = Len(q)
  /\ \A i \in 1 .. Len(q) : q2[i].size_ = q[i].size_

\* A change of offset or of the `whole' mark leaves the history as it is.
LEMMA SameSizesKeepHistory ==
  ASSUME NEW k \in Seq(Entry), NEW k2 \in Seq(Entry),
         NEW q \in Seq(Message), NEW q2 \in Seq(Message), NEW p \in Nat, NEW w \in Nat,
         Totals(k), Fifo(k, q, p, w), SameEntries(k, k2), SameMessages(q, q2)
  PROVE  Totals(k2) /\ Fifo(k2, q2, p, w)
<1> USE DEF SameEntries, SameMessages
<1>1. Len(k) \in Nat /\ Len(q) \in Nat /\ Len(k) = p + Len(q)
  BY LenProperties DEF Fifo
<1>2. \A i \in 0 .. Len(k) : TotalAt(k2, i) = TotalAt(k, i)
  BY <1>1 DEF TotalAt
<1>3. Totals(k2)
  <2>1. ASSUME NEW i \in 1 .. Len(k2)
        PROVE  k2[i].upto = TotalAt(k2, i-1) + k2[i].size
    <3>1. i \in 1 .. Len(k) /\ i - 1 \in 0 .. Len(k)
      BY <1>1
    <3>2. k[i].upto = TotalAt(k, i-1) + k[i].size
      BY <3>1 DEF Totals
    <3> QED
      BY <1>2, <3>1, <3>2
  <2>2. \A i \in 0 .. Len(k2) : TotalAt(k2, i) <= TotalAt(k2, Len(k2))
    BY <1>1, <1>2 DEF Totals
  <2> QED
    BY <2>1, <2>2 DEF Totals
<1>4. \A i \in 1 .. Len(q2) : q2[i].size_ = k2[p + i].size
  BY <1>1 DEF Fifo
<1>5. w = TotalAt(k2, Len(k2)) - TotalAt(k2, p)
  BY <1>1, <1>2 DEF Fifo
<1> QED
  BY <1>1, <1>3, <1>4, <1>5 DEF Fifo

\* A turn of get_data either takes the message at the front, or only moves its
\* offset.
LEMMA GetDataTurnOK ==
  ASSUME NEW b, BufferOK(b), b.queue_ # <<>>, b.written_ - Head(b.queue_).size_ \in Nat,
         NEW space \in Nat, space >= 3
  PROVE  LET t == GetDataTurn(b, space)
         IN  /\ BufferOK(t.buf) /\ t.room \in Nat /\ t.bytes \in Seq(Cell)
             /\ t.buf.curTarget_ = b.curTarget_
             /\ \/ t.buf.queue_ = Tail(b.queue_)
                   /\ t.buf.written_ = b.written_ - Head(b.queue_).size_
                \/ /\ Len(t.buf.queue_) = Len(b.queue_) /\ t.buf.written_ = b.written_
                   /\ \A i \in 1 .. Len(b.queue_) :
                        t.buf.queue_[i].size_ = b.queue_[i].size_
<1> DEFINE w       == Head(b.queue_)
           header  == HeaderIfFirst(w)
           left    == space - Len(header)
           towrite == AtMost(w.size_ - w.offset_, left)
           sent_   == [w EXCEPT !.offset_ = @ + towrite]
           moved   == [b EXCEPT !.queue_[1] = sent_]
           t       == GetDataTurn(b, space)
<1>1. w = b.queue_[1] /\ w \in Message /\ 1 \in 1 .. Len(b.queue_)
  BY FieldTypes, NonEmpty
<1>2. MessageOK(w)
  BY <1>1, FieldTypes, LenProperties DEF BufferOK
<1>3. header \in Seq(Byte) /\ Len(header) \in {0, 2}
  <2>1. w.size_ \in Nat /\ w.size_ < Radix * Radix
    BY <1>1, <1>2, BufferAssumption DEF Message, MessageOK
  <2>2. HeaderOf(w.size_) \in Seq(Byte) /\ Len(HeaderOf(w.size_)) = 2
    BY <2>1, HeaderOfOK
  <2>3. <<>> \in Seq(Byte) /\ Len(<<>>) = 0
    BY EmptySeq
  <2> QED
    BY <2>2, <2>3 DEF HeaderIfFirst
<1>4. t = [buf   |-> IF sent_.offset_ = sent_.size_ THEN PopFront(b) ELSE moved,
           room  |-> left - towrite,
           bytes |-> header \o CopyOut(w, towrite)]
  BY DEF GetDataTurn
<1> HIDE DEF t, header
<1>5. left \in Nat
  <2>1. Len(header) \in {0, 2}
    BY <1>3
  <2>2. \A n \in {0, 2} : space - n \in Nat
    OBVIOUS
  <2> QED
    BY <2>1, <2>2
<1> HIDE DEF left
<1>6. towrite \in Nat /\ left - towrite \in Nat /\ w.offset_ + towrite <= w.size_
  <2>1. w.size_ \in Nat /\ w.offset_ \in Nat /\ w.offset_ <= w.size_
    BY <1>1, <1>2 DEF Message, MessageOK
  <2> HIDE DEF w
  <2> QED
    BY <1>5, <2>1 DEF AtMost
<1> HIDE DEF w, towrite
<1>7. CopyOut(w, towrite) \in Seq(Cell)
  <2>1. w.body \in Seq(Cell) /\ towrite <= Len(w.body)
    BY <1>1, <1>2, <1>6 DEF Message, MessageOK
  <2>2. \A i \in 1 .. towrite : w.body[i] \in Cell
    BY <2>1, <1>6, LenProperties, ElementOfSeq
  <2> QED
    BY <2>1, <2>2, <1>6, SubSeqProperties DEF CopyOut
<1>8. header \o CopyOut(w, towrite) \in Seq(Cell)
  BY <1>3, <1>7, SeqMonotonic, ConcatProperties DEF Cell
<1>9. /\ sent_ \in Message /\ sent_.size_ = w.size_
      /\ sent_.offset_ = w.offset_ + towrite /\ sent_.body = w.body
  BY <1>1, <1>6 DEF Message
<1>10. MessageOK(sent_)
  BY <1>2, <1>6, <1>9 DEF MessageOK
<1> HIDE DEF sent_
<1>11. /\ BufferOK(PopFront(b)) /\ PopFront(b).queue_ = Tail(b.queue_)
       /\ PopFront(b).written_ = b.written_ - w.size_
       /\ PopFront(b).curTarget_ = b.curTarget_
  BY PopFrontOK DEF w
<1>12. /\ BufferOK(moved) /\ moved.curTarget_ = b.curTarget_
       /\ Len(moved.queue_) = Len(b.queue_) /\ moved.written_ = b.written_
       /\ \A i \in 1 .. Len(b.queue_) : moved.queue_[i].size_ = b.queue_[i].size_
  <2> DEFINE q == [b.queue_ EXCEPT ![1] = sent_]
  <2>1. /\ q \in Seq(Message) /\ Len(q) = Len(b.queue_)
        /\ q[1] = sent_ /\ \A i \in 1 .. Len(b.queue_) : i # 1 => q[i] = b.queue_[i]
    BY <1>1, <1>9, FieldTypes, ExceptSeq
  <2>2. moved = [b EXCEPT !.queue_ = q]
    BY DEF BufferOK, BufferType
  <2> HIDE DEF q, moved
  <2>3. /\ moved \in BufferType /\ moved.queue_ = q /\ moved.written_ = b.written_
        /\ moved.curTarget_ = b.curTarget_ /\ moved.tmpSize_ = b.tmpSize_
    BY <2>1, <2>2 DEF BufferOK, BufferType
  <2>4. \A i \in 1 .. Len(b.queue_) : MessageOK(q[i]) /\ q[i].size_ = b.queue_[i].size_
    BY <1>1, <1>9, <1>10, <2>1, FieldTypes, LenProperties DEF BufferOK
  <2>5. BufferOK(moved)
    BY <2>1, <2>3, <2>4, FieldTypes, LenProperties DEF BufferOK
  <2> QED
    BY <2>1, <2>3, <2>4, <2>5
<1> HIDE DEF moved
<1> QED
  BY <1>4, <1>6, <1>8, <1>11, <1>12 DEF t, w

LEMMA GetDataLoopInv ==
  ASSUME Inv, GetDataLoop
  PROVE  Inv'
<1> DEFINE t == GetDataTurn(buf, room)
           taken == Len(t.buf.queue_) < Len(buf.queue_)
           n == Head(buf.queue_).size_
<1>1. /\ room >= 3 /\ buf' = t.buf /\ out' = out \o t.bytes
      /\ popped' = IF taken THEN popped + 1 ELSE popped
      /\ kept' = IF taken THEN kept ELSE [kept EXCEPT ![popped + 1].whole = FALSE]
      /\ room' = IF t.room < 3 \/ t.buf.queue_ = <<>> THEN 0 ELSE t.room
      /\ UNCHANGED <<mode, data, wire, sent, heads, got, torn>>
  BY DEF GetDataLoop
<1>2. /\ kept \in Seq(Entry) /\ buf.queue_ \in Seq(Message) /\ popped \in Nat
      /\ buf.written_ \in Nat /\ BufferOK(buf) /\ room \in Nat /\ out \in Seq(Cell)
  BY FieldTypes DEF Inv, TypeOK
<1>3. mode = "send" /\ buf.queue_ # <<>> /\ data = <<>>
  BY <1>1, <1>2 DEF Inv, ModeOK
<1>4. /\ buf.written_ - n \in Nat
      /\ Fifo(kept, Tail(buf.queue_), popped + 1, buf.written_ - n)
  BY <1>2, <1>3, PoppedKeepsHistory DEF Inv
<1>a. BufferOK(buf) /\ buf.queue_ # <<>> /\ room \in Nat /\ room >= 3
  BY <1>1, <1>2, <1>3
<1>b. buf.written_ - Head(buf.queue_).size_ \in Nat
  BY <1>4
<1>5. /\ BufferOK(t.buf) /\ t.room \in Nat /\ t.bytes \in Seq(Cell)
      /\ t.buf.curTarget_ = buf.curTarget_
      /\ \/ t.buf.queue_ = Tail(buf.queue_) /\ t.buf.written_ = buf.written_ - n
         \/ /\ Len(t.buf.queue_) = Len(buf.queue_) /\ t.buf.written_ = buf.written_
            /\ \A i \in 1 .. Len(buf.queue_) :
                 t.buf.queue_[i].size_ = buf.queue_[i].size_
  BY <1>a, <1>b, GetDataTurnOK
<1> HIDE DEF t, n
<1>6. Len(buf.queue_) \in Nat /\ Len(Tail(buf.queue_)) = Len(buf.queue_) - 1
      /\ Len(buf.queue_) >= 1
  BY <1>2, <1>3, NonEmpty
<1>7. /\ kept' \in Seq(Entry) /\ popped' \in Nat /\ Totals(kept')
      /\ Fifo(kept', buf'.queue_, popped', buf'.written_)
  <2>1. CASE t.buf.queue_ = Tail(buf.queue_) /\ t.buf.written_ = buf.written_ - n
    <3>1. taken
      BY <1>6, <2>1
    <3> QED
      BY <1>1, <1>2, <1>4, <2>1, <3>1 DEF Inv
  <2>2. CASE /\ Len(t.buf.queue_) = Len(buf.queue_) /\ t.buf.written_ = buf.written_
             /\ \A i \in 1 .. Len(buf.queue_) :
                  t.buf.queue_[i].size_ = buf.queue_[i].size_
    <3> DEFINE e  == [kept[popped + 1] EXCEPT !.whole = FALSE]
               k2 == [kept EXCEPT ![popped + 1] = e]
    <3>1. ~taken
      BY <1>6, <2>2
    <3>2. Len(kept) \in Nat /\ popped + 1 \in 1 .. Len(kept)
      BY <1>2, <1>6, LenProperties DEF Inv, Fifo
    <3>3. kept[popped + 1] \in Entry
      BY <1>2, <3>2, ElementOfSeq
    <3>4. /\ e \in Entry /\ e.size = kept[popped + 1].size
          /\ e.upto = kept[popped + 1].upto
      BY <3>3 DEF Entry
    <3>5. kept' = k2
      BY <1>1, <3>1
    <3> HIDE DEF e
    <3>6. /\ k2 \in Seq(Entry) /\ Len(k2) = Len(kept)
          /\ \A j \in 1 .. Len(kept) : k2[j] = IF j = popped + 1 THEN e ELSE kept[j]
      BY <1>2, <3>2, <3>4, ExceptSeq
    <3> HIDE DEF k2
    <3>7. \A i \in 1 .. Len(kept) : k2[i].size = kept[i].size /\ k2[i].upto = kept[i].upto
      BY <3>4, <3>6
    <3>8. t.buf.queue_ \in Seq(Message)
      BY <1>5, FieldTypes
    <3>9. Totals(k2) /\ Fifo(k2, t.buf.queue_, popped, buf.written_)
      <4>1. Totals(kept) /\ Fifo(kept, buf.queue_, popped, buf.written_)
        BY DEF Inv
      <4>2. SameEntries(kept, k2)
        BY <3>6, <3>7 DEF SameEntries
      <4>3. SameMessages(buf.queue_, t.buf.queue_)
        BY <2>2 DEF SameMessages
      <4>4. /\ kept \in Seq(Entry) /\ k2 \in Seq(Entry) /\ t.buf.queue_ \in Seq(Message)
            /\ buf.queue_ \in Seq(Message) /\ popped \in Nat /\ buf.written_ \in Nat
        BY <1>2, <3>6, <3>8
      <4> QED
        BY <4>1, <4>2, <4>3, <4>4, SameSizesKeepHistory
    <3> QED
      BY <1>1, <1>2, <2>2, <3>1, <3>5, <3>6, <3>9
  <2> QED
    BY <1>5, <2>1, <2>2
<1>8. TypeOK'
  <2>1. out' \in Seq(Cell)
    BY <1>1, <1>2, <1>5, ConcatProperties
  <2>2. room' \in Nat
    BY <1>1, <1>5
  <2> QED
    BY <1>1, <1>5, <1>7, <2>1, <2>2 DEF Inv, TypeOK, BufferOK
<1>9. ModeOK'
  BY <1>1, <1>3, <1>5 DEF Inv, ModeOK
<1> QED
  BY <1>1, <1>3, <1>5, <1>7, <1>8, <1>9 DEF Inv

THEOREM Invariance == Spec => []Inv
<1>1. Inv /\ [Next]_vars => Inv'
  <2> SUFFICES ASSUME Inv, [Next]_vars PROVE Inv'
    OBVIOUS
  <2>1. ASSUME NEW n \in Sizes, PeerSends(n) PROVE Inv'
    BY <2>1, PeerSendsInv
  <2>2. ASSUME NEW n \in Sizes, PutMessageCall(n) PROVE Inv'
    BY <2>2, PutMessageCallInv
  <2>3. ASSUME NEW n \in 1 .. Len(wire), PutDataCall(n) PROVE Inv'
    BY <2>3, PutDataCallInv
  <2>4. ASSUME NEW mSize \in Rooms, GetMessageCall(mSize) PROVE Inv'
    BY <2>4, GetMessageCallInv
  <2>5. ASSUME NEW mSize \in Rooms, GetDataCall(mSize) PROVE Inv'
    BY <2>5, GetDataCallInv
  <2>6. CASE PutDataLoop
    BY <2>6, PutDataLoopInv
  <2>7. CASE GetDataLoop
    BY <2>7, GetDataLoopInv
  <2>8. CASE UNCHANGED vars
    BY <2>8 DEF vars, Inv, TypeOK, ModeOK
  <2> QED
    BY <2>1, <2>2, <2>3, <2>4, <2>5, <2>6, <2>7, <2>8 DEF Next
<1> QED
  BY <1>1, InitInv, PTL DEF Spec

LEMMA InvGivesProperties == Inv => TypeOK /\ Capacity /\ QueueIsFifo
<1> SUFFICES ASSUME Inv PROVE TypeOK /\ Capacity /\ QueueIsFifo
  OBVIOUS
<1>1. /\ kept \in Seq(Entry) /\ buf.queue_ \in Seq(Message) /\ popped \in Nat
      /\ got \in Seq(Seq(Cell)) /\ BufferOK(buf)
  BY FieldTypes DEF Inv, TypeOK
<1>2. /\ DOMAIN buf.queue_ = 1 .. Len(buf.queue_) /\ DOMAIN got = 1 .. Len(got)
  BY <1>1, LenProperties
<1>3. Capacity
  BY <1>1 DEF Capacity, BufferOK, MessageOK
<1>4. QueueIsFifo
  BY <1>1, <1>2 DEF Inv, Fifo, Returned, QueueIsFifo, TotalAt, Upto
<1> QED
  BY <1>3, <1>4 DEF Inv

\* Every variable keeps its type in every use of a buffer: in particular the
\* unsigned written_ never wraps below zero, whatever bytes a peer sends.
THEOREM TypeCorrect == Spec => []TypeOK
  BY Invariance, InvGivesProperties, PTL

\* No use of a buffer exceeds the limits it was created with.
THEOREM CapacityHolds == Spec => []Capacity
  BY Invariance, InvGivesProperties, PTL

\* Messages leave a buffer in the order and with the sizes they entered it, and
\* space_used() is the total size of those inside.
THEOREM QueueIsFifoHolds == Spec => []QueueIsFifo
  BY Invariance, InvGivesProperties, PTL

-----------------------------------------------------------------------------
(* A buffer implements MessageQueue. *)

SizesOf(q) == [i \in DOMAIN q |-> q[i].size_]

QueuesOne(b, c) ==
  \E m \in Message : /\ MessageOK(m)
                     /\ c.queue_ = Append(b.queue_, m)
                     /\ c.written_ = b.written_ + m.size_

TakesOne(b, c) ==
  /\ b.queue_ # <<>>
  /\ c.queue_ = Tail(b.queue_)
  /\ c.written_ = b.written_ - Head(b.queue_).size_

KeepsAll(b, c) == SameMessages(b.queue_, c.queue_) /\ c.written_ = b.written_

\* What a step can do to the queue.
LEMMA StepOnQueue ==
  ASSUME Inv, [Next]_vars
  PROVE  KeepsAll(buf, buf') \/ QueuesOne(buf, buf') \/ TakesOne(buf, buf')
<1>1. /\ kept \in Seq(Entry) /\ buf.queue_ \in Seq(Message) /\ popped \in Nat
      /\ buf.written_ \in Nat /\ BufferOK(buf) /\ sent \in Seq(Seq(Byte))
      /\ data \in Seq(Byte) /\ room \in Nat
  BY FieldTypes DEF Inv, TypeOK
<1>2. buf' = buf => KeepsAll(buf, buf')
  BY DEF KeepsAll, SameMessages
<1>3. buf.queue_ # <<>> => buf.written_ - Head(buf.queue_).size_ \in Nat
  BY <1>1, PoppedKeepsHistory DEF Inv
<1>4. CASE \/ \E n \in Sizes : PeerSends(n)
           \/ \E n \in 1 .. Len(wire) : PutDataCall(n)
           \/ \E mSize \in Rooms : GetDataCall(mSize)
           \/ UNCHANGED vars
  BY <1>2, <1>4 DEF PeerSends, PutDataCall, GetDataCall, vars
<1>5. ASSUME NEW n \in Sizes, PutMessageCall(n) PROVE QueuesOne(buf, buf')
  <2> DEFINE body == Body(Len(sent) + 1, n)
             m    == [size_ |-> Len(body), offset_ |-> 0, body |-> body]
  <2>1. body \in Seq(Byte) /\ Len(body) = n
    <3>1. Len(sent) + 1 \in Nat
      BY <1>1, LenProperties
    <3> QED
      BY <3>1, BodyOK
  <2>2. buf' = PutMessage(buf, body) /\ Fits(buf, n) /\ buf.curTarget_ = NULL
    BY <1>5 DEF PutMessageCall, Inv, ModeOK
  <2> HIDE DEF body
  <2>3. /\ m \in Message /\ MessageOK(m) /\ m.size_ = Len(body)
        /\ buf'.queue_ = Append(buf.queue_, m)
        /\ buf'.written_ = buf.written_ + Len(body)
    BY <1>1, <2>1, <2>2, PutMessageOK
  <2> QED
    BY <2>3 DEF QueuesOne
<1>6. ASSUME NEW mSize \in Rooms, GetMessageCall(mSize) PROVE TakesOne(buf, buf')
  <2>1. buf.queue_ # <<>> /\ buf' = PopFront(buf)
    BY <1>6 DEF GetMessageCall, CanGetMessage
  <2> QED
    BY <1>1, <1>3, <2>1, PopFrontOK DEF TakesOne
<1>7. CASE PutDataLoop
  <2>1. Grows(buf, buf')
    BY <1>1, <1>7, PutDataTurnOK DEF PutDataLoop
  <2> QED
    BY <2>1 DEF Grows, QueuesOne, KeepsAll, SameMessages
<1>8. CASE GetDataLoop
  <2>1. room >= 3 /\ buf' = GetDataTurn(buf, room).buf
    BY <1>8 DEF GetDataLoop
  <2>2. buf.queue_ # <<>>
    BY <1>1, <2>1 DEF Inv, ModeOK
  <2>3. \/ buf'.queue_ = Tail(buf.queue_)
           /\ buf'.written_ = buf.written_ - Head(buf.queue_).size_
        \/ /\ Len(buf'.queue_) = Len(buf.queue_) /\ buf'.written_ = buf.written_
           /\ \A i \in 1 .. Len(buf.queue_) :
                buf'.queue_[i].size_ = buf.queue_[i].size_
    BY <1>1, <1>3, <2>1, <2>2, GetDataTurnOK
  <2> QED
    BY <2>2, <2>3 DEF TakesOne, KeepsAll, SameMessages
<1> QED
  BY <1>4, <1>5, <1>6, <1>7, <1>8 DEF Next

LEMMA SizesOfQueue ==
  ASSUME NEW q \in Seq(Message)
  PROVE  SizesOf(q) \in Seq(Nat) /\ Len(SizesOf(q)) = Len(q)
         /\ \A i \in 1 .. Len(q) : SizesOf(q)[i] = q[i].size_
<1>1. Len(q) \in Nat /\ DOMAIN q = 1 .. Len(q)
  BY LenProperties
<1>2. \A i \in 1 .. Len(q) : q[i].size_ \in Nat
  <2>1. \A i \in 1 .. Len(q) : q[i] \in Message
    BY ElementOfSeq
  <2> QED
    BY <2>1 DEF Message
<1>3. SizesOf(q) = [i \in 1 .. Len(q) |-> q[i].size_]
  BY <1>1 DEF SizesOf
<1> QED
  BY <1>1, <1>2, <1>3

LEMMA SizesOfAppend ==
  ASSUME NEW q \in Seq(Message), NEW m \in Message
  PROVE  SizesOf(Append(q, m)) = Append(SizesOf(q), m.size_)
<1> DEFINE a == SizesOf(Append(q, m))
           c == Append(SizesOf(q), m.size_)
<1>1. /\ Append(q, m) \in Seq(Message) /\ Len(Append(q, m)) = Len(q) + 1
      /\ Append(q, m)[Len(q) + 1] = m /\ Len(q) \in Nat
      /\ \A i \in 1 .. Len(q) : Append(q, m)[i] = q[i]
  BY AppendProperties, LenProperties
<1>2. /\ a \in Seq(Nat) /\ Len(a) = Len(q) + 1
      /\ \A i \in 1 .. Len(q) + 1 : a[i] = Append(q, m)[i].size_
  BY <1>1, SizesOfQueue
<1>3. m.size_ \in Nat
  BY DEF Message
<1>4. /\ SizesOf(q) \in Seq(Nat) /\ Len(SizesOf(q)) = Len(q)
      /\ \A i \in 1 .. Len(q) : SizesOf(q)[i] = q[i].size_
  BY SizesOfQueue
<1>5. /\ c \in Seq(Nat) /\ Len(c) = Len(q) + 1 /\ c[Len(q) + 1] = m.size_
      /\ \A i \in 1 .. Len(q) : c[i] = q[i].size_
  BY <1>3, <1>4, AppendProperties
<1> HIDE DEF a, c
<1>6. \A i \in 1 .. Len(a) : a[i] = c[i]
  <2> DEFINE n == Len(q)
             z == Append(q, m)
  <2>1. /\ n \in Nat /\ Len(a) = n + 1 /\ z[n + 1] = m /\ c[n + 1] = m.size_
        /\ \A i \in 1 .. n : z[i] = q[i] /\ c[i] = q[i].size_
        /\ \A i \in 1 .. n + 1 : a[i] = z[i].size_
    BY <1>1, <1>2, <1>5
  <2> HIDE DEF n, z
  <2>2. \A i \in 1 .. n + 1 : i = n + 1 \/ i \in 1 .. n
    BY <2>1
  <2> QED
    BY <2>1, <2>2
<1>7. a = c
  BY <1>2, <1>5, <1>6, SeqEqual
<1> QED
  BY <1>7 DEF a, c

LEMMA SizesOfTail ==
  ASSUME NEW q \in Seq(Message), q # <<>>
  PROVE  /\ SizesOf(q) # <<>> /\ Head(SizesOf(q)) = Head(q).size_
         /\ SizesOf(Tail(q)) = Tail(SizesOf(q))
<1> DEFINE s == SizesOf(q)
           a == SizesOf(Tail(q))
           c == Tail(s)
<1>1. /\ Len(q) \in Nat /\ Len(q) >= 1 /\ Head(q) = q[1]
      /\ Tail(q) \in Seq(Message) /\ Len(Tail(q)) = Len(q) - 1
      /\ \A i \in 1 .. Len(Tail(q)) : Tail(q)[i] = q[i+1]
  BY NonEmpty
<1>2. s \in Seq(Nat) /\ Len(s) = Len(q) /\ \A i \in 1 .. Len(q) : s[i] = q[i].size_
  BY SizesOfQueue
<1>3. /\ a \in Seq(Nat) /\ Len(a) = Len(q) - 1
      /\ \A i \in 1 .. Len(q) - 1 : a[i] = Tail(q)[i].size_
  BY <1>1, SizesOfQueue
<1> HIDE DEF s, a
<1>4. s # <<>>
  BY <1>1, <1>2, EmptySeq
<1>5. /\ Head(s) = s[1] /\ c \in Seq(Nat) /\ Len(c) = Len(q) - 1
      /\ \A i \in 1 .. Len(c) : c[i] = s[i+1]
  BY <1>2, <1>4, NonEmpty
<1> HIDE DEF c
<1>6. \A i \in 1 .. Len(a) : a[i] = c[i]
  <2> SUFFICES ASSUME NEW i \in 1 .. Len(q) - 1 PROVE a[i] = c[i]
    BY <1>3
  <2>1. i \in 1 .. Len(c) /\ i + 1 \in 1 .. Len(q) /\ i \in 1 .. Len(Tail(q))
    BY <1>1, <1>5
  <2> QED
    BY <1>1, <1>2, <1>3, <1>5, <2>1
<1>7. a = c
  BY <1>3, <1>5, <1>6, SeqEqual
<1> QED
  BY <1>1, <1>2, <1>4, <1>5, <1>7 DEF s, a, c

\* In each of its three uses, whatever the fragments, a buffer is a bounded
\* first-in first-out queue of whole messages.
THEOREM Refinement == Spec => IsMessageQueue
<1>1. Init => Queue!Init
  BY DEF Init, Queue!Init, EmptyBuffer
<1>2. Inv /\ Inv' /\ [Next]_vars => [Queue!Next]_(Queue!vars)
  <2> SUFFICES ASSUME Inv, Inv', [Next]_vars PROVE [Queue!Next]_(Queue!vars)
    OBVIOUS
  <2>1. /\ buf.queue_ \in Seq(Message) /\ buf'.queue_ \in Seq(Message)
        /\ buf.written_ \in Nat /\ BufferOK(buf')
    BY FieldTypes DEF Inv
  <2>2. CASE KeepsAll(buf, buf')
    <3>1. SizesOf(buf'.queue_) = SizesOf(buf.queue_)
      BY <2>1, <2>2, LenProperties DEF KeepsAll, SameMessages, SizesOf
    <3> QED
      BY <2>2, <3>1 DEF KeepsAll, SizesOf, Queue!vars
  <2>3. CASE QueuesOne(buf, buf')
    <3>1. PICK m \in Message : /\ MessageOK(m)
                               /\ buf'.queue_ = Append(buf.queue_, m)
                               /\ buf'.written_ = buf.written_ + m.size_
      BY <2>3 DEF QueuesOne
    <3>2. m.size_ \in 0 .. MaxMsgSize
      BY <3>1, BufferAssumption DEF MessageOK, Message
    <3>3. /\ Len(SizesOf(buf.queue_)) = Len(buf.queue_)
          /\ Len(buf'.queue_) = Len(buf.queue_) + 1 /\ Len(buf.queue_) \in Nat
      BY <2>1, <3>1, SizesOfQueue, AppendProperties, LenProperties
    <3>4. Len(buf'.queue_) <= MaxNumMessages /\ buf'.written_ <= QueueSize
      BY <2>1 DEF BufferOK
    <3>5. Len(SizesOf(buf.queue_)) < MaxNumMessages
      BY <3>3, <3>4, BufferAssumption
    <3>6. SizesOf(buf'.queue_) = Append(SizesOf(buf.queue_), m.size_)
      BY <2>1, <3>1, SizesOfAppend
    <3>7. Queue!Put(m.size_)
      <4>1. /\ m.size_ <= MaxMsgSize /\ buf.written_ + m.size_ <= QueueSize
            /\ buf'.written_ = buf.written_ + m.size_
        BY <3>1, <3>2, <3>4
      <4> QED
        BY ONLY <3>5, <3>6, <4>1 DEF Queue!Put, SizesOf
    <3> QED
      BY <3>2, <3>7 DEF Queue!Next
  <2>4. CASE TakesOne(buf, buf')
    <3>1. Queue!Get
      BY <2>1, <2>4, SizesOfTail DEF TakesOne, Queue!Get, SizesOf
    <3> QED
      BY <3>1 DEF Queue!Next
  <2> QED
    BY <2>2, <2>3, <2>4, StepOnQueue
<1>3. Spec => Queue!Spec
  BY <1>1, <1>2, Invariance, PTL DEF Spec, Queue!Spec
<1> QED
  BY <1>3 DEF IsMessageQueue

-----------------------------------------------------------------------------
(* What put_data makes of a stream of frames. *)

\* The frame of `body' takes the bytes m + 1 to n of S.
FrameIn(S, m, n, body) ==
  /\ n = m + 2 + Len(body)
  /\ S[m + 1] * Radix + S[m + 2] = Len(body)
  /\ \A j \in 1 .. Len(body) : S[m + 2 + j] = body[j]

\* S is the frames of the bodies W, the k-th of which ends at off[k]; those
\* after it take at least their lengths.
IsStream(S, off, W) ==
  /\ S \in Seq(Byte) /\ W \in Seq(Seq(Byte))
  /\ off \in [0 .. Len(W) -> Nat]
  /\ off[0] = 0 /\ off[Len(W)] = Len(S)
  /\ \A k \in 1 .. Len(W) : FrameIn(S, off[k - 1], off[k], W[k])
  /\ \A k \in 0 .. Len(W) : off[k] + 2 * (Len(W) - k) <= Len(S)

\* The bytes d follow the first n of S.
Window(S, n, d) == n + Len(d) <= Len(S) /\ \A i \in 1 .. Len(d) : d[i] = S[n + i]

(***************************************************************************)
(* put_data has used n bytes of S, of which it has read h lengths, and has *)
(* d left: it is between two frames, or in a refused one whose rest is not *)
(* there yet; or between two bytes of a length; or in the h-th message.    *)
(***************************************************************************)
Point(b, d, S, off, W, h, n) ==
  /\ h \in 0 .. Len(W) /\ n \in Nat
  /\ \/ /\ b.curTarget_ = NULL /\ b.tmpSize_ = NoSize
        /\ n + b.toSkip_ = off[h]
        /\ b.toSkip_ > 0 => d = <<>>
     \/ /\ b.curTarget_ = NULL /\ b.toSkip_ = 0
        /\ h < Len(W) /\ n = off[h] + 1 /\ b.tmpSize_ = S[off[h] + 1] * Radix
     \/ /\ b.curTarget_ # NULL /\ b.toSkip_ = 0
        /\ h >= 1 /\ n = off[h - 1] + 2 + b.curTarget_.offset_
        /\ b.curTarget_.size_ = Len(W[h])

\* The frames that are done with: queued or refused.
Past(b, h) == IF b.curTarget_ = NULL THEN h ELSE h - 1

\* The message that b's target, begun before or in this turn, has become.
Completed(b, c, W, h) ==
  /\ c.curTarget_ = NULL
  /\ \E m \in Message :
       /\ c.queue_ = Append(b.queue_, m)
       /\ m.size_ = Len(W[h])
       /\ (b.curTarget_ = NULL \/ b.curTarget_.offset_ = 0) => m.body = W[h]

\* A turn that begins with b and ends with c and r, h2 lengths read, when all
\* it has is the bytes of S up to e.
Follows(b, h, e, c, r, h2, S, off, W) ==
  /\ \E n2 \in Nat : /\ n2 + Len(r) = e
                     /\ Point(c, r, S, off, W, h2, n2)
                     /\ Window(S, n2, r)
  /\ \/ c.queue_ = b.queue_ /\ Past(b, h) <= Past(c, h2)
     \/ Completed(b, c, W, h2) /\ Past(b, h) < h2

\* No frame is refused in the turn.
Counted(b, h, c, h2) ==
  c.toSkip_ = 0 /\ Past(c, h2) - Past(b, h) = Len(c.queue_) - Len(b.queue_)

LEMMA WindowRest ==
  ASSUME NEW S \in Seq(Byte), NEW n \in Nat, NEW d \in Seq(Byte), Window(S, n, d),
         NEW k \in 0 .. Len(d)
  PROVE  LET r == SubSeq(d, k + 1, Len(d))
         IN  /\ r \in Seq(Byte) /\ Len(r) = Len(d) - k
             /\ Window(S, n + k, r)
<1> DEFINE r == SubSeq(d, k + 1, Len(d))
<1>1. Len(d) \in Nat /\ k \in Nat /\ Len(S) \in Nat
  BY LenProperties
<1>2. r \in Seq(Byte)
  BY <1>1, SubSeqOfBytes
<1>3. Len(r) = Len(d) - k /\ \A i \in 1 .. Len(d) - k : r[i] = d[k + i]
  <2>1. \A i \in (k + 1) .. Len(d) : d[i] \in Byte
    BY <1>1, ElementOfSeq
  <2>2. /\ Len(r) = IF k + 1 <= Len(d) THEN Len(d) - (k + 1) + 1 ELSE 0
        /\ \A i \in 1 .. Len(d) - (k + 1) + 1 : r[i] = d[k + 1 + i - 1]
    BY <1>1, <2>1, SubSeqProperties
  <2> HIDE DEF r
  <2> QED
    BY <1>1, <2>2
<1> HIDE DEF r
<1>4. n + k + Len(r) <= Len(S)
  BY <1>1, <1>3 DEF Window
<1>5. ASSUME NEW i \in 1 .. Len(r) PROVE r[i] = S[n + k + i]
  <2>1. i \in 1 .. Len(d) - k /\ k + i \in 1 .. Len(d) /\ n + (k + i) = n + k + i
    BY <1>1, <1>3
  <2> QED
    BY <1>3, <2>1 DEF Window
<1> QED
  BY <1>2, <1>3, <1>4, <1>5 DEF Window, r

LEMMA FillTargetIs ==
  ASSUME NEW b, BufferOK(b), b.curTarget_ # NULL, NEW bytes \in Seq(Byte)
  PROVE  LET t == FillTarget(b, bytes)
             target == b.curTarget_
             left == target.size_ - target.offset_
         IN  \E k \in 0 .. Len(bytes) :
               /\ k <= left
               /\ t.rest = SubSeq(bytes, k + 1, Len(bytes))
               /\ t.buf.toSkip_ = b.toSkip_ /\ t.buf.tmpSize_ = b.tmpSize_
               /\ \/ /\ k = left /\ t.buf.curTarget_ = NULL
                     /\ \E m \in Message :
                          /\ t.buf.queue_ = Append(b.queue_, m)
                          /\ m.size_ = target.size_
                          /\ m.body = CopyIn(target.body, bytes, k)
                  \/ /\ k < left /\ k = Len(bytes) /\ t.buf.queue_ = b.queue_
                     /\ t.buf.curTarget_ # NULL
                     /\ t.buf.curTarget_.size_ = target.size_
                     /\ t.buf.curTarget_.offset_ = target.offset_ + k
<1> DEFINE target == b.curTarget_
           k      == AtMost(target.size_ - target.offset_, Len(bytes))
           body   == CopyIn(target.body, bytes, k)
           filled == [size_ |-> target.size_, offset_ |-> target.offset_ + k,
                      body |-> body]
           whole  == [filled EXCEPT !.offset_ = 0]
           queued == [b EXCEPT !.queue_ = Append(@, whole),
                               !.written_ = @ + filled.size_,
                               !.curTarget_ = NULL]
           waits  == [b EXCEPT !.curTarget_ = filled]
           t      == FillTarget(b, bytes)
<1>1. target \in Message /\ MessageOK(target)
  BY DEF BufferOK, BufferType
<1>2. /\ k \in Nat /\ k <= Len(bytes) /\ k <= target.size_ - target.offset_
      /\ k = target.size_ - target.offset_ \/ k = Len(bytes)
      /\ target.size_ \in Nat /\ target.offset_ \in Nat /\ Len(bytes) \in Nat
      /\ target.offset_ <= target.size_
  BY <1>1, LenProperties DEF Message, MessageOK, AtMost
<1>3. body \in Seq(Cell)
  <2>1. target.body \in Seq(Cell)
    BY <1>1 DEF Message
  <2>2. ASSUME NEW i \in 1 .. Len(target.body)
        PROVE  (IF i <= k THEN bytes[i] ELSE target.body[i]) \in Cell
    BY <1>2, <2>1, ElementOfSeq, LenProperties DEF Cell
  <2>3. body = [i \in 1 .. Len(target.body) |->
                   IF i <= k THEN bytes[i] ELSE target.body[i]]
    BY <2>1 DEF CopyIn
  <2> HIDE DEF k, target, body
  <2> QED
    BY <2>1, <2>2, <2>3, SMT
<1>4. t = [buf  |-> IF filled.offset_ = filled.size_ THEN queued ELSE waits,
           rest |-> SubSeq(bytes, k + 1, Len(bytes))]
  BY DEF FillTarget
<1>5. filled.size_ = target.size_ /\ filled.offset_ = target.offset_ + k
  OBVIOUS
<1> HIDE DEF target, k, body, t
<1>6. filled \in Message /\ filled.body = body
  BY <1>1, <1>2, <1>3 DEF Message
<1> HIDE DEF filled
<1>7. whole \in Message /\ whole.size_ = target.size_ /\ whole.body = body
  BY <1>5, <1>6, RewoundMessage
<1> HIDE DEF whole
<1>8. /\ queued.queue_ = Append(b.queue_, whole) /\ queued.curTarget_ = NULL
      /\ queued.toSkip_ = b.toSkip_ /\ queued.tmpSize_ = b.tmpSize_
  BY DEF BufferOK, BufferType
<1>9. /\ waits.queue_ = b.queue_ /\ waits.curTarget_ = filled
      /\ waits.toSkip_ = b.toSkip_ /\ waits.tmpSize_ = b.tmpSize_
  BY DEF BufferOK, BufferType
<1> HIDE DEF queued, waits
<1>10. filled # NULL
  BY <1>6, BufferAssumption
<1>11. k \in 0 .. Len(bytes)
  BY <1>2
<1>12. CASE filled.offset_ = filled.size_
  <2>1. t.buf = queued /\ t.rest = SubSeq(bytes, k + 1, Len(bytes))
    BY <1>4, <1>12
  <2>2. k = target.size_ - target.offset_
    BY <1>2, <1>5, <1>12
  <2> QED
    BY <1>2, <1>7, <1>8, <1>11, <2>1, <2>2 DEF target, body, t
<1>13. CASE filled.offset_ # filled.size_
  <2>1. t.buf = waits /\ t.rest = SubSeq(bytes, k + 1, Len(bytes))
    BY <1>4, <1>13
  <2>2. k # target.size_ - target.offset_
    BY <1>2, <1>5, <1>13
  <2>3. k < target.size_ - target.offset_ /\ k = Len(bytes)
    BY <1>2, <2>2
  <2> QED
    BY <1>2, <1>5, <1>9, <1>10, <1>11, <2>1, <2>3 DEF target, t
<1> QED
  BY <1>12, <1>13 DEF t, target

LEMMA FrameAt ==
  ASSUME NEW S, NEW off, NEW W, IsStream(S, off, W), NEW k \in 1 .. Len(W)
  PROVE  /\ Len(W) \in Nat /\ W[k] \in Seq(Byte) /\ Len(W[k]) \in Nat
         /\ off[k - 1] \in Nat /\ off[k] \in Nat
         /\ off[k] = off[k - 1] + 2 + Len(W[k])
         /\ S[off[k - 1] + 1] * Radix + S[off[k - 1] + 2] = Len(W[k])
         /\ \A j \in 1 .. Len(W[k]) : S[off[k - 1] + 2 + j] = W[k][j]
<1>1. Len(W) \in Nat /\ W[k] \in Seq(Byte)
  BY LenProperties, ElementOfSeq DEF IsStream
<1>2. k - 1 \in 0 .. Len(W) /\ k \in 0 .. Len(W)
  BY <1>1
<1> QED
  BY <1>1, <1>2, LenProperties DEF IsStream, FrameIn

LEMMA FrameAfter ==
  ASSUME NEW S, NEW off, NEW W, IsStream(S, off, W), NEW h \in Nat, h + 1 \in 1 .. Len(W)
  PROVE  /\ off[h] \in Nat
         /\ S[off[h] + 1] * Radix + S[off[h] + 2] = Len(W[h + 1])
<1> DEFINE k == h + 1
<1>1. k \in 1 .. Len(W) /\ k - 1 = h
  OBVIOUS
<1> HIDE DEF k
<1>2. off[k - 1] \in Nat /\ S[off[k - 1] + 1] * Radix + S[off[k - 1] + 2] = Len(W[k])
  BY <1>1, FrameAt
<1>3. off[h] \in Nat /\ S[off[h] + 1] * Radix + S[off[h] + 2] = Len(W[k])
  BY <1>1, <1>2
<1> QED
  BY <1>3 DEF k

\* A message received in one piece has the bytes of its frame.
LEMMA CopiedWhole ==
  ASSUME NEW S, NEW off, NEW W, IsStream(S, off, W), NEW h \in 1 .. Len(W),
         NEW d \in Seq(Byte), Window(S, off[h - 1] + 2, d), Len(W[h]) <= Len(d),
         NEW body \in Seq(Cell), Len(body) = Len(W[h])
  PROVE  CopyIn(body, d, Len(W[h])) = W[h]
<1>1. /\ W[h] \in Seq(Byte) /\ Len(W[h]) \in Nat /\ off[h - 1] \in Nat
      /\ \A j \in 1 .. Len(W[h]) : S[off[h - 1] + 2 + j] = W[h][j]
  BY FrameAt
<1>2. Len(d) \in Nat /\ \A i \in 1 .. Len(d) : d[i] = S[off[h - 1] + 2 + i]
  BY LenProperties DEF Window
<1>3. \A i \in 1 .. Len(W[h]) : d[i] = W[h][i]
  BY <1>1, <1>2
<1>4. DOMAIN body = 1 .. Len(W[h])
  BY LenProperties
<1>5. CopyIn(body, d, Len(W[h]))
        = [i \in 1 .. Len(W[h]) |-> IF i <= Len(W[h]) THEN d[i] ELSE body[i]]
  BY <1>4 DEF CopyIn
<1>6. W[h] = [i \in 1 .. Len(W[h]) |-> W[h][i]]
  BY <1>1, LenProperties
<1> DEFINE w == W[h]
           len == Len(w)
<1>7. [i \in 1 .. len |-> IF i <= len THEN d[i] ELSE body[i]]
        = [i \in 1 .. len |-> w[i]]
  <2> HIDE DEF w
  <2>1. len \in Nat /\ \A i \in 1 .. len : d[i] = w[i]
    BY <1>1, <1>3 DEF w
  <2> HIDE DEF len
  <2> QED
    BY <2>1
<1> QED
  BY <1>5, <1>6, <1>7

LEMMA FillFollows ==
  ASSUME NEW S, NEW off, NEW W, IsStream(S, off, W),
         NEW b, BufferOK(b), b.curTarget_ # NULL,
         NEW d \in Seq(Byte), NEW h, NEW n, Point(b, d, S, off, W, h, n), Window(S, n, d)
  PROVE  LET t == FillTarget(b, d)
         IN  Follows(b, h, n + Len(d), t.buf, t.rest, h, S, off, W) /\ Counted(b, h, t.buf, h)
<1> DEFINE t == FillTarget(b, d)
           c == t.buf
           r == t.rest
           size == b.curTarget_.size_
           o == b.curTarget_.offset_
<1>1. /\ b.toSkip_ = 0 /\ h \in 1 .. Len(W) /\ n = off[h - 1] + 2 + o
      /\ size = Len(W[h]) /\ b.tmpSize_ = NoSize /\ n \in Nat
  <2>1. Len(W) \in Nat
    BY LenProperties DEF IsStream
  <2> QED
    BY <2>1 DEF Point, BufferOK
<1>2. /\ size \in Nat /\ o \in Nat /\ o <= size /\ b.curTarget_.body \in Seq(Cell)
      /\ Len(b.curTarget_.body) = size
  BY DEF BufferOK, BufferType, Message, MessageOK
<1>3. PICK k \in 0 .. Len(d) :
        /\ k <= size - o
        /\ r = SubSeq(d, k + 1, Len(d))
        /\ c.toSkip_ = b.toSkip_ /\ c.tmpSize_ = b.tmpSize_
        /\ \/ /\ k = size - o /\ c.curTarget_ = NULL
              /\ \E m \in Message :
                   /\ c.queue_ = Append(b.queue_, m)
                   /\ m.size_ = size
                   /\ m.body = CopyIn(b.curTarget_.body, d, k)
           \/ /\ k < size - o /\ k = Len(d) /\ c.queue_ = b.queue_
              /\ c.curTarget_ # NULL
              /\ c.curTarget_.size_ = size
              /\ c.curTarget_.offset_ = o + k
  BY FillTargetIs
<1> HIDE DEF t, c, r, size, o
<1>4. /\ r \in Seq(Byte) /\ Len(r) = Len(d) - k /\ Window(S, n + k, r)
      /\ Len(d) \in Nat /\ k \in Nat
  <2>1. S \in Seq(Byte) /\ n \in Nat /\ Len(d) \in Nat
    BY <1>1, LenProperties DEF IsStream
  <2> QED
    BY <1>3, <2>1, WindowRest
<1>5. /\ off[h - 1] \in Nat /\ off[h] \in Nat
      /\ off[h] = off[h - 1] + 2 + size /\ h \in Nat /\ h \in 0 .. Len(W)
  <2>1. /\ Len(W) \in Nat /\ off[h - 1] \in Nat /\ off[h] \in Nat
        /\ off[h] = off[h - 1] + 2 + Len(W[h])
    BY <1>1, FrameAt
  <2> QED
    BY <1>1, <2>1
<1>6. n + k \in Nat /\ n + k + Len(r) = n + Len(d)
  <2>1. Len(d) \in Nat /\ n \in Nat
    BY <1>1, <1>4
  <2> QED
    BY <1>4, <2>1
<1>7. CASE k = size - o /\ c.curTarget_ = NULL
  <2>1. PICK m \in Message : /\ c.queue_ = Append(b.queue_, m)
                             /\ m.size_ = size
                             /\ m.body = CopyIn(b.curTarget_.body, d, k)
    BY <1>3, <1>7
  <2>2. n + k + c.toSkip_ = off[h]
    <3>1. c.toSkip_ = 0 /\ n = off[h - 1] + 2 + o
      BY <1>1, <1>3
    <3>2. \A x, y, z \in Nat : y <= z => x + 2 + y + (z - y) + 0 = x + 2 + z
      OBVIOUS
    <3> DEFINE x == off[h - 1]
    <3>3. x \in Nat /\ n = x + 2 + o /\ off[h] = x + 2 + size
      BY <1>5, <3>1
    <3> HIDE DEF x
    <3>4. x + 2 + o + (size - o) + 0 = x + 2 + size
      BY <1>2, <3>2, <3>3
    <3> QED
      BY <1>7, <3>1, <3>3, <3>4
  <2>3. Point(c, r, S, off, W, h, n + k)
    BY <1>1, <1>3, <1>5, <1>6, <1>7, <2>2 DEF Point
  <2>4. o = 0 => m.body = W[h]
    <3> HAVE o = 0
    <3>1. k = size /\ n = off[h - 1] + 2
      BY <1>1, <1>2, <1>5, <1>7
    <3>2. k = Len(W[h]) /\ Len(W[h]) <= Len(d)
      BY <1>1, <1>4, <3>1
    <3>3. /\ b.curTarget_.body \in Seq(Cell)
          /\ Len(b.curTarget_.body) = Len(W[h])
      BY <1>1, <1>2
    <3>4. CopyIn(b.curTarget_.body, d, Len(W[h])) = W[h]
      BY <1>1, <3>1, <3>2, <3>3, CopiedWhole
    <3> QED
      BY <2>1, <3>2, <3>4
  <2>5. Completed(b, c, W, h)
    BY <1>1, <1>7, <2>1, <2>4 DEF Completed, o
  <2>6. Past(b, h) = h - 1 /\ Past(c, h) = h
    BY <1>7 DEF Past
  <2>7. Len(c.queue_) = Len(b.queue_) + 1 /\ Len(b.queue_) \in Nat
    BY <2>1, FieldTypes, AppendProperties, LenProperties
  <2>8. Counted(b, h, c, h)
    BY <1>1, <1>3, <1>5, <2>6, <2>7 DEF Counted
  <2>9. Past(b, h) < h
    BY <1>5, <2>6
  <2>10. Follows(b, h, n + Len(d), c, r, h, S, off, W)
    BY <1>4, <1>6, <2>3, <2>5, <2>9 DEF Follows
  <2> QED
    BY <2>8, <2>10 DEF t, c, r
<1>8. CASE /\ k < size - o /\ k = Len(d) /\ c.queue_ = b.queue_
           /\ c.curTarget_ # NULL
           /\ c.curTarget_.size_ = size
           /\ c.curTarget_.offset_ = o + k
  <2>1. n + k = off[h - 1] + 2 + c.curTarget_.offset_
    <3>1. \A x, y, z \in Nat : x + 2 + y + z = x + 2 + (y + z)
      OBVIOUS
    <3>2. off[h - 1] \in Nat /\ o \in Nat /\ k \in Nat
      BY <1>2, <1>4, <1>5
    <3>3. n = off[h - 1] + 2 + o /\ c.curTarget_.offset_ = o + k
      BY <1>1, <1>8
    <3> DEFINE x == off[h - 1]
    <3> HIDE DEF x
    <3>4. x + 2 + o + k = x + 2 + (o + k)
      BY <3>1, <3>2 DEF x
    <3> QED
      BY <3>3, <3>4 DEF x
  <2>2. Point(c, r, S, off, W, h, n + k)
    BY <1>1, <1>3, <1>5, <1>6, <1>8, <2>1 DEF Point
  <2>3. Past(c, h) = Past(b, h) /\ Past(b, h) = h - 1
    BY <1>8 DEF Past
  <2>4. Past(b, h) <= Past(c, h) /\ Past(c, h) - Past(b, h) = Len(c.queue_) - Len(b.queue_)
    <3>1. Len(b.queue_) \in Nat
      BY FieldTypes, LenProperties
    <3> QED
      BY <1>5, <1>8, <2>3, <3>1
  <2>5. Counted(b, h, c, h)
    BY <1>1, <1>3, <2>4 DEF Counted
  <2>6. Follows(b, h, n + Len(d), c, r, h, S, off, W)
    BY <1>4, <1>6, <1>8, <2>2, <2>4 DEF Follows
  <2> QED
    BY <2>5, <2>6 DEF t, c, r
<1> QED
  BY <1>3, <1>7, <1>8

\* A length has been read: its message is begun, or refused.
LEMMA StartFollows ==
  ASSUME NEW S, NEW off, NEW W, IsStream(S, off, W),
         NEW b, BufferOK(b), b.curTarget_ = NULL, b.toSkip_ = 0,
         NEW h \in Nat, h + 1 \in 1 .. Len(W),
         NEW d \in Seq(Byte), Window(S, off[h] + 2, d)
  PROVE  LET t == UseBytes(StartMessage(b, Len(W[h + 1])), d)
         IN  /\ Follows(b, h, off[h] + 2 + Len(d), t.buf, t.rest, h + 1, S, off, W)
             /\ Fits(b, Len(W[h + 1])) => Counted(b, h, t.buf, h + 1)
<1> DEFINE size == Len(W[h + 1])
           n  == off[h] + 2
           b0 == StartMessage(b, size)
           t  == UseBytes(b0, d)
           c  == t.buf
           r  == t.rest
<1>1. /\ size \in Nat /\ off[h] \in Nat /\ off[h + 1] \in Nat
      /\ off[h + 1] = off[h] + 2 + size /\ (h + 1) - 1 = h
      /\ Len(W) \in Nat /\ h + 1 \in Nat
  <2>1. (h + 1) - 1 = h
    OBVIOUS
  <2> QED
    BY <2>1, FrameAt
<1>2. /\ BufferOK(b0) /\ b0.queue_ = b.queue_ /\ b0.tmpSize_ = NoSize
      /\ b0.curTarget_ = NewMessage(b, size)
      /\ b0.toSkip_ = IF NewMessage(b, size) = NULL THEN size ELSE b.toSkip_
  <2>1. BufferOK(b0) /\ b0.queue_ = b.queue_ /\ b0.tmpSize_ = NoSize
    BY <1>1, StartMessageOK
  <2>2. b \in BufferType
    BY DEF BufferOK
  <2>3. b0 = [b EXCEPT !.curTarget_ = NewMessage(b, size),
                       !.toSkip_ = IF NewMessage(b, size) = NULL THEN size ELSE @,
                       !.tmpSize_ = NoSize]
    BY DEF StartMessage
  <2> HIDE DEF b0, size
  <2> QED
    BY <2>1, <2>2, <2>3 DEF BufferType
<1>3. NewMessage(b, size) = NULL => ~Fits(b, size)
  <2> SUFFICES ASSUME Fits(b, size), NewMessage(b, size) = NULL PROVE FALSE
    OBVIOUS
  <2>1. NULL = [size_ |-> size, offset_ |-> 0, body |-> [i \in 1 .. size |-> Junk]]
    BY DEF NewMessage
  <2>2. [i \in 1 .. size |-> Junk] \in Seq(Cell)
    BY <1>1, SMT DEF Cell
  <2>3. NULL \in Message
    BY <1>1, <2>1, <2>2 DEF Message
  <2> QED
    BY <2>3, BufferAssumption
<1>4. NewMessage(b, size) # NULL =>
        /\ NewMessage(b, size).size_ = size /\ NewMessage(b, size).offset_ = 0
  BY DEF NewMessage
<1>5. n \in Nat /\ S \in Seq(Byte) /\ Len(d) \in Nat
  <2>1. S \in Seq(Byte)
    BY DEF IsStream
  <2> QED
    BY <1>1, <2>1, LenProperties
<1>6. CASE NewMessage(b, size) = NULL
  <2> DEFINE k == AtMost(size, Len(d))
  <2>1. k \in 0 .. Len(d) /\ size - k \in Nat /\ (size - k > 0 => k = Len(d)) /\ k \in Nat
    BY <1>1, <1>5 DEF AtMost
  <2> DEFINE b1 == [b0 EXCEPT !.toSkip_ = @ - k]
  <2>2. t = [buf |-> b1, rest |-> SubSeq(d, k + 1, Len(d))]
    BY <1>2, <1>6 DEF UseBytes, SkipBytes
  <2> HIDE DEF k, b0, b1, t
  <2>3. c = b1 /\ r = SubSeq(d, k + 1, Len(d))
    BY <2>2
  <2> HIDE DEF c, r, n
  <2>11. /\ b1.queue_ = b0.queue_ /\ b1.toSkip_ = b0.toSkip_ - k
         /\ b1.curTarget_ = b0.curTarget_ /\ b1.tmpSize_ = b0.tmpSize_
    BY <1>2 DEF BufferOK, BufferType, b1
  <2>12. b0.toSkip_ = size
    BY <1>2, <1>6
  <2>13. /\ c.queue_ = b.queue_ /\ c.toSkip_ = size - k
         /\ c.curTarget_ = NULL /\ c.tmpSize_ = NoSize
    BY <1>2, <1>6, <2>3, <2>11, <2>12
  <2>4. Len(r) = Len(d) - k /\ Window(S, n + k, r) /\ r \in Seq(Byte)
    <3>1. Window(S, n, d)
      BY DEF n
    <3> QED
      BY <1>5, <2>1, <2>3, <3>1, WindowRest
  <2>5. c.toSkip_ > 0 => r = <<>>
    <3> HAVE c.toSkip_ > 0
    <3>1. Len(r) = 0
      BY <1>5, <2>1, <2>13, <2>4
    <3> QED
      BY <2>4, <3>1, EmptySeq
  <2> HIDE DEF size
  <2>6. n + k + c.toSkip_ = off[h + 1] /\ n + k \in Nat /\ n + k + Len(r) = n + Len(d)
    <3>1. n = off[h] + 2
      BY DEF n
    <3> DEFINE x == off[h]
    <3>a. x \in Nat /\ size \in Nat /\ k \in Nat
      BY <1>1, <2>1
    <3>b. \A i, j, l \in Nat : i + 2 + j + (l - j) = i + 2 + l
      OBVIOUS
    <3> HIDE DEF x
    <3>2. x + 2 + k + (size - k) = x + 2 + size
      BY <3>a, <3>b
    <3> QED
      <4>1. n + k + c.toSkip_ = off[h + 1]
        BY <1>1, <2>13, <3>1, <3>2 DEF x
      <4>2. n + k + (Len(d) - k) = n + Len(d) /\ n + k \in Nat
        BY <1>5, <2>1
      <4> QED
        BY <2>4, <4>1, <4>2
  <2>7. h + 1 \in 0 .. Len(W)
    BY <1>1
  <2>8. Point(c, r, S, off, W, h + 1, n + k)
    BY <2>13, <2>5, <2>6, <2>7 DEF Point
  <2>9. Past(b, h) = h /\ Past(c, h + 1) = h + 1 /\ h <= h + 1
    BY <1>1, <2>13 DEF Past
  <2>10. Follows(b, h, n + Len(d), c, r, h + 1, S, off, W)
    BY <2>13, <2>4, <2>6, <2>8, <2>9 DEF Follows
  <2> QED
    BY <1>3, <1>6, <2>10 DEF c, r, t, n, b0, size
<1>7. CASE NewMessage(b, size) # NULL
  <2>1. t = FillTarget(b0, d) /\ b0.curTarget_ # NULL
    BY <1>2, <1>7 DEF UseBytes
  <2>2. /\ b0.toSkip_ = 0 /\ b0.curTarget_.size_ = size /\ b0.curTarget_.offset_ = 0
    BY <1>2, <1>4, <1>7
  <2> HIDE DEF b0, t, c, r
  <2>3. h + 1 \in 0 .. Len(W) /\ h + 1 >= 1 /\ n = off[(h + 1) - 1] + 2 + 0
    BY <1>1
  <2>4. Point(b0, d, S, off, W, h + 1, n)
    BY <1>5, <2>1, <2>2, <2>3 DEF Point
  <2>5. Window(S, n, d)
    OBVIOUS
  <2> HIDE DEF n, size
  <2>6. /\ Follows(b0, h + 1, n + Len(d), c, r, h + 1, S, off, W)
        /\ Counted(b0, h + 1, c, h + 1)
    BY <1>2, <2>1, <2>4, <2>5, FillFollows DEF c, r
  <2>7. Past(b0, h + 1) = Past(b, h) /\ Past(b, h) = h
    BY <1>1, <2>1 DEF Past
  <2>8. Completed(b0, c, W, h + 1) => Completed(b, c, W, h + 1)
    BY <1>2, <2>2 DEF Completed
  <2>9. Follows(b, h, n + Len(d), c, r, h + 1, S, off, W)
    BY <1>2, <2>6, <2>7, <2>8 DEF Follows
  <2>10. Counted(b, h, c, h + 1)
    BY <1>2, <2>6, <2>7 DEF Counted
  <2> QED
    BY <2>9, <2>10 DEF c, r, t, n, b0, size
<1> QED
  BY <1>6, <1>7

Reads(b, d) == b.tmpSize_ # NoSize \/ (b.curTarget_ = NULL /\ Len(d) > 1)

\* Whatever is left of the stream, a turn of put_data finds the next frame, and
\* makes a message of it if there is room.
LEMMA PutDataTurnFollows ==
  ASSUME NEW S, NEW off, NEW W, IsStream(S, off, W), NEW b, BufferOK(b),
         NEW d \in Seq(Byte), d # <<>>, NEW h \in Nat, NEW n \in Nat,
         Point(b, d, S, off, W, h, n), Window(S, n, d)
  PROVE  LET t  == PutDataTurn(b, d)
             h2 == IF Reads(b, d) THEN h + 1 ELSE h
         IN  /\ Follows(b, h, n + Len(d), t.buf, t.rest, h2, S, off, W)
             /\ Reads(b, d) => h + 1 \in 1 .. Len(W)
             /\ (Reads(b, d) => Fits(b, Len(W[h + 1]))) => Counted(b, h, t.buf, h2)
<1> DEFINE t == PutDataTurn(b, d)
<1>1. /\ Len(d) \in Nat /\ Len(d) >= 1 /\ S \in Seq(Byte) /\ Len(W) \in Nat
      /\ d[1] \in Nat /\ d[1] = S[n + 1] /\ n + Len(d) <= Len(S)
      /\ off[Len(W)] = Len(S)
  <2>1. Len(d) \in Nat /\ Len(d) >= 1 /\ d[1] \in Byte
    BY NonEmpty, ElementOfSeq
  <2> QED
    BY <2>1, LenProperties, BufferAssumption DEF IsStream, Window, Byte
<1>2. CASE b.tmpSize_ # NoSize
  <2>1. /\ b.curTarget_ = NULL /\ b.toSkip_ = 0 /\ h < Len(W) /\ n = off[h] + 1
        /\ b.tmpSize_ = S[off[h] + 1] * Radix
    BY <1>2 DEF Point, BufferOK
  <2>2. h + 1 \in 1 .. Len(W)
    BY <1>1, <2>1
  <2>3. /\ off[h] \in Nat /\ S[off[h] + 1] * Radix + S[off[h] + 2] = Len(W[h + 1])
    BY <2>2, FrameAfter
  <2>4. n + 1 = off[h] + 2
    BY <2>1, <2>3
  <2>5. b.tmpSize_ + d[1] = Len(W[h + 1])
    BY <1>1, <2>1, <2>3, <2>4
  <2> DEFINE r == SubSeq(d, 2, Len(d))
  <2>6. /\ r \in Seq(Byte) /\ Len(r) = Len(d) - 1 /\ Window(S, n + 1, r)
    <3> DEFINE k == 1
    <3>1. k \in 0 .. Len(d) /\ k + 1 = 2 /\ n + k = n + 1
      BY <1>1
    <3> HIDE DEF k
    <3>2. r = SubSeq(d, k + 1, Len(d))
      BY <3>1
    <3> HIDE DEF r
    <3>3. /\ r \in Seq(Byte) /\ Len(r) = Len(d) - k /\ Window(S, n + k, r)
      BY <1>1, <3>1, <3>2, WindowRest
    <3> QED
      BY <3>3 DEF k
  <2>7. Tail(d) = r
    BY TailIsSubSeq
  <2>8. t = UseBytes(StartMessage(b, Len(W[h + 1])), r)
    BY <1>2, <2>5, <2>7 DEF PutDataTurn
  <2> HIDE DEF r, t
  <2>9. /\ Follows(b, h, off[h] + 2 + Len(r), t.buf, t.rest, h + 1, S, off, W)
        /\ Fits(b, Len(W[h + 1])) => Counted(b, h, t.buf, h + 1)
    BY <2>1, <2>2, <2>4, <2>6, <2>8, StartFollows
  <2>10. off[h] + 2 + Len(r) = n + Len(d)
    BY <1>1, <2>4, <2>6
  <2>11. Follows(b, h, n + Len(d), t.buf, t.rest, h + 1, S, off, W)
    BY <2>9, <2>10
  <2>12. Reads(b, d)
    BY <1>2 DEF Reads
  <2> QED
    BY <2>2, <2>9, <2>11, <2>12 DEF t
<1>3. CASE b.tmpSize_ = NoSize /\ b.curTarget_ # NULL
  <2>1. t = FillTarget(b, d)
    BY <1>3 DEF PutDataTurn
  <2>2. ~Reads(b, d)
    BY <1>3 DEF Reads
  <2> HIDE DEF t
  <2>3. /\ Follows(b, h, n + Len(d), t.buf, t.rest, h, S, off, W)
        /\ Counted(b, h, t.buf, h)
    BY <1>3, <2>1, FillFollows
  <2> QED
    BY <2>2, <2>3 DEF t
<1>4. b.tmpSize_ = NoSize /\ b.curTarget_ = NULL =>
        b.toSkip_ = 0 /\ n = off[h] /\ h + 1 \in 1 .. Len(W) /\ off[h] \in Nat
  <2> HAVE b.tmpSize_ = NoSize /\ b.curTarget_ = NULL
  <2>1. ~(b.tmpSize_ = S[off[h] + 1] * Radix /\ n = off[h] + 1)
    <3> SUFFICES ASSUME b.tmpSize_ = S[off[h] + 1] * Radix, n = off[h] + 1
                 PROVE  b.tmpSize_ \in Nat
      BY DEF NoSize
    <3>1. off[h] \in Nat
      BY <1>1 DEF Point, IsStream
    <3>2. off[h] + 1 \in 1 .. Len(S)
      <4>1. Len(S) \in Nat /\ Len(d) \in Nat /\ Len(d) >= 1 /\ off[h] + 1 + Len(d) <= Len(S)
        BY <1>1, LenProperties
      <4> QED
        BY <3>1, <4>1
    <3>3. S[off[h] + 1] \in Byte
      BY <1>1, <3>2, ElementOfSeq
    <3>4. S[off[h] + 1] * Radix \in Nat
      BY <3>3, BufferAssumption DEF Byte
    <3> QED
      BY <3>4
  <2>2. n + b.toSkip_ = off[h] /\ (b.toSkip_ > 0 => d = <<>>) /\ h \in 0 .. Len(W)
    BY <2>1 DEF Point
  <2>3. b.toSkip_ = 0 /\ n = off[h]
    BY <2>2, FieldTypes
  <2>4. h # Len(W)
    BY <1>1, <2>3, LenProperties
  <2> QED
    BY <1>1, <2>2, <2>3, <2>4
<1>5. CASE b.tmpSize_ = NoSize /\ b.curTarget_ = NULL /\ Len(d) = 1
  <2> DEFINE c == [b EXCEPT !.tmpSize_ = HalfLength(d[1])]
  <2>1. t = [buf |-> c, rest |-> <<>>]
    BY <1>5 DEF PutDataTurn
  <2>2. /\ c.queue_ = b.queue_ /\ c.curTarget_ = NULL /\ c.toSkip_ = 0
        /\ c.tmpSize_ = S[off[h] + 1] * Radix
    BY <1>1, <1>4, <1>5 DEF BufferOK, BufferType, HalfLength
  <2> HIDE DEF t, c
  <2>3. n + 1 = off[h] + 1 /\ h < Len(W) /\ h \in 0 .. Len(W) /\ n + 1 \in Nat
    BY <1>1, <1>4, <1>5
  <2>4. Point(c, <<>>, S, off, W, h, n + 1)
    BY <2>2, <2>3 DEF Point
  <2>5. Len(<<>>) = 0 /\ Window(S, n + 1, <<>>)
    BY <1>1, <1>5, EmptySeq, LenProperties DEF Window
  <2>6. Past(b, h) = h /\ Past(c, h) = h
    BY <1>5, <2>2 DEF Past
  <2>7. n + 1 + Len(<<>>) = n + Len(d) /\ h <= h
    BY <1>5, <2>5
  <2>8. Follows(b, h, n + Len(d), c, <<>>, h, S, off, W)
    BY <2>2, <2>3, <2>4, <2>5, <2>6, <2>7 DEF Follows
  <2>9. Counted(b, h, c, h)
    <3>1. Len(b.queue_) \in Nat
      BY FieldTypes, LenProperties
    <3> QED
      BY <2>2, <2>6, <3>1 DEF Counted
  <2>10. ~Reads(b, d)
    BY <1>5 DEF Reads
  <2> QED
    BY <2>1, <2>8, <2>9, <2>10 DEF t
<1>6. CASE b.tmpSize_ = NoSize /\ b.curTarget_ = NULL /\ Len(d) # 1
  <2>1. b.toSkip_ = 0 /\ n = off[h] /\ h + 1 \in 1 .. Len(W) /\ off[h] \in Nat
    BY <1>4, <1>6
  <2>2. 2 \in 1 .. Len(d) /\ 2 \in 0 .. Len(d)
    <3>1. Len(d) \in Nat /\ Len(d) >= 1 /\ Len(d) # 1
      BY <1>1, <1>6
    <3>2. \A x \in Nat : x >= 1 /\ x # 1 => 2 \in 1 .. x /\ 2 \in 0 .. x
      OBVIOUS
    <3> QED
      BY <3>1, <3>2
  <2>3. S[off[h] + 1] * Radix + S[off[h] + 2] = Len(W[h + 1])
    BY <2>1, FrameAfter
  <2>4. d[1] * Radix + d[2] = Len(W[h + 1])
    <3>1. d[2] = S[n + 2]
      BY <2>2 DEF Window
    <3> QED
      BY <1>1, <2>1, <2>3, <3>1
  <2> DEFINE r == SubSeq(d, 3, Len(d))
  <2>5. /\ r \in Seq(Byte) /\ Len(r) = Len(d) - 2 /\ Window(S, n + 2, r)
    <3> DEFINE k == 2
    <3>1. k \in 0 .. Len(d) /\ k + 1 = 3 /\ n + k = n + 2
      BY <2>2
    <3> HIDE DEF k
    <3>2. r = SubSeq(d, k + 1, Len(d))
      BY <3>1
    <3> HIDE DEF r
    <3>3. /\ r \in Seq(Byte) /\ Len(r) = Len(d) - k /\ Window(S, n + k, r)
      BY <1>1, <3>1, <3>2, WindowRest
    <3> QED
      BY <3>3 DEF k
  <2>6. t = UseBytes(StartMessage(b, Len(W[h + 1])), r)
    BY <1>6, <2>4 DEF PutDataTurn
  <2> HIDE DEF r, t
  <2>7. /\ Follows(b, h, off[h] + 2 + Len(r), t.buf, t.rest, h + 1, S, off, W)
        /\ Fits(b, Len(W[h + 1])) => Counted(b, h, t.buf, h + 1)
    BY <1>6, <2>1, <2>5, <2>6, StartFollows
  <2>8. off[h] + 2 + Len(r) = n + Len(d)
    BY <1>1, <2>1, <2>5
  <2>9. Follows(b, h, n + Len(d), t.buf, t.rest, h + 1, S, off, W)
    BY <2>7, <2>8
  <2>10. Reads(b, d)
    <3>1. Len(d) \in Nat /\ 2 \in 1 .. Len(d)
      BY <1>1, <2>2
    <3>2. Len(d) > 1
      BY <3>1
    <3> QED
      BY <1>6, <3>2 DEF Reads
  <2> QED
    BY <2>1, <2>7, <2>9, <2>10 DEF t
<1> QED
  BY <1>2, <1>3, <1>5, <1>6

-----------------------------------------------------------------------------
(* Which frame each message is. *)

\* The body of the i-th message: in g if it was returned, else in the queue.
BodyIn(g, q, p, i) == IF i <= p THEN g[i] ELSE q[i - p].body

\* The messages k are frames of the bodies W, in order and none beyond the
\* first `top', and have their bytes; get_data does not keep what it has sent.
FramesOK(k, W, g, q, p, md, top) ==
  \A i \in 1 .. Len(k) :
    /\ k[i].frame \in 1 .. Len(W) /\ k[i].frame <= top
    /\ k[i].size = Len(W[k[i].frame])
    /\ i > 1 => k[i - 1].frame < k[i].frame
    /\ k[i].whole /\ (md = "send" => i > p) => BodyIn(g, q, p, i) = W[k[i].frame]

LEMMA FramesSent ==
  ASSUME NEW k, NEW W \in Seq(Seq(Byte)), NEW x \in Seq(Byte), NEW g, NEW q, NEW p,
         NEW md, NEW top \in Int, NEW top2 \in Int, top <= top2, k \in Seq(Entry),
         FramesOK(k, W, g, q, p, md, top)
  PROVE  FramesOK(k, Append(W, x), g, q, p, md, top2)
<1>1. /\ Len(Append(W, x)) = Len(W) + 1 /\ Len(W) \in Nat
      /\ \A i \in 1 .. Len(W) : Append(W, x)[i] = W[i]
  BY AppendProperties, LenProperties
<1>2. \A i \in 1 .. Len(k) : k[i].frame \in Nat
  <2>1. \A i \in 1 .. Len(k) : k[i] \in Entry
    BY ElementOfSeq
  <2> QED
    BY <2>1 DEF Entry
<1> QED
  BY <1>1, <1>2 DEF FramesOK

LEMMA FramesQueued ==
  ASSUME NEW k \in Seq(Entry), NEW W, NEW g, NEW q \in Seq(Message), NEW p \in Nat,
         NEW md, NEW top \in Int, NEW top2 \in Int,
         FramesOK(k, W, g, q, p, md, top), Len(k) = p + Len(q), top <= top2,
         NEW e \in Entry, NEW m \in Message,
         e.frame \in 1 .. Len(W), top < e.frame, e.frame <= top2,
         e.size = Len(W[e.frame]), e.whole => m.body = W[e.frame]
  PROVE  FramesOK(Append(k, e), W, g, Append(q, m), p, md, top2)
<1> DEFINE k2 == Append(k, e)
           q2 == Append(q, m)
<1>1. /\ Len(k2) = Len(k) + 1 /\ k2[Len(k) + 1] = e /\ Len(k) \in Nat
      /\ \A i \in 1 .. Len(k) : k2[i] = k[i]
  BY AppendProperties, LenProperties
<1>2. /\ q2[Len(q) + 1] = m /\ Len(q) \in Nat
      /\ \A i \in 1 .. Len(q) : q2[i] = q[i]
  BY AppendProperties, LenProperties
<1>3. \A i \in 1 .. Len(k) : k[i].frame \in Nat
  <2>1. \A i \in 1 .. Len(k) : k[i] \in Entry
    BY ElementOfSeq
  <2> QED
    BY <2>1 DEF Entry
<1>4. e.frame \in Nat
  BY DEF Entry
<1> HIDE DEF k2, q2
<1>5. ASSUME NEW i \in 1 .. Len(k)
      PROVE  /\ k2[i] = k[i] /\ (i > 1 => k2[i - 1] = k[i - 1])
             /\ BodyIn(g, q2, p, i) = BodyIn(g, q, p, i)
  <2>1. i > 1 => i - 1 \in 1 .. Len(k)
    BY <1>1
  <2>2. ~(i <= p) => i - p \in 1 .. Len(q)
    BY <1>1, <1>2
  <2> QED
    BY <1>1, <1>2, <2>1, <2>2 DEF BodyIn
<1>6. ASSUME NEW i \in 1 .. Len(k)
      PROVE  /\ k2[i].frame \in 1 .. Len(W) /\ k2[i].frame <= top2
             /\ k2[i].size = Len(W[k2[i].frame])
             /\ i > 1 => k2[i - 1].frame < k2[i].frame
             /\ k2[i].whole /\ (md = "send" => i > p) => BodyIn(g, q2, p, i) = W[k2[i].frame]
  <2>1. /\ k[i].frame \in 1 .. Len(W) /\ k[i].frame <= top
        /\ k[i].size = Len(W[k[i].frame])
        /\ i > 1 => k[i - 1].frame < k[i].frame
        /\ k[i].whole /\ (md = "send" => i > p) => BodyIn(g, q, p, i) = W[k[i].frame]
    BY DEF FramesOK
  <2>2. k[i].frame <= top2
    BY <1>3, <2>1
  <2> QED
    BY <1>5, <2>1, <2>2
<1>7. LET i == Len(k) + 1
      IN  /\ k2[i].frame \in 1 .. Len(W) /\ k2[i].frame <= top2
          /\ k2[i].size = Len(W[k2[i].frame])
          /\ i > 1 => k2[i - 1].frame < k2[i].frame
          /\ k2[i].whole /\ (md = "send" => i > p) => BodyIn(g, q2, p, i) = W[k2[i].frame]
  <2>1. BodyIn(g, q2, p, Len(k) + 1) = m.body
    <3>1. ~(Len(k) + 1 <= p) /\ Len(k) + 1 - p = Len(q) + 1
      BY <1>1, <1>2
    <3> QED
      BY <1>2, <3>1 DEF BodyIn
  <2>2. Len(k) + 1 > 1 => k2[Len(k) + 1 - 1].frame < e.frame
    <3> HAVE Len(k) + 1 > 1
    <3>1. Len(k) \in 1 .. Len(k) /\ Len(k) + 1 - 1 = Len(k)
      BY <1>1
    <3>2. k[Len(k)].frame <= top
      BY <3>1 DEF FramesOK
    <3>3. k[Len(k)].frame \in Nat
      BY <1>3, <3>1
    <3> QED
      BY <1>1, <1>4, <3>1, <3>2, <3>3
  <2> QED
    BY <1>1, <2>1, <2>2
<1>8. \A i \in 1 .. Len(k2) : i \in 1 .. Len(k) \/ i = Len(k) + 1
  BY <1>1
<1>9. FramesOK(k2, W, g, q2, p, md, top2)
  BY <1>6, <1>7, <1>8 DEF FramesOK
<1> QED
  BY <1>9 DEF k2, q2

LEMMA FramesReturned ==
  ASSUME NEW k \in Seq(Entry), NEW W, NEW g \in Seq(Seq(Cell)), NEW q \in Seq(Message),
         NEW p \in Nat, NEW md, NEW top,
         FramesOK(k, W, g, q, p, md, top), q # <<>>, Len(g) = p, Len(k) = p + Len(q)
  PROVE  FramesOK(k, W, Append(g, Head(q).body), Tail(q), p + 1, md, top)
<1> DEFINE g2 == Append(g, Head(q).body)
           q2 == Tail(q)
<1>1. /\ Len(q) \in Nat /\ Len(q) >= 1 /\ Head(q) = q[1] /\ Head(q) \in Message
      /\ Len(q2) = Len(q) - 1 /\ \A i \in 1 .. Len(q2) : q2[i] = q[i + 1]
  BY NonEmpty
<1>2. g2[p + 1] = Head(q).body /\ \A i \in 1 .. p : g2[i] = g[i]
  <2>1. Head(q).body \in Seq(Cell)
    BY <1>1 DEF Message
  <2> QED
    BY <2>1, AppendProperties
<1> HIDE DEF g2
<1>4. ASSUME NEW i \in 1 .. Len(k) PROVE BodyIn(g2, q2, p + 1, i) = BodyIn(g, q, p, i)
  <2>1. CASE i <= p
    BY <1>2, <2>1 DEF BodyIn
  <2>2. CASE i = p + 1
    <3>1. i <= p + 1 /\ ~(i <= p) /\ i - p = 1
      BY <2>2
    <3> QED
      BY <1>1, <1>2, <2>2, <3>1 DEF BodyIn
  <2>3. CASE i > p + 1
    <3>1. /\ ~(i <= p + 1) /\ ~(i <= p) /\ (i - (p + 1)) + 1 = i - p
          /\ i - (p + 1) \in 1 .. Len(q2)
      BY <1>1, <2>3
    <3> QED
      BY <1>1, <3>1 DEF BodyIn
  <2> QED
    BY <2>1, <2>2, <2>3
<1> QED
  BY <1>4 DEF FramesOK, g2

-----------------------------------------------------------------------------
(* What get_data returns. *)

\* The first message of q as a turn of get_data leaves it, n bytes later.
TurnWrites(q, q2, bytes, n) ==
  LET o    == q[1].offset_
      size == q[1].size_
  IN  /\ n \in Nat /\ bytes \in Seq(Cell)
      /\ Len(bytes) = n + (IF o = 0 THEN 2 ELSE 0)
      /\ o = 0 => /\ bytes[1] = HeaderOf(size)[1] /\ bytes[2] = HeaderOf(size)[2]
                  /\ \A j \in 1 .. n : bytes[2 + j] = q[1].body[j]
      /\ \/ o + n = size /\ q2 = Tail(q)
         \/ /\ o + n < size /\ n > 0 /\ Len(q2) = Len(q)
            /\ q2[1].size_ = size /\ q2[1].offset_ = o + n /\ q2[1].body = q[1].body
            /\ \A i \in 2 .. Len(q) : q2[i] = q[i]

LEMMA HeaderThenBody ==
  ASSUME NEW size \in 0 .. MaxMsgSize, NEW body \in Seq(Cell), NEW n \in 0 .. Len(body)
  PROVE  LET bytes == HeaderOf(size) \o SubSeq(body, 1, n)
         IN  /\ bytes \in Seq(Cell) /\ Len(bytes) = n + 2
             /\ bytes[1] = HeaderOf(size)[1] /\ bytes[2] = HeaderOf(size)[2]
             /\ \A j \in 1 .. n : bytes[2 + j] = body[j]
<1> DEFINE hd == HeaderOf(size)
           s  == SubSeq(body, 1, n)
<1>1. hd \in Seq(Cell) /\ Len(hd) = 2
  <2>1. size \in Nat /\ size < Radix * Radix
    BY BufferAssumption
  <2>2. hd \in Seq(Byte) /\ Len(hd) = 2
    BY <2>1, HeaderOfOK
  <2> QED
    BY <2>2, SeqMonotonic DEF Cell
<1>2. s \in Seq(Cell) /\ Len(s) = n /\ \A j \in 1 .. n : s[j] = body[j]
  <2>1. Len(body) \in Nat /\ n \in Nat
    BY LenProperties
  <2>2. \A i \in 1 .. n : body[i] \in Cell
    BY <2>1, ElementOfSeq
  <2>3. /\ s \in Seq(Cell) /\ Len(s) = IF 1 <= n THEN n - 1 + 1 ELSE 0
        /\ \A i \in 1 .. n - 1 + 1 : s[i] = body[1 + i - 1]
    BY <2>1, <2>2, SubSeqProperties
  <2> HIDE DEF s
  <2> QED
    BY <2>1, <2>3
<1> HIDE DEF hd, s
<1>4. n \in Nat
  BY LenProperties
<1>3. /\ hd \o s \in Seq(Cell) /\ Len(hd \o s) = 2 + n
      /\ \A i \in 1 .. 2 + n : (hd \o s)[i] = IF i <= 2 THEN hd[i] ELSE s[i - 2]
  <2>1. /\ hd \o s \in Seq(Cell) /\ Len(hd \o s) = Len(hd) + Len(s)
        /\ \A i \in 1 .. Len(hd) + Len(s) :
             (hd \o s)[i] = IF i <= Len(hd) THEN hd[i] ELSE s[i - Len(hd)]
    BY <1>1, <1>2, ConcatProperties
  <2> QED
    BY <1>1, <1>2, <2>1
<1> DEFINE z == hd \o s
<1> HIDE DEF z
<1>5. z[1] = hd[1] /\ z[2] = hd[2]
  BY <1>3, <1>4 DEF z
<1>6. ASSUME NEW j \in 1 .. n PROVE z[2 + j] = body[j]
  <2>1. 2 + j \in 1 .. 2 + n /\ ~(2 + j <= 2) /\ (2 + j) - 2 = j
    BY <1>4
  <2>2. z[2 + j] = s[j]
    BY <1>3, <2>1 DEF z
  <2> QED
    BY <1>2, <2>2
<1>7. 2 + n = n + 2
  BY <1>4
<1> QED
  BY <1>3, <1>5, <1>6, <1>7 DEF hd, s, z

LEMMA GetDataTurnIs ==
  ASSUME NEW b, BufferOK(b), b.queue_ # <<>>, b.written_ - Head(b.queue_).size_ \in Nat,
         NEW space \in Nat, space >= 3
  PROVE  LET t == GetDataTurn(b, space)
         IN  \E n \in Nat : TurnWrites(b.queue_, t.buf.queue_, t.bytes, n)
<1> DEFINE w     == b.queue_[1]
           head  == HeaderIfFirst(w)
           left  == space - Len(head)
           n     == AtMost(w.size_ - w.offset_, left)
           sent_ == [w EXCEPT !.offset_ = @ + n]
           moved == [b EXCEPT !.queue_[1] = sent_]
           t     == GetDataTurn(b, space)
<1>1. Head(b.queue_) = w /\ w \in Message /\ 1 \in 1 .. Len(b.queue_)
  BY FieldTypes, NonEmpty
<1>2. MessageOK(w)
  BY <1>1, FieldTypes, LenProperties DEF BufferOK
<1>3. /\ w.size_ \in 0 .. MaxMsgSize /\ w.offset_ \in Nat /\ w.offset_ <= w.size_
      /\ w.body \in Seq(Cell) /\ Len(w.body) = w.size_
  BY <1>1, <1>2, BufferAssumption DEF Message, MessageOK
<1>4. Len(head) = IF w.offset_ = 0 THEN 2 ELSE 0
  <2>1. Len(HeaderOf(w.size_)) = 2
    BY DEF HeaderOf
  <2> QED
    BY <2>1 DEF HeaderIfFirst
<1>5. t = [buf   |-> IF sent_.offset_ = sent_.size_ THEN PopFront(b) ELSE moved,
           room  |-> left - n,
           bytes |-> head \o CopyOut(w, n)]
  BY <1>1 DEF GetDataTurn
<1> HIDE DEF t, head
<1>6. left \in Nat /\ left > 0
  <2>1. Len(head) \in {0, 2}
    BY <1>4
  <2>2. \A x \in {0, 2} : space - x \in Nat /\ space - x > 0
    OBVIOUS
  <2> QED
    BY <2>1, <2>2
<1> HIDE DEF left
<1>7. /\ n \in Nat /\ n <= w.size_ - w.offset_
      /\ w.offset_ + n # w.size_ => w.offset_ + n < w.size_ /\ n > 0
      /\ w.offset_ = 0 => n \in 0 .. Len(w.body)
  <2>1. w.size_ \in Nat /\ w.offset_ \in Nat /\ w.offset_ <= w.size_ /\ Len(w.body) = w.size_
    BY <1>3
  <2> HIDE DEF w
  <2> QED
    BY <1>6, <2>1 DEF AtMost
<1> HIDE DEF n
<1>8. /\ sent_ \in Message /\ sent_.size_ = w.size_ /\ sent_.offset_ = w.offset_ + n
      /\ sent_.body = w.body
  BY <1>1, <1>7 DEF Message
<1> HIDE DEF w, sent_
<1>9. /\ t.bytes \in Seq(Cell) /\ Len(t.bytes) = n + (IF w.offset_ = 0 THEN 2 ELSE 0)
      /\ w.offset_ = 0 =>
           /\ t.bytes[1] = HeaderOf(w.size_)[1] /\ t.bytes[2] = HeaderOf(w.size_)[2]
           /\ \A j \in 1 .. n : t.bytes[2 + j] = w.body[j]
  <2>1. CASE w.offset_ = 0
    <3>1. t.bytes = HeaderOf(w.size_) \o SubSeq(w.body, 1, n)
      BY <1>5, <2>1 DEF head, HeaderIfFirst, CopyOut
    <3>2. /\ w.size_ \in 0 .. MaxMsgSize /\ w.body \in Seq(Cell)
          /\ n \in 0 .. Len(w.body)
      BY <1>3, <1>7, <2>1
    <3>3. /\ t.bytes \in Seq(Cell) /\ Len(t.bytes) = n + 2
          /\ t.bytes[1] = HeaderOf(w.size_)[1] /\ t.bytes[2] = HeaderOf(w.size_)[2]
          /\ \A j \in 1 .. n : t.bytes[2 + j] = w.body[j]
      <4> DEFINE size == w.size_
                 body == w.body
      <4>1. size \in 0 .. MaxMsgSize /\ body \in Seq(Cell) /\ n \in 0 .. Len(body)
        BY <3>2
      <4>2. t.bytes = HeaderOf(size) \o SubSeq(body, 1, n)
        BY <3>1
      <4> DEFINE bytes == t.bytes
      <4> HIDE DEF size, body, bytes
      <4>a. bytes = HeaderOf(size) \o SubSeq(body, 1, n)
        BY <4>2 DEF bytes
      <4>3. /\ bytes \in Seq(Cell) /\ Len(bytes) = n + 2
            /\ bytes[1] = HeaderOf(size)[1] /\ bytes[2] = HeaderOf(size)[2]
            /\ \A j \in 1 .. n : bytes[2 + j] = body[j]
        BY ONLY <4>1, <4>a, HeaderThenBody
      <4> QED
        BY <4>3 DEF size, body, bytes
    <3> QED
      BY <2>1, <3>3
  <2>2. CASE w.offset_ # 0
    <3>1. t.bytes = <<>> \o SubSeq(w.body, 1, n)
      BY <1>5, <2>2 DEF head, HeaderIfFirst, CopyOut
    <3>2. w.body \in Seq(Cell) /\ n \in Nat /\ n <= Len(w.body) /\ Len(w.body) \in Nat
      BY <1>3, <1>7
    <3>3. \A i \in 1 .. n : w.body[i] \in Cell
      BY <3>2, ElementOfSeq
    <3>4. SubSeq(w.body, 1, n) \in Seq(Cell) /\ Len(SubSeq(w.body, 1, n)) = n
      <4>1. Len(SubSeq(w.body, 1, n)) = IF 1 <= n THEN n - 1 + 1 ELSE 0
        BY <3>2, <3>3, SubSeqProperties
      <4> QED
        BY <3>2, <3>3, <4>1, SubSeqProperties
    <3>5. t.bytes = SubSeq(w.body, 1, n)
      BY <3>1, <3>4, ConcatEmptySeq
    <3> QED
      BY <2>2, <3>2, <3>4, <3>5
  <2> QED
    BY <2>1, <2>2
<1>10. \/ w.offset_ + n = w.size_ /\ t.buf.queue_ = Tail(b.queue_)
       \/ /\ w.offset_ + n < w.size_ /\ n > 0 /\ Len(t.buf.queue_) = Len(b.queue_)
          /\ t.buf.queue_[1].size_ = w.size_
          /\ t.buf.queue_[1].offset_ = w.offset_ + n
          /\ t.buf.queue_[1].body = w.body
          /\ \A i \in 2 .. Len(b.queue_) : t.buf.queue_[i] = b.queue_[i]
  <2>1. CASE w.offset_ + n = w.size_
    <3>1. t.buf = PopFront(b)
      BY <1>5, <1>8, <2>1
    <3> QED
      BY <2>1, <3>1, PopFrontOK
  <2>2. CASE w.offset_ + n # w.size_
    <3>1. t.buf = moved
      BY <1>5, <1>8, <2>2
    <3> DEFINE q == [b.queue_ EXCEPT ![1] = sent_]
    <3>2. moved = [b EXCEPT !.queue_ = q]
      BY DEF BufferOK, BufferType
    <3>3. /\ q \in Seq(Message) /\ Len(q) = Len(b.queue_)
          /\ q[1] = sent_ /\ \A i \in 1 .. Len(b.queue_) : i # 1 => q[i] = b.queue_[i]
      BY <1>1, <1>8, FieldTypes, ExceptSeq
    <3> HIDE DEF q, moved
    <3>4. t.buf.queue_ = q
      BY <3>1, <3>2 DEF BufferOK, BufferType
    <3>5. \A i \in 2 .. Len(b.queue_) : i \in 1 .. Len(b.queue_) /\ i # 1
      OBVIOUS
    <3> QED
      BY <1>7, <1>8, <2>2, <3>3, <3>4, <3>5
  <2> QED
    BY <2>1, <2>2
<1>11. TurnWrites(b.queue_, t.buf.queue_, t.bytes, n)
  BY <1>7, <1>9, <1>10 DEF TurnWrites, w
<1> QED
  BY <1>7, <1>11 DEF t

\* Where the frame of the i-th message ends in what get_data has returned.
EndAt(k, i) == 2 * i + TotalAt(k, i)

Rising(k) == \A i, j \in 0 .. Len(k) : i <= j => TotalAt(k, i) <= TotalAt(k, j)

\* How much of the frame of the first message is out.
Begun(q) == IF q = <<>> THEN 0 ELSE IF q[1].offset_ = 0 THEN 0 ELSE 2 + q[1].offset_

HeadersOut(o, k) ==
  \A i \in 1 .. Len(k) :
    EndAt(k, i - 1) + 2 <= Len(o) =>
      /\ o[EndAt(k, i - 1) + 1] = HeaderOf(k[i].size)[1]
      /\ o[EndAt(k, i - 1) + 2] = HeaderOf(k[i].size)[2]

BodiesOut(o, k, p, W) ==
  \A i \in 1 .. p :
    k[i].whole => \A j \in 1 .. k[i].size : o[EndAt(k, i - 1) + 2 + j] = W[i][j]

\* get_data has returned o: the frames of the first p messages of k and a part
\* of the one that is now first in q.
OutOK(o, k, q, p, W) ==
  /\ Len(o) = EndAt(k, p) + Begun(q)
  /\ \A i \in 2 .. Len(q) : q[i].offset_ = 0
  /\ Begun(q) > 0 => ~k[p + 1].whole
  /\ HeadersOut(o, k)
  /\ BodiesOut(o, k, p, W)

LEMMA Ends ==
  ASSUME NEW k \in Seq(Entry), Totals(k), Rising(k)
  PROVE  /\ Len(k) \in Nat
         /\ \A i \in 0 .. Len(k) : EndAt(k, i) \in Nat
         /\ \A i, j \in 0 .. Len(k) : i <= j => EndAt(k, i) <= EndAt(k, j)
         /\ \A i \in 1 .. Len(k) : /\ EndAt(k, i) = EndAt(k, i - 1) + 2 + k[i].size
                                   /\ k[i].size \in Nat
<1>1. Len(k) \in Nat /\ \A i \in 1 .. Len(k) : k[i].upto \in Nat /\ k[i].size \in Nat
  <2>1. \A i \in 1 .. Len(k) : k[i] \in Entry
    BY ElementOfSeq
  <2> QED
    BY <2>1, LenProperties DEF Entry
<1>2. \A i \in 0 .. Len(k) : TotalAt(k, i) \in Nat
  BY <1>1 DEF TotalAt
<1>3. \A i \in 0 .. Len(k) : EndAt(k, i) \in Nat
  BY <1>2 DEF EndAt
<1>4. ASSUME NEW i \in 0 .. Len(k), NEW j \in 0 .. Len(k), i <= j
      PROVE  EndAt(k, i) <= EndAt(k, j)
  <2>1. TotalAt(k, i) <= TotalAt(k, j) /\ TotalAt(k, i) \in Nat /\ TotalAt(k, j) \in Nat
    BY <1>2, <1>4 DEF Rising
  <2> QED
    BY <1>4, <2>1 DEF EndAt
<1>5. ASSUME NEW i \in 1 .. Len(k)
      PROVE  EndAt(k, i) = EndAt(k, i - 1) + 2 + k[i].size
  <2>1. TotalAt(k, i) = TotalAt(k, i - 1) + k[i].size
    BY <1>1 DEF Totals, TotalAt
  <2>2. i - 1 \in 0 .. Len(k)
    BY <1>1
  <2>3. TotalAt(k, i - 1) \in Nat /\ k[i].size \in Nat
    BY <1>1, <1>2, <2>2
  <2>4. \A t, s \in Nat : 2 * i + (t + s) = 2 * (i - 1) + t + 2 + s
    OBVIOUS
  <2> QED
    BY <2>1, <2>3, <2>4 DEF EndAt
<1> QED
  BY <1>1, <1>3, <1>4, <1>5

\* The first message begins where what is out ends, or a part of it is out.
LEMMA OutUntil ==
  ASSUME NEW k \in Seq(Entry), NEW q \in Seq(Message), NEW p \in Nat, NEW w \in Nat,
         Totals(k), Rising(k), Fifo(k, q, p, w), NEW o, NEW W, OutOK(o, k, q, p, W),
         q # <<>> => MessageOK(q[1])
  PROVE  /\ Len(o) <= EndAt(k, Len(k)) /\ Len(o) \in Nat
         /\ p \in 0 .. Len(k) /\ EndAt(k, p) \in Nat /\ EndAt(k, p) <= Len(o)
         /\ q # <<>> => /\ p + 1 \in 1 .. Len(k)
                        /\ EndAt(k, p + 1) = EndAt(k, p) + 2 + q[1].size_
                        /\ q[1].size_ = k[p + 1].size
                        /\ q[1].size_ \in Nat /\ q[1].offset_ \in Nat
                        /\ q[1].offset_ <= q[1].size_
                        /\ Len(o) = EndAt(k, p) + Begun(q)
<1>1. Len(k) \in Nat /\ Len(q) \in Nat /\ Len(k) = p + Len(q)
  BY LenProperties DEF Fifo
<1>2. p \in 0 .. Len(k) /\ EndAt(k, p) \in Nat /\ EndAt(k, Len(k)) \in Nat
  BY <1>1, Ends
<1>3. CASE q = <<>>
  <2>1. Len(k) = p /\ Len(o) = EndAt(k, p)
    BY <1>1, <1>2, <1>3 DEF OutOK, Begun
  <2> QED
    BY <1>2, <1>3, <2>1
<1>4. CASE q # <<>>
  <2>1. Len(q) >= 1 /\ 1 \in 1 .. Len(q) /\ q[1] \in Message
    BY <1>1, <1>4, NonEmpty
  <2>2. p + 1 \in 1 .. Len(k) /\ (p + 1) - 1 = p
    BY <1>1, <2>1
  <2>3. q[1].size_ = k[p + 1].size /\ q[1].size_ \in Nat /\ q[1].offset_ \in Nat
        /\ q[1].offset_ <= q[1].size_
    BY <1>4, <2>1 DEF Fifo, Message, MessageOK
  <2>4. EndAt(k, p + 1) = EndAt(k, p) + 2 + q[1].size_
    <3> DEFINE i == p + 1
    <3>1. i \in 1 .. Len(k) /\ i - 1 = p
      BY <2>2
    <3> HIDE DEF i
    <3>2. EndAt(k, i) = EndAt(k, i - 1) + 2 + k[i].size
      BY <3>1, Ends
    <3>3. EndAt(k, i) = EndAt(k, p) + 2 + k[i].size
      BY <3>1, <3>2
    <3> QED
      BY <2>3, <3>3 DEF i
  <2>5. EndAt(k, p + 1) <= EndAt(k, Len(k))
    <3>1. p + 1 \in 0 .. Len(k) /\ Len(k) \in 0 .. Len(k) /\ p + 1 <= Len(k)
      BY <1>1, <2>2
    <3> QED
      BY <3>1, Ends
  <2>6. Begun(q) \in Nat /\ Begun(q) <= 2 + q[1].size_
    <3> DEFINE x == q[1].offset_
               z == q[1].size_
    <3>1. x \in Nat /\ z \in Nat /\ x <= z
      BY <2>3
    <3>2. Begun(q) = IF x = 0 THEN 0 ELSE 2 + x
      BY <1>4 DEF Begun
    <3> HIDE DEF x, z
    <3>3. Begun(q) \in Nat /\ Begun(q) <= 2 + z
      BY <3>1, <3>2
    <3> QED
      BY <3>3 DEF z
  <2>7. Len(o) = EndAt(k, p) + Begun(q)
    BY DEF OutOK
  <2>8. Len(o) \in Nat /\ EndAt(k, p) <= Len(o) /\ Len(o) <= EndAt(k, p + 1)
    <3>1. q[1].size_ \in Nat /\ EndAt(k, p) \in Nat /\ Begun(q) \in Nat
      BY <1>2, <2>3, <2>6
    <3> DEFINE x == EndAt(k, p)
               y == Begun(q)
               z == q[1].size_
    <3>2. x \in Nat /\ y \in Nat /\ z \in Nat /\ y <= 2 + z
      BY <2>6, <3>1
    <3>3. Len(o) = x + y /\ EndAt(k, p + 1) = x + 2 + z
      BY <2>4, <2>7
    <3> HIDE DEF x, y, z
    <3>4. x + y \in Nat /\ x <= x + y /\ x + y <= x + 2 + z
      BY <3>2
    <3>5. Len(o) \in Nat /\ x <= Len(o) /\ Len(o) <= EndAt(k, p + 1)
      BY <3>3, <3>4
    <3> QED
      BY <3>5 DEF x
  <2>9. EndAt(k, p + 1) \in Nat
    BY <1>2, <2>3, <2>4
  <2>10. Len(o) <= EndAt(k, Len(k))
    BY <1>2, <2>5, <2>8, <2>9
  <2> QED
    BY <1>2, <2>2, <2>3, <2>4, <2>7, <2>8, <2>10
<1> QED
  BY <1>3, <1>4

LEMMA OutQueued ==
  ASSUME NEW k \in Seq(Entry), NEW q \in Seq(Message), NEW p \in Nat, NEW w \in Nat,
         Totals(k), Rising(k), Fifo(k, q, p, w), NEW o, NEW W \in Seq(Seq(Byte)),
         OutOK(o, k, q, p, W), q # <<>> => MessageOK(q[1]), p <= Len(W),
         NEW e \in Entry, e.upto = TotalAt(k, Len(k)) + e.size,
         NEW m \in Message, m.offset_ = 0, NEW x \in Seq(Byte)
  PROVE  /\ Rising(Append(k, e))
         /\ OutOK(o, Append(k, e), Append(q, m), p, Append(W, x))
<1> DEFINE k2 == Append(k, e)
           q2 == Append(q, m)
           W2 == Append(W, x)
<1>1. /\ Len(k2) = Len(k) + 1 /\ k2[Len(k) + 1] = e /\ Len(k) \in Nat
      /\ \A i \in 1 .. Len(k) : k2[i] = k[i]
  BY AppendProperties, LenProperties
<1>2. /\ q2[Len(q) + 1] = m /\ Len(q2) = Len(q) + 1 /\ Len(q) \in Nat
      /\ \A i \in 1 .. Len(q) : q2[i] = q[i]
  BY AppendProperties, LenProperties
<1>3. Len(W) \in Nat /\ \A i \in 1 .. Len(W) : W2[i] = W[i]
  BY AppendProperties, LenProperties
<1>4. e.size \in Nat /\ e.upto \in Nat /\ \A i \in 1 .. Len(k) : k[i].upto \in Nat
  <2>1. \A i \in 1 .. Len(k) : k[i] \in Entry
    BY ElementOfSeq
  <2> QED
    BY <2>1 DEF Entry
<1>5. Len(k) = p + Len(q) /\ p \in 0 .. Len(k)
  BY <1>1, <1>2 DEF Fifo
<1> HIDE DEF k2, q2, W2
<1>6. \A i \in 0 .. Len(k) : TotalAt(k2, i) = TotalAt(k, i) /\ TotalAt(k, i) \in Nat
  BY <1>1, <1>4 DEF TotalAt
<1>7. TotalAt(k2, Len(k) + 1) = e.upto
  BY <1>1 DEF TotalAt
<1>8. Rising(k2)
  <2> SUFFICES ASSUME NEW i \in 0 .. Len(k) + 1, NEW j \in 0 .. Len(k) + 1, i <= j
               PROVE  TotalAt(k2, i) <= TotalAt(k2, j)
    BY <1>1 DEF Rising
  <2>1. CASE j \in 0 .. Len(k)
    <3>1. i \in 0 .. Len(k)
      BY <1>1, <2>1
    <3> QED
      BY <1>6, <2>1, <3>1 DEF Rising
  <2>2. CASE i \in 0 .. Len(k) /\ j = Len(k) + 1
    <3>1. TotalAt(k, i) <= TotalAt(k, Len(k))
      BY <1>1, <2>2 DEF Totals
    <3>2. TotalAt(k, Len(k)) \in Nat /\ TotalAt(k, i) \in Nat
      BY <1>1, <1>6, <2>2
    <3> QED
      BY <1>4, <1>6, <1>7, <2>2, <3>1, <3>2
  <2>3. CASE i = Len(k) + 1 /\ j = Len(k) + 1
    BY <1>4, <1>7, <2>3
  <2> QED
    BY <1>1, <2>1, <2>2, <2>3
<1>9. \A i \in 0 .. Len(k) : EndAt(k2, i) = EndAt(k, i)
  BY <1>6 DEF EndAt
<1>10. /\ Len(o) <= EndAt(k, Len(k)) /\ Len(o) \in Nat /\ EndAt(k, Len(k)) \in Nat
       /\ \A i \in 0 .. Len(k) : EndAt(k, i) \in Nat
  <2>1. Len(k) \in 0 .. Len(k)
    BY <1>1
  <2> QED
    BY <2>1, OutUntil, Ends
<1>11. HeadersOut(o, k2)
  <2> SUFFICES ASSUME NEW i \in 1 .. Len(k) + 1, EndAt(k2, i - 1) + 2 <= Len(o)
               PROVE  /\ o[EndAt(k2, i - 1) + 1] = HeaderOf(k2[i].size)[1]
                      /\ o[EndAt(k2, i - 1) + 2] = HeaderOf(k2[i].size)[2]
    BY <1>1 DEF HeadersOut
  <2>1. i - 1 \in 0 .. Len(k)
    BY <1>1
  <2>2. EndAt(k2, i - 1) = EndAt(k, i - 1)
    BY <1>9, <2>1
  <2>3. i # Len(k) + 1
    <3> SUFFICES ASSUME i = Len(k) + 1 PROVE FALSE
      OBVIOUS
    <3>1. i - 1 = Len(k)
      BY <1>1
    <3>2. EndAt(k, Len(k)) + 2 <= Len(o)
      BY <2>2, <3>1
    <3> QED
      BY <1>10, <3>2
  <2>4. i \in 1 .. Len(k)
    BY <1>1, <2>3
  <2> QED
    BY <1>1, <2>2, <2>4 DEF OutOK, HeadersOut
<1>12. BodiesOut(o, k2, p, W2)
  <2> SUFFICES ASSUME NEW i \in 1 .. p, k2[i].whole, NEW j \in 1 .. k2[i].size
               PROVE  o[EndAt(k2, i - 1) + 2 + j] = W2[i][j]
    BY Zenon DEF BodiesOut
  <2>1. i \in 1 .. Len(k) /\ i \in 1 .. Len(W) /\ i - 1 \in 0 .. Len(k)
    <3>1. Len(k) \in Nat /\ Len(W) \in Nat /\ p <= Len(k)
      BY <1>1, <1>3, <1>5
    <3>2. \A a, c \in Nat : p <= a /\ p <= c =>
            i \in 1 .. a /\ i \in 1 .. c /\ i - 1 \in 0 .. a
      OBVIOUS
    <3> QED
      BY <3>1, <3>2
  <2>2. k2[i] = k[i] /\ W2[i] = W[i] /\ EndAt(k2, i - 1) = EndAt(k, i - 1)
    BY <1>1, <1>3, <1>9, <2>1
  <2>3. k[i].whole /\ j \in 1 .. k[i].size
    BY <2>2
  <2>4. o[EndAt(k, i - 1) + 2 + j] = W[i][j]
    BY <2>3, Zenon DEF OutOK, BodiesOut
  <2> QED
    BY <2>2, <2>4, Zenon
<1>13. Begun(q2) = Begun(q)
  <2>1. q2 # <<>>
    BY <1>2, EmptySeq
  <2>2. CASE q = <<>>
    <3>1. Len(q) = 0
      BY <2>2, EmptySeq
    <3> QED
      BY <1>2, <2>1, <2>2, <3>1 DEF Begun
  <2>3. CASE q # <<>>
    <3>1. 1 \in 1 .. Len(q)
      BY <2>3, NonEmpty
    <3> QED
      BY <1>2, <2>1, <2>3, <3>1 DEF Begun
  <2> QED
    BY <2>2, <2>3
<1>14. \A i \in 2 .. Len(q2) : q2[i].offset_ = 0
  <2> SUFFICES ASSUME NEW i \in 2 .. Len(q) + 1 PROVE q2[i].offset_ = 0
    BY <1>2
  <2>1. CASE i = Len(q) + 1
    BY <1>2, <2>1
  <2>2. CASE i \in 2 .. Len(q)
    <3>1. i \in 1 .. Len(q)
      BY <2>2
    <3> QED
      BY <1>2, <2>2, <3>1 DEF OutOK
  <2> QED
    BY <1>2, <2>1, <2>2
<1>15. Begun(q2) > 0 => ~k2[p + 1].whole
  <2> HAVE Begun(q2) > 0
  <2>1. q # <<>>
    BY <1>13 DEF Begun
  <2>2. p + 1 \in 1 .. Len(k)
    BY <2>1, OutUntil
  <2> QED
    BY <1>1, <1>13, <2>2 DEF OutOK
<1>16. OutOK(o, k2, q2, p, W2)
  BY <1>5, <1>9, <1>11, <1>12, <1>13, <1>14, <1>15 DEF OutOK
<1> QED
  BY <1>8, <1>16 DEF k2, q2, W2

\* If the front message is now out and was put out whole, its bytes are there.
FrontOut(o, k, q, p, W, n) ==
  (q[1].offset_ + n = q[1].size_ /\ k[p + 1].whole) =>
    \A j \in 1 .. q[1].size_ : o[EndAt(k, p) + 2 + j] = W[p + 1][j]

\* What is out stays, and the next bytes continue the frame that was begun, or
\* begin the next one.
LEMMA TurnOut ==
  ASSUME NEW k \in Seq(Entry), NEW q \in Seq(Message), NEW p \in Nat, NEW w \in Nat,
         Totals(k), Rising(k), Fifo(k, q, p, w), NEW o \in Seq(Cell), NEW W,
         OutOK(o, k, q, p, W), q # <<>>, MessageOK(q[1]),
         NEW q2, NEW bytes, NEW n, TurnWrites(q, q2, bytes, n),
         k[p + 1].whole => q[1].body = W[p + 1]
  PROVE  LET o2 == o \o bytes
         IN  /\ o2 \in Seq(Cell)
             /\ Len(o2) = EndAt(k, p) + 2 + (q[1].offset_ + n)
             /\ HeadersOut(o2, k)
             /\ BodiesOut(o2, k, p, W)
             /\ FrontOut(o2, k, q, p, W, n)
<1> DEFINE o2   == o \o bytes
           at   == EndAt(k, p)
           off  == q[1].offset_
           size == q[1].size_
<1>1. /\ at \in Nat /\ Len(o) \in Nat /\ at <= Len(o) /\ p \in 0 .. Len(k)
      /\ p + 1 \in 1 .. Len(k) /\ EndAt(k, p + 1) = at + 2 + size
      /\ size = k[p + 1].size /\ size \in Nat /\ off \in Nat /\ off <= size
      /\ Len(o) = at + Begun(q)
  BY OutUntil
<1>2. /\ n \in Nat /\ bytes \in Seq(Cell) /\ off + n <= size
      /\ Len(bytes) = n + (IF off = 0 THEN 2 ELSE 0)
      /\ off = 0 => /\ bytes[1] = HeaderOf(size)[1] /\ bytes[2] = HeaderOf(size)[2]
                    /\ \A j \in 1 .. n : bytes[2 + j] = q[1].body[j]
  <2>1. /\ n \in Nat /\ bytes \in Seq(Cell)
        /\ Len(bytes) = n + (IF off = 0 THEN 2 ELSE 0)
        /\ off = 0 => /\ bytes[1] = HeaderOf(size)[1] /\ bytes[2] = HeaderOf(size)[2]
                      /\ \A j \in 1 .. n : bytes[2 + j] = q[1].body[j]
        /\ off + n <= size
    <3>1. n \in Nat /\ bytes \in Seq(Cell) /\ Len(bytes) = n + (IF off = 0 THEN 2 ELSE 0)
      BY DEF TurnWrites
    <3>2. off = 0 => /\ bytes[1] = HeaderOf(size)[1] /\ bytes[2] = HeaderOf(size)[2]
                     /\ \A j \in 1 .. n : bytes[2 + j] = q[1].body[j]
      BY DEF TurnWrites
    <3>3. off + n = size \/ off + n < size
      BY DEF TurnWrites
    <3>4. off + n <= size
      <4>1. \A x, y, z \in Nat : x + y = z \/ x + y < z => x + y <= z
        OBVIOUS
      <4>2. off \in Nat /\ n \in Nat /\ size \in Nat
        BY <1>1, <3>1
      <4> HIDE DEF off, size
      <4> QED
        BY <3>3, <4>1, <4>2
    <3> QED
      BY <3>1, <3>2, <3>4
  <2> QED
    BY <2>1
<1>3. /\ o2 \in Seq(Cell) /\ Len(o2) = Len(o) + Len(bytes)
      /\ \A i \in 1 .. Len(o) : o2[i] = o[i]
      /\ \A i \in 1 .. Len(bytes) : o2[Len(o) + i] = bytes[i]
  <2>1. /\ o2 \in Seq(Cell) /\ Len(o2) = Len(o) + Len(bytes) /\ Len(bytes) \in Nat
        /\ \A i \in 1 .. Len(o) + Len(bytes) :
             o2[i] = IF i <= Len(o) THEN o[i] ELSE bytes[i - Len(o)]
    BY <1>2, ConcatProperties, LenProperties
  <2> HIDE DEF o2
  <2>2. \A i \in 1 .. Len(o) : o2[i] = o[i]
    BY <1>1, <2>1
  <2>3. ASSUME NEW i \in 1 .. Len(bytes) PROVE o2[Len(o) + i] = bytes[i]
    <3>a. \A x, y \in Nat : \A j \in 1 .. y :
            x + j \in 1 .. x + y /\ ~(x + j <= x) /\ (x + j) - x = j
      OBVIOUS
    <3>b. Len(o) \in Nat /\ Len(bytes) \in Nat
      BY <2>1, LenProperties
    <3>1. /\ Len(o) + i \in 1 .. Len(o) + Len(bytes) /\ ~(Len(o) + i <= Len(o))
          /\ (Len(o) + i) - Len(o) = i
      BY <3>a, <3>b
    <3> QED
      BY <2>1, <3>1
  <2> QED
    BY <2>1, <2>2, <2>3
<1>4. Begun(q) = IF off = 0 THEN 0 ELSE 2 + off
  BY DEF Begun
<1> HIDE DEF o2, at, off, size
<1>5. Len(o2) = at + 2 + (off + n)
  <2>1. CASE off = 0
    <3>1. Len(o) = at /\ Len(bytes) = n + 2
      BY <1>1, <1>2, <1>4, <2>1
    <3>2. at + (n + 2) = at + 2 + (0 + n)
      BY <1>1, <1>2
    <3> QED
      BY <1>3, <2>1, <3>1, <3>2
  <2>2. CASE off # 0
    <3>1. Len(o) = at + (2 + off) /\ Len(bytes) = n
      BY <1>1, <1>2, <1>4, <2>2
    <3>2. at + (2 + off) + n = at + 2 + (off + n)
      BY <1>1, <1>2
    <3> QED
      BY <1>3, <3>1, <3>2
  <2> QED
    BY <2>1, <2>2
<1>6. Len(o2) <= EndAt(k, p + 1) /\ Len(o2) \in Nat
  <2>1. \A a, b, c, d \in Nat : b + c <= d => a + 2 + (b + c) <= a + 2 + d /\ a + 2 + (b + c) \in Nat
    OBVIOUS
  <2>2. at \in Nat /\ off \in Nat /\ n \in Nat /\ size \in Nat /\ off + n <= size
    BY <1>1, <1>2
  <2>3. EndAt(k, p + 1) = at + 2 + size
    BY <1>1
  <2> QED
    BY ONLY <1>5, <2>1, <2>2, <2>3
<1>7. HeadersOut(o2, k)
  <2> SUFFICES ASSUME NEW i \in 1 .. Len(k), EndAt(k, i - 1) + 2 <= Len(o2)
               PROVE  /\ o2[EndAt(k, i - 1) + 1] = HeaderOf(k[i].size)[1]
                      /\ o2[EndAt(k, i - 1) + 2] = HeaderOf(k[i].size)[2]
    BY DEF HeadersOut
  <2> DEFINE x == EndAt(k, i - 1)
  <2>1. x \in Nat /\ Len(k) \in Nat /\ i - 1 \in 0 .. Len(k)
    <3>1. Len(k) \in Nat
      BY LenProperties
    <3>2. i - 1 \in 0 .. Len(k)
      BY <3>1
    <3> QED
      BY <3>1, <3>2, Ends
  <2>2. CASE x + 2 <= Len(o)
    <3>1. o[x + 1] = HeaderOf(k[i].size)[1] /\ o[x + 2] = HeaderOf(k[i].size)[2]
      BY <2>2 DEF OutOK, HeadersOut
    <3> HIDE DEF x
    <3>2. x + 1 \in 1 .. Len(o) /\ x + 2 \in 1 .. Len(o)
      <4>1. x \in Nat /\ Len(o) \in Nat
        BY <1>1, <2>1
      <4> QED
        BY ONLY <2>2, <4>1
    <3>3. o2[x + 1] = HeaderOf(k[i].size)[1] /\ o2[x + 2] = HeaderOf(k[i].size)[2]
      BY <1>3, <3>1, <3>2
    <3> QED
      BY <3>3 DEF x
  <2>3. CASE ~(x + 2 <= Len(o))
    <3>1. i <= p + 1
      <4> SUFFICES ASSUME p + 1 < i PROVE FALSE
        BY <1>1, <2>1
      <4>1. p + 1 \in 0 .. Len(k) /\ p + 1 <= i - 1
        BY <1>1, <2>1
      <4>2. EndAt(k, p + 1) <= x
        BY <2>1, <4>1, Ends
      <4>3. EndAt(k, p + 1) \in Nat
        BY <4>1, Ends
      <4>4. x + 2 <= Len(o2)
        OBVIOUS
      <4> HIDE DEF x
      <4> QED
        BY <1>6, <2>1, <4>2, <4>3, <4>4
    <3>2. i = p + 1
      <4> SUFFICES ASSUME i <= p PROVE FALSE
        BY <1>1, <2>1, <3>1
      <4>1. i \in 0 .. Len(k) /\ EndAt(k, i) = x + 2 + k[i].size /\ k[i].size \in Nat
        BY <2>1, Ends
      <4>2. EndAt(k, i) <= at
        BY <1>1, <4>1, Ends DEF at
      <4> DEFINE y == EndAt(k, i)
                 s == k[i].size
                 l == Len(o)
      <4>3. x \in Nat /\ s \in Nat /\ l \in Nat /\ at \in Nat
        BY <1>1, <2>1, <4>1
      <4>4. y = x + 2 + s /\ y <= at /\ at <= l /\ ~(x + 2 <= l)
        BY <1>1, <2>3, <4>1, <4>2
      <4> HIDE DEF x, y, s, l
      <4> QED
        BY ONLY <4>3, <4>4
    <3>3. x = at
      <4>1. i - 1 = p
        BY <1>1, <3>2
      <4> QED
        BY <4>1 DEF at
    <3>4. off = 0
      <4> SUFFICES ASSUME off # 0 PROVE FALSE
        OBVIOUS
      <4>1. Len(o) = at + (2 + off)
        BY <1>1, <1>4
      <4> HIDE DEF x
      <4> QED
        BY <1>1, <2>3, <3>3, <4>1
    <3>5. Len(o) = at /\ Len(bytes) = n + 2
      BY <1>1, <1>2, <1>4, <3>4
    <3>6. 1 \in 1 .. Len(bytes) /\ 2 \in 1 .. Len(bytes)
      BY <1>2, <3>5
    <3>7. o2[at + 1] = HeaderOf(size)[1] /\ o2[at + 2] = HeaderOf(size)[2]
      BY <1>2, <1>3, <3>4, <3>5, <3>6
    <3> HIDE DEF x
    <3>8. o2[x + 1] = HeaderOf(k[i].size)[1] /\ o2[x + 2] = HeaderOf(k[i].size)[2]
      BY <1>1, <3>2, <3>3, <3>7
    <3> QED
      BY <3>8 DEF x
  <2> QED
    BY <2>2, <2>3
<1>8. BodiesOut(o2, k, p, W)
  <2> SUFFICES ASSUME NEW i \in 1 .. p, k[i].whole, NEW j \in 1 .. k[i].size
               PROVE  o2[EndAt(k, i - 1) + 2 + j] = W[i][j]
    BY Zenon DEF BodiesOut
  <2> DEFINE x == EndAt(k, i - 1)
  <2>1. i \in 1 .. Len(k) /\ i \in 0 .. Len(k) /\ i - 1 \in 0 .. Len(k) /\ i <= p
    <3> DEFINE l == Len(k)
    <3>1. l \in Nat
      BY LenProperties
    <3>2. p \in 0 .. l /\ i \in 1 .. p
      BY <1>1
    <3> HIDE DEF l
    <3>3. i \in 1 .. l /\ i \in 0 .. l /\ i - 1 \in 0 .. l /\ i <= p
      BY ONLY <3>1, <3>2
    <3> QED
      BY ONLY <3>3 DEF l
  <2>2. EndAt(k, i) = x + 2 + k[i].size /\ k[i].size \in Nat /\ x \in Nat
    BY <2>1, Ends
  <2>3. EndAt(k, i) <= at
    BY <1>1, <2>1, Ends DEF at
  <2>4. o[x + 2 + j] = W[i][j]
    BY Zenon DEF OutOK, BodiesOut
  <2> HIDE DEF x
  <2>5. x + 2 + j \in 1 .. Len(o)
    <3> DEFINE s == k[i].size
               l == Len(o)
    <3>1. x \in Nat /\ s \in Nat /\ at \in Nat /\ l \in Nat /\ j \in Nat
      BY <1>1, <2>2
    <3>2. x + 2 + s <= at /\ at <= l /\ 1 <= j /\ j <= s
      BY <1>1, <2>2, <2>3
    <3> HIDE DEF s, l
    <3>3. x + 2 + j \in 1 .. l
      BY ONLY <3>1, <3>2
    <3> QED
      BY ONLY <3>3 DEF l
  <2>6. o2[x + 2 + j] = W[i][j]
    BY <1>3, <2>4, <2>5
  <2> QED
    BY <2>6 DEF x
<1>9. off + n = size /\ k[p + 1].whole => \A j \in 1 .. size : o2[at + 2 + j] = W[p + 1][j]
  <2> SUFFICES ASSUME off + n = size, k[p + 1].whole, NEW j \in 1 .. size
               PROVE  o2[at + 2 + j] = W[p + 1][j]
    OBVIOUS
  <2>1. Begun(q) = 0
    <3>1. ~(Begun(q) > 0)
      BY Zenon DEF OutOK
    <3> QED
      BY <1>1, <1>4, <3>1
  <2>2. off = 0
    BY <1>1, <1>4, <2>1
  <2>3. Len(o) = at /\ Len(bytes) = n + 2 /\ n = size
    BY <1>1, <1>2, <2>1, <2>2
  <2>4. j \in 1 .. n /\ 2 + j \in 1 .. Len(bytes) /\ at + (2 + j) = at + 2 + j
    <3>1. n \in Nat /\ at \in Nat /\ n = size
      BY <1>1, <1>2, <2>3
    <3>2. j \in 1 .. n
      BY <3>1
    <3>3. 2 + j \in 1 .. n + 2 /\ at + (2 + j) = at + 2 + j
      BY <3>1, <3>2
    <3> QED
      BY <2>3, <3>2, <3>3
  <2>5. bytes[2 + j] = q[1].body[j] /\ q[1].body = W[p + 1]
    BY <1>2, <2>2, <2>4
  <2>6. o2[at + (2 + j)] = bytes[2 + j]
    BY <1>3, <2>3, <2>4
  <2> QED
    BY <2>4, <2>5, <2>6
<1>10. FrontOut(o2, k, q, p, W, n)
  BY <1>9, Zenon DEF FrontOut, at, off, size
<1> QED
  BY <1>3, <1>5, <1>7, <1>8, <1>10 DEF o2, at, off, size

LEMMA OutTaken ==
  ASSUME NEW k \in Seq(Entry), NEW q \in Seq(Message), NEW p \in Nat, NEW w \in Nat,
         Totals(k), Rising(k), Fifo(k, q, p, w), NEW o \in Seq(Cell), NEW W,
         OutOK(o, k, q, p, W), q # <<>>, MessageOK(q[1]),
         NEW bytes, NEW n, TurnWrites(q, Tail(q), bytes, n),
         q[1].offset_ + n = q[1].size_,
         k[p + 1].whole => q[1].body = W[p + 1]
  PROVE  OutOK(o \o bytes, k, Tail(q), p + 1, W)
<1> DEFINE o2 == o \o bytes
           q2 == Tail(q)
<1>1. /\ EndAt(k, p) \in Nat /\ EndAt(k, p + 1) = EndAt(k, p) + 2 + q[1].size_
      /\ q[1].size_ = k[p + 1].size
  BY OutUntil
<1>2. /\ o2 \in Seq(Cell) /\ Len(o2) = EndAt(k, p + 1)
      /\ HeadersOut(o2, k) /\ BodiesOut(o2, k, p, W)
      /\ k[p + 1].whole => \A j \in 1 .. q[1].size_ : o2[EndAt(k, p) + 2 + j] = W[p + 1][j]
  <2>1. /\ o2 \in Seq(Cell) /\ Len(o2) = EndAt(k, p) + 2 + (q[1].offset_ + n)
        /\ HeadersOut(o2, k) /\ BodiesOut(o2, k, p, W)
        /\ FrontOut(o2, k, q, p, W, n)
    BY TurnOut
  <2>3. k[p + 1].whole => \A j \in 1 .. q[1].size_ : o2[EndAt(k, p) + 2 + j] = W[p + 1][j]
    BY <2>1, Zenon DEF FrontOut
  <2> HIDE DEF o2
  <2>2. Len(o2) = EndAt(k, p + 1)
    BY <1>1, <2>1
  <2> QED
    BY <2>1, <2>2, <2>3, Zenon
<1>3. /\ Len(q) \in Nat /\ q2 \in Seq(Message) /\ Len(q2) = Len(q) - 1
      /\ \A i \in 1 .. Len(q2) : q2[i] = q[i + 1]
  BY NonEmpty
<1> HIDE DEF o2, q2
<1>4. \A i \in 1 .. Len(q2) : q2[i].offset_ = 0
  <2> SUFFICES ASSUME NEW i \in 1 .. Len(q2) PROVE q2[i].offset_ = 0
    OBVIOUS
  <2>1. i + 1 \in 2 .. Len(q)
    BY <1>3
  <2> QED
    BY <1>3, <2>1 DEF OutOK
<1>5. Begun(q2) = 0
  <2>1. CASE q2 = <<>>
    BY <2>1 DEF Begun
  <2>2. CASE q2 # <<>>
    <3>1. 1 \in 1 .. Len(q2)
      BY <1>3, <2>2, NonEmpty
    <3> QED
      BY <1>4, <3>1 DEF Begun
  <2> QED
    BY <2>1, <2>2
<1>6. \A i \in 2 .. Len(q2) : q2[i].offset_ = 0
  <2> SUFFICES ASSUME NEW i \in 2 .. Len(q2) PROVE q2[i].offset_ = 0
    OBVIOUS
  <2>1. i \in 1 .. Len(q2)
    OBVIOUS
  <2> QED
    BY <1>4, <2>1
<1>7. BodiesOut(o2, k, p + 1, W)
  <2> SUFFICES ASSUME NEW i \in 1 .. p + 1, k[i].whole, NEW j \in 1 .. k[i].size
               PROVE  o2[EndAt(k, i - 1) + 2 + j] = W[i][j]
    BY Zenon DEF BodiesOut
  <2>1. CASE i \in 1 .. p
    BY <1>2, <2>1, Zenon DEF BodiesOut
  <2>2. CASE i = p + 1
    <3>1. i - 1 = p /\ k[p + 1].whole /\ j \in 1 .. q[1].size_
      BY <1>1, <2>2
    <3>2. o2[EndAt(k, p) + 2 + j] = W[p + 1][j]
      BY <1>2, <3>1, Zenon
    <3> QED
      BY <2>2, <3>1, <3>2
  <2> QED
    BY <2>1, <2>2
<1>8. Len(o2) = EndAt(k, p + 1) + Begun(q2)
  <2>1. EndAt(k, p + 1) \in Nat
    BY <1>2, LenProperties
  <2> QED
    BY <1>2, <1>5, <2>1
<1>9. ~(Begun(q2) > 0)
  BY <1>5
<1>10. OutOK(o2, k, q2, p + 1, W)
  BY <1>2, <1>6, <1>7, <1>8, <1>9, Zenon DEF OutOK
<1> QED
  BY <1>10 DEF o2, q2

\* k2 is k, but the message after p is not in one piece.
Torn(k, k2, p) ==
  /\ k2 \in Seq(Entry) /\ SameEntries(k, k2) /\ ~k2[p + 1].whole
  /\ \A i \in 1 .. Len(k) : /\ k2[i].frame = k[i].frame
                            /\ i # p + 1 => k2[i] = k[i]

LEMMA OutPartly ==
  ASSUME NEW k \in Seq(Entry), NEW q \in Seq(Message), NEW p \in Nat, NEW w \in Nat,
         Totals(k), Rising(k), Fifo(k, q, p, w), NEW o \in Seq(Cell), NEW W,
         OutOK(o, k, q, p, W), q # <<>>, MessageOK(q[1]),
         NEW q2 \in Seq(Message), NEW bytes, NEW n, TurnWrites(q, q2, bytes, n),
         q[1].offset_ + n # q[1].size_,
         k[p + 1].whole => q[1].body = W[p + 1], NEW k2, Torn(k, k2, p)
  PROVE  Rising(k2) /\ OutOK(o \o bytes, k2, q2, p, W)
<1> DEFINE o2 == o \o bytes
           at == q[1].offset_ + n
<1>1. /\ EndAt(k, p) \in Nat /\ p \in 0 .. Len(k) /\ q[1].offset_ \in Nat
  BY OutUntil
<1>2. /\ Len(q2) = Len(q) /\ q2[1].offset_ = at /\ at \in Nat /\ at > 0
      /\ \A i \in 2 .. Len(q) : q2[i] = q[i]
  <2>1. /\ n \in Nat /\ n > 0 /\ Len(q2) = Len(q) /\ q2[1].offset_ = at
        /\ \A i \in 2 .. Len(q) : q2[i] = q[i]
    <3>1. q[1].offset_ \in Nat /\ q[1].size_ \in Nat
      BY OutUntil
    <3>2. \/ q[1].offset_ + n = q[1].size_ /\ q2 = Tail(q)
          \/ /\ q[1].offset_ + n < q[1].size_ /\ n > 0 /\ Len(q2) = Len(q)
             /\ q2[1].offset_ = q[1].offset_ + n
             /\ \A i \in 2 .. Len(q) : q2[i] = q[i]
      BY DEF TurnWrites
    <3>3. n \in Nat
      BY DEF TurnWrites
    <3> QED
      BY <3>2, <3>3
  <2>2. at \in Nat /\ at > 0
    BY <1>1, <2>1
  <2> QED
    BY <2>1, <2>2
<1>3. /\ o2 \in Seq(Cell) /\ Len(o2) = EndAt(k, p) + 2 + at
      /\ HeadersOut(o2, k) /\ BodiesOut(o2, k, p, W)
  <2>1. /\ o2 \in Seq(Cell) /\ Len(o2) = EndAt(k, p) + 2 + (q[1].offset_ + n)
        /\ HeadersOut(o2, k) /\ BodiesOut(o2, k, p, W)
    BY TurnOut
  <2> QED
    BY <2>1
<1>4. Len(k) \in Nat /\ Len(k2) = Len(k)
  BY LenProperties DEF Torn, SameEntries
<1>5. \A i \in 0 .. Len(k) : TotalAt(k2, i) = TotalAt(k, i)
  BY <1>4 DEF TotalAt, Torn, SameEntries
<1>6. \A i \in 0 .. Len(k) : EndAt(k2, i) = EndAt(k, i)
  BY <1>5 DEF EndAt
<1>7. Rising(k2)
  BY <1>4, <1>5 DEF Rising
<1> HIDE DEF o2, at
<1>8. HeadersOut(o2, k2)
  <2> SUFFICES ASSUME NEW i \in 1 .. Len(k), EndAt(k2, i - 1) + 2 <= Len(o2)
               PROVE  /\ o2[EndAt(k2, i - 1) + 1] = HeaderOf(k2[i].size)[1]
                      /\ o2[EndAt(k2, i - 1) + 2] = HeaderOf(k2[i].size)[2]
    BY <1>4 DEF HeadersOut
  <2>1. i - 1 \in 0 .. Len(k)
    BY <1>4
  <2>2. EndAt(k2, i - 1) = EndAt(k, i - 1) /\ k2[i].size = k[i].size
    BY <1>6, <2>1 DEF Torn, SameEntries
  <2> QED
    BY <1>3, <2>2 DEF HeadersOut
<1>9. BodiesOut(o2, k2, p, W)
  <2> SUFFICES ASSUME NEW i \in 1 .. p, k2[i].whole, NEW j \in 1 .. k2[i].size
               PROVE  o2[EndAt(k2, i - 1) + 2 + j] = W[i][j]
    BY Zenon DEF BodiesOut
  <2>1. i \in 1 .. Len(k) /\ i - 1 \in 0 .. Len(k) /\ i # p + 1
    BY <1>1, <1>4
  <2>2. k2[i] = k[i] /\ EndAt(k2, i - 1) = EndAt(k, i - 1)
    BY <1>6, <2>1 DEF Torn
  <2>3. k[i].whole /\ j \in 1 .. k[i].size
    BY <2>2
  <2>4. o2[EndAt(k, i - 1) + 2 + j] = W[i][j]
    BY <1>3, <2>3, Zenon DEF BodiesOut
  <2> QED
    BY <2>2, <2>4, Zenon
<1>10. Begun(q2) = 2 + at
  <2>1. q2 # <<>>
    <3>1. Len(q) >= 1 /\ Len(q) \in Nat
      BY NonEmpty
    <3> QED
      BY <1>2, <3>1, EmptySeq
  <2> QED
    BY <1>2, <2>1 DEF Begun
<1>11. Len(o2) = EndAt(k2, p) + Begun(q2)
  <2>1. \A x, y \in Nat : x + 2 + y = x + (2 + y)
    OBVIOUS
  <2>2. EndAt(k2, p) = EndAt(k, p)
    BY <1>1, <1>6
  <2> QED
    BY <1>1, <1>2, <1>3, <1>10, <2>1, <2>2
<1>12. \A i \in 2 .. Len(q2) : q2[i].offset_ = 0
  BY <1>2 DEF OutOK
<1>13. ~k2[p + 1].whole
  BY Zenon DEF Torn
<1>14. OutOK(o2, k2, q2, p, W)
  BY <1>8, <1>9, <1>11, <1>12, <1>13, Zenon DEF OutOK
<1> QED
  BY <1>7, <1>14 DEF o2

LEMMA FramesGiven ==
  ASSUME NEW k \in Seq(Entry), NEW q \in Seq(Message), NEW p \in Nat, NEW W, NEW g,
         NEW top, FramesOK(k, W, g, q, p, "send", top), Len(k) = p + Len(q), q # <<>>
  PROVE  FramesOK(k, W, g, Tail(q), p + 1, "send", top)
<1>1. /\ Len(q) \in Nat /\ Len(Tail(q)) = Len(q) - 1 /\ Len(k) \in Nat
      /\ \A i \in 1 .. Len(Tail(q)) : Tail(q)[i] = q[i + 1]
  BY NonEmpty, LenProperties
<1>2. ASSUME NEW i \in 1 .. Len(k), i > p + 1
      PROVE  i > p /\ BodyIn(g, Tail(q), p + 1, i) = BodyIn(g, q, p, i)
  <2>1. /\ ~(i <= p + 1) /\ ~(i <= p) /\ (i - (p + 1)) + 1 = i - p
        /\ i - (p + 1) \in 1 .. Len(Tail(q))
    BY <1>1, <1>2
  <2> QED
    BY <1>1, <1>2, <2>1 DEF BodyIn
<1> QED
  BY <1>2 DEF FramesOK

LEMMA FramesTorn ==
  ASSUME NEW k \in Seq(Entry), NEW q \in Seq(Message), NEW p \in Nat, NEW W, NEW g,
         NEW top, FramesOK(k, W, g, q, p, "send", top), Len(k) = p + Len(q), q # <<>>,
         NEW k2, Torn(k, k2, p),
         NEW q2, \A i \in 2 .. Len(q) : q2[i] = q[i]
  PROVE  FramesOK(k2, W, g, q2, p, "send", top)
<1>1. Len(q) \in Nat /\ Len(q) >= 1 /\ Len(k) \in Nat /\ Len(k2) = Len(k)
  BY NonEmpty, LenProperties DEF Torn, SameEntries
<1> SUFFICES ASSUME NEW i \in 1 .. Len(k)
             PROVE  /\ k2[i].frame \in 1 .. Len(W) /\ k2[i].frame <= top
                    /\ k2[i].size = Len(W[k2[i].frame])
                    /\ i > 1 => k2[i - 1].frame < k2[i].frame
                    /\ k2[i].whole /\ i > p => BodyIn(g, q2, p, i) = W[k2[i].frame]
  BY <1>1 DEF FramesOK
<1>2. k2[i].frame = k[i].frame /\ k2[i].size = k[i].size
  BY DEF Torn, SameEntries
<1>3. i > 1 => k2[i - 1].frame = k[i - 1].frame
  <2> HAVE i > 1
  <2>1. i - 1 \in 1 .. Len(k)
    BY <1>1
  <2> QED
    BY <2>1 DEF Torn
<1>4. k2[i].whole /\ i > p => BodyIn(g, q2, p, i) = W[k2[i].frame]
  <2> SUFFICES ASSUME k2[i].whole, i > p
               PROVE  BodyIn(g, q2, p, i) = W[k2[i].frame]
    OBVIOUS
  <2>1. i # p + 1
    BY Zenon DEF Torn
  <2>2. k2[i] = k[i]
    BY <2>1 DEF Torn
  <2>3. ~(i <= p) /\ i - p \in 2 .. Len(q)
    BY <1>1, <2>1
  <2>4. BodyIn(g, q2, p, i) = BodyIn(g, q, p, i)
    BY <2>3 DEF BodyIn
  <2>5. BodyIn(g, q, p, i) = W[k[i].frame]
    BY <2>2 DEF FramesOK
  <2> QED
    BY <2>2, <2>4, <2>5
<1> QED
  BY <1>2, <1>3, <1>4 DEF FramesOK
(* Where a buffer in "receive" mode stands in what its peer has sent. *)

\* The bytes d of the running call and the bytes w on the wire are the rest of
\* the stream S.
Placed(b, d, w, S, off, W, h) ==
  \E n \in Nat : /\ Point(b, d, S, off, W, h, n)
                 /\ Window(S, n, d)
                 /\ Window(S, n + Len(d), w)
                 /\ n + Len(d) + Len(w) = Len(S)

\* All the messages W together fit in a buffer.
RoomForAll(W, off) ==
  /\ Len(W) <= MaxNumMessages
  /\ off[Len(W)] - 2 * Len(W) <= QueueSize
  /\ \A i \in 1 .. Len(W) : Len(W[i]) <= MaxMsgSize

\* No frame was refused.
AllKept(b, k, off, h, tn) ==
  /\ ~tn /\ b.toSkip_ = 0
  /\ Len(k) = Past(b, h)
  /\ TotalAt(k, Len(k)) + 2 * Past(b, h) = off[Past(b, h)]

InStream(b, d, w, S, off, W, h, k, tn) ==
  /\ IsStream(S, off, W)
  /\ ~tn => Placed(b, d, w, S, off, W, h)
  /\ RoomForAll(W, off) => AllKept(b, k, off, h, tn)

StreamOK(b, d, w, W, h, k, tn) == \E S, off : InStream(b, d, w, S, off, W, h, k, tn)

LEMMA Joined ==
  ASSUME NEW s \in Seq(Byte), NEW u \in Seq(Byte)
  PROVE  /\ s \o u \in Seq(Byte) /\ Len(s \o u) = Len(s) + Len(u)
         /\ \A i \in 1 .. Len(s) + Len(u) :
              (s \o u)[i] = IF i <= Len(s) THEN s[i] ELSE u[i - Len(s)]
  BY ConcatProperties

LEMMA DivisionIs == \A n \in Nat, r \in Nat \ {0} : (n \div r) * r + (n % r) = n
  OBVIOUS

LEMMA FrameOfOK ==
  ASSUME NEW x \in Seq(Byte), Len(x) < Radix * Radix
  PROVE  /\ FrameOf(x) \in Seq(Byte) /\ Len(FrameOf(x)) = 2 + Len(x)
         /\ FrameOf(x)[1] * Radix + FrameOf(x)[2] = Len(x)
         /\ \A j \in 1 .. Len(x) : FrameOf(x)[2 + j] = x[j]
<1>1. Len(x) \in Nat /\ Radix \in Nat \ {0}
  BY BufferAssumption
<1>2. HeaderOf(Len(x)) \in Seq(Byte) /\ Len(HeaderOf(Len(x))) = 2
  BY <1>1, HeaderOfOK
<1>3. HeaderOf(Len(x))[1] * Radix + HeaderOf(Len(x))[2] = Len(x)
  BY <1>1, DivisionIs DEF HeaderOf
<1> DEFINE head == HeaderOf(Len(x))
<1> HIDE DEF head
<1>4. head \in Seq(Byte) /\ Len(head) = 2
  BY <1>2 DEF head
<1>5. /\ head \o x \in Seq(Byte) /\ Len(head \o x) = 2 + Len(x)
      /\ (head \o x)[1] = head[1] /\ (head \o x)[2] = head[2]
      /\ \A j \in 1 .. Len(x) : (head \o x)[2 + j] = x[j]
  <2> DEFINE z == head \o x
  <2>1. /\ z \in Seq(Byte) /\ Len(z) = 2 + Len(x)
        /\ \A i \in 1 .. 2 + Len(x) : z[i] = IF i <= 2 THEN head[i] ELSE x[i - 2]
    <3>1. /\ z \in Seq(Byte) /\ Len(z) = Len(head) + Len(x)
          /\ \A i \in 1 .. Len(head) + Len(x) :
               z[i] = IF i <= Len(head) THEN head[i] ELSE x[i - Len(head)]
      BY <1>4, ConcatProperties
    <3> QED
      BY <1>1, <1>4, <3>1
  <2> HIDE DEF z
  <2>2. z[1] = head[1] /\ z[2] = head[2]
    BY <1>1, <2>1
  <2>3. \A j \in 1 .. Len(x) : z[2 + j] = x[j]
    <3> SUFFICES ASSUME NEW j \in 1 .. Len(x) PROVE z[2 + j] = x[j]
      OBVIOUS
    <3>1. /\ 2 + j \in 1 .. 2 + Len(x) /\ ~(2 + j <= 2) /\ 2 + j - 2 = j
      BY <1>1
    <3> QED
      BY <2>1, <3>1
  <2> QED
    BY <2>1, <2>2, <2>3 DEF z
<1> QED
  BY <1>3, <1>5 DEF FrameOf, head

LEMMA FrameMoves ==
  ASSUME NEW S, NEW S2, NEW m \in Nat, NEW n, NEW body \in Seq(Byte), FrameIn(S, m, n, body),
         NEW l \in Nat, n <= l, \A i \in 1 .. l : S2[i] = S[i]
  PROVE  FrameIn(S2, m, n, body)
<1>1. Len(body) \in Nat /\ m + 2 + Len(body) <= l
  BY DEF FrameIn
<1>2. /\ m + 1 \in 1 .. l /\ m + 2 \in 1 .. l
      /\ \A j \in 1 .. Len(body) : m + 2 + j \in 1 .. l
  BY <1>1
<1>3. /\ S2[m + 1] = S[m + 1] /\ S2[m + 2] = S[m + 2]
      /\ \A j \in 1 .. Len(body) : S2[m + 2 + j] = S[m + 2 + j]
  BY <1>2
<1> QED
  BY <1>3 DEF FrameIn

\* S2, off2 and W2 are S, off and W with one more frame x.
LongerBy(x, S, off, W, S2, off2, W2) ==
  /\ Len(S2) = Len(S) + 2 + Len(x)
  /\ \A i \in 1 .. Len(S) : S2[i] = S[i]
  /\ \A i \in 1 .. 2 + Len(x) : S2[Len(S) + i] = FrameOf(x)[i]
  /\ \A i \in 0 .. Len(W) : off2[i] = off[i]
  /\ Len(W2) = Len(W) + 1
  /\ \A i \in 1 .. Len(W) : W2[i] = W[i]
  /\ off2[Len(W) + 1] = Len(S) + 2 + Len(x)

\* The peer sends one more frame.
LEMMA StreamGrows ==
  ASSUME NEW S, NEW off, NEW W, IsStream(S, off, W),
         NEW x \in Seq(Byte), Len(x) < Radix * Radix
  PROVE  LET S2   == S \o FrameOf(x)
             W2   == Append(W, x)
             off2 == [i \in 0 .. Len(W) + 1 |-> IF i <= Len(W) THEN off[i]
                                                ELSE Len(S) + 2 + Len(x)]
         IN  IsStream(S2, off2, W2) /\ LongerBy(x, S, off, W, S2, off2, W2)
<1> DEFINE S2   == S \o FrameOf(x)
           W2   == Append(W, x)
           N    == Len(W)
           off2 == [i \in 0 .. N + 1 |-> IF i <= N THEN off[i] ELSE Len(S) + 2 + Len(x)]
<1>1. /\ S \in Seq(Byte) /\ W \in Seq(Seq(Byte)) /\ N \in Nat /\ Len(S) \in Nat
      /\ Len(x) \in Nat /\ off \in [0 .. N -> Nat] /\ off[0] = 0 /\ off[N] = Len(S)
  BY DEF IsStream
<1>2. /\ S2 \in Seq(Byte) /\ Len(S2) = Len(S) + 2 + Len(x)
      /\ \A i \in 1 .. Len(S) : S2[i] = S[i]
      /\ \A i \in 1 .. 2 + Len(x) : S2[Len(S) + i] = FrameOf(x)[i]
  <2> DEFINE F == FrameOf(x)
  <2>1. F \in Seq(Byte) /\ Len(F) = 2 + Len(x)
    BY FrameOfOK
  <2> HIDE DEF F
  <2>2. /\ S \o F \in Seq(Byte) /\ Len(S \o F) = Len(S) + 2 + Len(x)
        /\ \A i \in 1 .. Len(S) : (S \o F)[i] = S[i]
        /\ \A i \in 1 .. 2 + Len(x) : (S \o F)[Len(S) + i] = F[i]
    <3> DEFINE z == S \o F
    <3>1. /\ z \in Seq(Byte) /\ Len(z) = Len(S) + Len(F)
          /\ \A i \in 1 .. Len(S) + Len(F) :
               z[i] = IF i <= Len(S) THEN S[i] ELSE F[i - Len(S)]
      BY <1>1, <2>1, Joined
    <3> HIDE DEF z
    <3>2. \A i \in 1 .. Len(S) : z[i] = S[i]
      BY <1>1, <2>1, <3>1
    <3>3. ASSUME NEW i \in 1 .. 2 + Len(x) PROVE z[Len(S) + i] = F[i]
      <4>1. /\ Len(S) + i \in 1 .. Len(S) + Len(F) /\ ~(Len(S) + i <= Len(S))
            /\ Len(S) + i - Len(S) = i
        BY <1>1, <2>1
      <4> QED
        BY <3>1, <4>1
    <3>4. Len(z) = Len(S) + 2 + Len(x)
      BY <1>1, <2>1, <3>1
    <3> QED
      BY <3>1, <3>2, <3>3, <3>4 DEF z
  <2> QED
    BY <2>2 DEF F
<1>3. /\ W2 \in Seq(Seq(Byte)) /\ Len(W2) = N + 1 /\ W2[N + 1] = x
      /\ \A i \in 1 .. N : W2[i] = W[i]
  BY <1>1, AppendProperties
<1>4. /\ off2 \in [0 .. N + 1 -> Nat] /\ off2[0] = 0 /\ off2[N + 1] = Len(S) + 2 + Len(x)
      /\ \A i \in 0 .. N : off2[i] = off[i]
  BY <1>1
<1> HIDE DEF S2, W2, off2
<1>5. \A k \in 0 .. N : off[k] \in Nat /\ off[k] + 2 * (N - k) <= Len(S)
  BY <1>1 DEF IsStream
<1>6. \A k \in 1 .. N + 1 : FrameIn(S2, off2[k - 1], off2[k], W2[k])
  <2> SUFFICES ASSUME NEW k \in 1 .. N + 1
               PROVE  FrameIn(S2, off2[k - 1], off2[k], W2[k])
    OBVIOUS
  <2>1. CASE k \in 1 .. N
    <3>1. FrameIn(S, off[k - 1], off[k], W[k]) /\ W[k] \in Seq(Byte)
      BY <1>1, <2>1, ElementOfSeq DEF IsStream
    <3>2. k - 1 \in 0 .. N /\ k \in 0 .. N /\ N - k \in Nat
      BY <1>1, <2>1
    <3>3. off[k] <= Len(S)
      <4>1. \A a, c, s \in Nat : a + 2 * c <= s => a <= s
        OBVIOUS
      <4> QED
        BY <1>1, <1>5, <3>2, <4>1
    <3>4. off2[k - 1] = off[k - 1] /\ off2[k] = off[k] /\ W2[k] = W[k]
      BY <1>3, <1>4, <2>1, <3>2
    <3>5. off[k - 1] \in Nat
      BY <1>5, <3>2
    <3>6. FrameIn(S2, off[k - 1], off[k], W[k])
      BY <1>1, <1>2, <3>1, <3>3, <3>5, FrameMoves
    <3> QED
      BY <3>4, <3>6
  <2>2. CASE k = N + 1
    <3>1. k - 1 = N /\ N \in 0 .. N
      BY <1>1, <2>2
    <3>2. off2[k - 1] = Len(S) /\ off2[k] = Len(S) + 2 + Len(x) /\ W2[k] = x
      BY <1>1, <1>3, <1>4, <2>2, <3>1
    <3>3. S2[Len(S) + 1] = FrameOf(x)[1] /\ S2[Len(S) + 2] = FrameOf(x)[2]
      BY <1>1, <1>2
    <3>4. \A j \in 1 .. Len(x) : S2[Len(S) + 2 + j] = x[j]
      <4> SUFFICES ASSUME NEW j \in 1 .. Len(x) PROVE S2[Len(S) + 2 + j] = x[j]
        OBVIOUS
      <4>1. 2 + j \in 1 .. 2 + Len(x) /\ Len(S) + (2 + j) = Len(S) + 2 + j
        BY <1>1
      <4>2. S2[Len(S) + (2 + j)] = FrameOf(x)[2 + j]
        BY <1>2, <4>1
      <4> QED
        BY <4>1, <4>2, FrameOfOK
    <3> QED
      BY <3>2, <3>3, <3>4, FrameOfOK DEF FrameIn
  <2> QED
    BY <1>1, <2>1, <2>2
<1>7. \A k \in 0 .. Len(W2) : off2[k] + 2 * (Len(W2) - k) <= Len(S2)
  <2> SUFFICES ASSUME NEW k \in 0 .. N + 1
               PROVE  off2[k] + 2 * (N + 1 - k) <= Len(S) + 2 + Len(x)
    BY <1>2, <1>3
  <2>1. CASE k \in 0 .. N
    <3>1. off2[k] = off[k] /\ off[k] \in Nat /\ off[k] + 2 * (N - k) <= Len(S)
      BY <1>4, <1>5, <2>1
    <3> QED
      BY <1>1, <2>1, <3>1
  <2>2. CASE k = N + 1
    BY <1>1, <1>4, <2>2
  <2> QED
    BY <1>1, <2>1, <2>2
<1>8. IsStream(S2, off2, W2)
  BY <1>2, <1>3, <1>4, <1>6, <1>7 DEF IsStream
<1>9. LongerBy(x, S, off, W, S2, off2, W2)
  BY <1>2, <1>3, <1>4 DEF LongerBy
<1> QED
  BY <1>8, <1>9 DEF S2, W2, off2

LEMMA PointLasts ==
  ASSUME NEW S, NEW off, NEW W, IsStream(S, off, W), NEW x \in Seq(Byte),
         NEW S2, NEW off2, NEW W2, LongerBy(x, S, off, W, S2, off2, W2),
         NEW b, NEW d, NEW h, NEW n, Point(b, d, S, off, W, h, n)
  PROVE  Point(b, d, S2, off2, W2, h, n)
<1> DEFINE N == Len(W)
<1>1. /\ N \in Nat /\ h \in 0 .. N /\ n \in Nat /\ Len(S) \in Nat
      /\ \A k \in 0 .. N : off[k] \in Nat /\ off[k] + 2 * (N - k) <= Len(S)
  BY LenProperties DEF IsStream, Point
<1>2. h \in 0 .. Len(W2) /\ off2[h] = off[h]
  BY <1>1 DEF LongerBy
<1>3. h < N => S2[off[h] + 1] = S[off[h] + 1] /\ h < Len(W2)
  <2> SUFFICES ASSUME h < N PROVE S2[off[h] + 1] = S[off[h] + 1] /\ h < Len(W2)
    OBVIOUS
  <2>1. off[h] \in Nat /\ off[h] + 2 * (N - h) <= Len(S) /\ N - h \in Nat /\ N - h >= 1
    BY <1>1
  <2>2. \A a, c, s \in Nat : a + 2 * c <= s /\ c >= 1 => a + 1 \in 1 .. s
    OBVIOUS
  <2>3. off[h] + 1 \in 1 .. Len(S)
    BY <1>1, <2>1, <2>2
  <2>4. h < Len(W2)
    BY <1>1 DEF LongerBy
  <2> QED
    BY <2>3, <2>4 DEF LongerBy
<1>4. h >= 1 => off2[h - 1] = off[h - 1] /\ W2[h] = W[h]
  <2> SUFFICES ASSUME h >= 1 PROVE off2[h - 1] = off[h - 1] /\ W2[h] = W[h]
    OBVIOUS
  <2>1. h - 1 \in 0 .. N /\ h \in 1 .. N
    BY <1>1
  <2> QED
    BY <2>1 DEF LongerBy
<1> QED
  BY <1>1, <1>2, <1>3, <1>4 DEF Point

LEMMA StreamSent ==
  ASSUME NEW b, NEW w \in Seq(Byte), NEW W, NEW h \in Nat, NEW k, NEW tn \in BOOLEAN,
         StreamOK(b, <<>>, w, W, h, k, tn), NEW x \in Seq(Byte), Len(x) < Radix * Radix
  PROVE  StreamOK(b, <<>>, w \o FrameOf(x), Append(W, x), h, k, tn)
<1>1. PICK S, off : InStream(b, <<>>, w, S, off, W, h, k, tn)
  BY DEF StreamOK
<1> DEFINE S2   == S \o FrameOf(x)
           W2   == Append(W, x)
           w2   == w \o FrameOf(x)
           off2 == [i \in 0 .. Len(W) + 1 |-> IF i <= Len(W) THEN off[i]
                                              ELSE Len(S) + 2 + Len(x)]
<1>2. IsStream(S, off, W)
  BY <1>1 DEF InStream
<1>3. IsStream(S2, off2, W2) /\ LongerBy(x, S, off, W, S2, off2, W2)
  BY <1>2, StreamGrows
<1>4. /\ w2 \in Seq(Byte) /\ Len(w2) = Len(w) + (2 + Len(x))
      /\ Len(w) \in Nat /\ Len(x) \in Nat /\ Len(S) \in Nat /\ Len(W) \in Nat
      /\ \A i \in 1 .. Len(w2) : w2[i] = IF i <= Len(w) THEN w[i] ELSE FrameOf(x)[i - Len(w)]
  <2> DEFINE F == FrameOf(x)
  <2>1. F \in Seq(Byte) /\ Len(F) = 2 + Len(x)
    BY FrameOfOK
  <2> HIDE DEF F
  <2> DEFINE z == w \o F
  <2>2. /\ z \in Seq(Byte) /\ Len(z) = Len(w) + Len(F)
        /\ \A i \in 1 .. Len(w) + Len(F) : z[i] = IF i <= Len(w) THEN w[i] ELSE F[i - Len(w)]
    BY <2>1, Joined
  <2>3. Len(w) \in Nat /\ Len(x) \in Nat /\ Len(S) \in Nat /\ Len(W) \in Nat
    BY <1>2 DEF IsStream
  <2> HIDE DEF z
  <2>4. /\ z \in Seq(Byte) /\ Len(z) = Len(w) + (2 + Len(x))
        /\ \A i \in 1 .. Len(z) : z[i] = IF i <= Len(w) THEN w[i] ELSE F[i - Len(w)]
    BY <2>1, <2>2, <2>3
  <2> QED
    BY <2>3, <2>4 DEF F, z
<1> HIDE DEF S2, W2, w2, off2
<1>8. /\ Len(w2) = Len(w) + (2 + Len(x))
      /\ Len(w) \in Nat /\ Len(x) \in Nat /\ Len(S) \in Nat /\ Len(w2) \in Nat
  BY <1>4
<1>5. ~tn => Placed(b, <<>>, w2, S2, off2, W2, h)
  <2> SUFFICES ASSUME ~tn PROVE Placed(b, <<>>, w2, S2, off2, W2, h)
    OBVIOUS
  <2>1. PICK n \in Nat : /\ Point(b, <<>>, S, off, W, h, n) /\ Window(S, n + Len(<<>>), w)
                         /\ n + Len(<<>>) + Len(w) = Len(S)
    BY <1>1 DEF InStream, Placed
  <2>2. Point(b, <<>>, S2, off2, W2, h, n)
    BY <1>2, <1>3, <2>1, PointLasts
  <2>3. /\ Len(<<>>) = 0 /\ n + Len(w) = Len(S) /\ \A i \in 1 .. Len(w) : w[i] = S[n + i]
        /\ Len(S2) = Len(S) + 2 + Len(x)
    BY <1>3, <1>4, <2>1 DEF Window, LongerBy
  <2>4. Window(S2, n, <<>>)
    BY <1>4, <2>3 DEF Window
  <2>5. \A i \in 1 .. Len(w2) : w2[i] = S2[n + i]
    <3> SUFFICES ASSUME NEW i \in 1 .. Len(w2) PROVE w2[i] = S2[n + i]
      OBVIOUS
    <3>1. CASE i <= Len(w)
      <4>1. i \in 1 .. Len(w) /\ n + i \in 1 .. Len(S)
        BY <1>4, <2>3, <3>1
      <4>2. S2[n + i] = S[n + i]
        BY <1>3, <4>1 DEF LongerBy
      <4> QED
        BY <1>4, <2>3, <3>1, <4>1, <4>2
    <3>2. CASE ~(i <= Len(w))
      <4> DEFINE j == i - Len(w)
      <4>1. j \in 1 .. 2 + Len(x) /\ n + i = Len(S) + j
        <5>1. i \in Nat /\ i > Len(w) /\ i <= Len(w) + (2 + Len(x)) /\ Len(S) = n + Len(w)
          BY <1>8, <2>3, <3>2
        <5>2. \A a, l, c \in Nat : a > l /\ a <= l + c =>
                a - l \in 1 .. c /\ \A m \in Nat : m + a = m + l + (a - l)
          OBVIOUS
        <5>3. 2 + Len(x) \in Nat
          BY <1>8
        <5> QED
          BY <1>8, <5>1, <5>2, <5>3
      <4>2. w2[i] = FrameOf(x)[j]
        BY <1>4, <3>2
      <4> HIDE DEF j
      <4>3. S2[Len(S) + j] = FrameOf(x)[j]
        BY <1>3, <4>1 DEF LongerBy
      <4> QED
        BY <4>1, <4>2, <4>3
    <3> QED
      BY <3>1, <3>2
  <2>6. n + Len(<<>>) = n /\ n + Len(w2) = Len(S2) /\ n + Len(<<>>) + Len(w2) = Len(S2)
    <3>1. Len(S) = n + Len(w) /\ Len(S2) = Len(S) + 2 + Len(x) /\ Len(<<>>) = 0
      BY <2>3
    <3>2. \A a, l, c \in Nat : /\ a + (l + (2 + c)) = a + l + 2 + c
                             /\ a + 0 = a /\ a + 0 + (l + (2 + c)) = a + l + 2 + c
      OBVIOUS
    <3> QED
      BY <1>8, <3>1, <3>2
  <2>7. Window(S2, n + Len(<<>>), w2)
    BY <1>4, <2>3, <2>5, <2>6 DEF Window
  <2> QED
    BY <2>2, <2>4, <2>6, <2>7 DEF Placed
<1>6. RoomForAll(W2, off2) => AllKept(b, k, off2, h, tn)
  <2> SUFFICES ASSUME RoomForAll(W2, off2) PROVE AllKept(b, k, off2, h, tn)
    OBVIOUS
  <2>1. RoomForAll(W, off)
    <3>1. Len(W) + 1 <= MaxNumMessages /\ MaxNumMessages \in Nat
      BY <1>3, BufferAssumption DEF RoomForAll, LongerBy
    <3>2. off[Len(W)] = Len(S) /\ Len(S) + 2 + Len(x) - 2 * (Len(W) + 1) <= QueueSize
      BY <1>2, <1>3 DEF RoomForAll, LongerBy, IsStream
    <3>3. \A i \in 1 .. Len(W) : i \in 1 .. Len(W2) /\ W2[i] = W[i]
      BY <1>3, <1>4 DEF LongerBy
    <3>4. \A i \in 1 .. Len(W) : Len(W[i]) <= MaxMsgSize
      BY <3>3 DEF RoomForAll
    <3>5. QueueSize \in Nat
      BY BufferAssumption
    <3>6. Len(S) - 2 * Len(W) <= QueueSize
      BY <1>4, <3>2, <3>5
    <3> QED
      BY <1>4, <3>1, <3>2, <3>4, <3>6 DEF RoomForAll
  <2>2. AllKept(b, k, off, h, tn)
    BY <1>1, <2>1 DEF InStream
  <2>3. Placed(b, <<>>, w, S, off, W, h)
    BY <1>1, <2>2 DEF InStream, AllKept
  <2>4. Past(b, h) \in 0 .. Len(W)
    BY <1>4, <2>3 DEF Placed, Point, Past
  <2>5. off2[Past(b, h)] = off[Past(b, h)]
    BY <1>3, <2>4 DEF LongerBy
  <2> QED
    BY <2>2, <2>5 DEF AllKept
<1>7. InStream(b, <<>>, w2, S2, off2, W2, h, k, tn)
  BY <1>3, <1>5, <1>6 DEF InStream
<1> QED
  BY <1>7 DEF StreamOK, w2, W2

LEMMA SplitAt ==
  ASSUME NEW s \in Seq(Byte), NEW n \in 1 .. Len(s)
  PROVE  LET d == SubSeq(s, 1, n)
         IN  /\ d \in Seq(Byte) /\ Len(d) = n /\ \A i \in 1 .. n : d[i] = s[i]
             /\ n \in Nat /\ Len(s) \in Nat /\ n <= Len(s)
<1> DEFINE d == SubSeq(s, 1, n)
<1>1. Len(s) \in Nat /\ n \in Nat /\ n <= Len(s) /\ \A i \in 1 .. n : s[i] \in Byte
  BY LenProperties, ElementOfSeq
<1>2. /\ d \in Seq(Byte) /\ Len(d) = IF 1 <= n THEN n - 1 + 1 ELSE 0
      /\ \A i \in 1 .. n - 1 + 1 : d[i] = s[1 + i - 1]
  BY <1>1, SubSeqProperties
<1> HIDE DEF d
<1> QED
  BY <1>1, <1>2 DEF d

\* A call of put_data begins with the first n bytes on the wire.
LEMMA StreamCut ==
  ASSUME NEW b, NEW w \in Seq(Byte), NEW W, NEW h, NEW k, NEW tn \in BOOLEAN,
         StreamOK(b, <<>>, w, W, h, k, tn), b.toSkip_ \in Nat, NEW n \in 1 .. Len(w)
  PROVE  StreamOK(b, SubSeq(w, 1, n), SubSeq(w, n + 1, Len(w)), W, h, k,
                  tn \/ b.toSkip_ > 0)
<1>1. PICK S, off : InStream(b, <<>>, w, S, off, W, h, k, tn)
  BY DEF StreamOK
<1> DEFINE d   == SubSeq(w, 1, n)
           r   == SubSeq(w, n + 1, Len(w))
           tn2 == tn \/ b.toSkip_ > 0
<1>2. IsStream(S, off, W) /\ S \in Seq(Byte) /\ Len(S) \in Nat
  BY <1>1, LenProperties DEF InStream, IsStream
<1>3. /\ d \in Seq(Byte) /\ Len(d) = n /\ \A i \in 1 .. n : d[i] = w[i]
      /\ n \in Nat /\ Len(w) \in Nat /\ n <= Len(w)
  BY SplitAt
<1>4. ~tn2 => Placed(b, d, r, S, off, W, h)
  <2> SUFFICES ASSUME ~tn, ~(b.toSkip_ > 0) PROVE Placed(b, d, r, S, off, W, h)
    OBVIOUS
  <2>1. PICK m \in Nat : /\ Point(b, <<>>, S, off, W, h, m) /\ Window(S, m + Len(<<>>), w)
                         /\ m + Len(<<>>) + Len(w) = Len(S)
    BY <1>1 DEF InStream, Placed
  <2>2. Point(b, d, S, off, W, h, m)
    BY <2>1 DEF Point
  <2>3. m + Len(<<>>) = m /\ m + Len(w) = Len(S) /\ Window(S, m, w)
    <3>1. m + Len(<<>>) = m
      OBVIOUS
    <3> QED
      BY <2>1, <3>1
  <2>4. r \in Seq(Byte) /\ Len(r) = Len(w) - n /\ Window(S, m + n, r)
    <3>1. n \in 0 .. Len(w)
      BY <1>3
    <3> QED
      BY <1>2, <2>3, <3>1, WindowRest
  <2> HIDE DEF d, r
  <2>5. Window(S, m, d)
    <3>1. \A i \in 1 .. n : d[i] = S[m + i]
      BY <1>3, <2>3 DEF Window
    <3>2. m + n <= Len(S)
      BY <1>2, <1>3, <2>3
    <3> QED
      BY <1>3, <3>1, <3>2 DEF Window
  <2>6. m + Len(d) + Len(r) = Len(S)
    BY <1>2, <1>3, <2>3, <2>4
  <2> QED
    BY <1>3, <2>2, <2>4, <2>5, <2>6 DEF Placed
<1> HIDE DEF d, r
<1>5. RoomForAll(W, off) => AllKept(b, k, off, h, tn2)
  <2> SUFFICES ASSUME RoomForAll(W, off) PROVE AllKept(b, k, off, h, tn2)
    OBVIOUS
  <2>1. AllKept(b, k, off, h, tn)
    BY <1>1 DEF InStream
  <2>2. ~tn2
    BY <2>1 DEF AllKept
  <2> HIDE DEF tn2
  <2> QED
    BY <2>1, <2>2 DEF AllKept
<1> HIDE DEF tn2
<1>6. InStream(b, d, r, S, off, W, h, k, tn2)
  BY <1>2, <1>4, <1>5 DEF InStream
<1>7. StreamOK(b, d, r, W, h, k, tn2)
  BY <1>6 DEF StreamOK
<1> QED
  BY <1>7 DEF d, r, tn2

\* Where a buffer stands does not depend on its queue.
LEMMA StreamPopped ==
  ASSUME NEW b, NEW c, c.curTarget_ = b.curTarget_, c.toSkip_ = b.toSkip_,
         c.tmpSize_ = b.tmpSize_, NEW d, NEW w, NEW W, NEW h, NEW k, NEW tn \in BOOLEAN,
         StreamOK(b, d, w, W, h, k, tn)
  PROVE  StreamOK(c, d, w, W, h, k, tn) /\ Past(c, h) = Past(b, h)
<1>1. Past(c, h) = Past(b, h)
  BY DEF Past
<1>2. \A S, off, n : Point(b, d, S, off, W, h, n) => Point(c, d, S, off, W, h, n)
  BY DEF Point
<1>3. \A S, off : Placed(b, d, w, S, off, W, h) => Placed(c, d, w, S, off, W, h)
  BY <1>2 DEF Placed
<1>4. \A S, off : AllKept(b, k, off, h, tn) => AllKept(c, k, off, h, tn)
  BY <1>1 DEF AllKept
<1>5. \A S, off : InStream(b, d, w, S, off, W, h, k, tn) => InStream(c, d, w, S, off, W, h, k, tn)
  BY <1>3, <1>4, Zenon DEF InStream
<1> QED
  BY <1>1, <1>5, Zenon DEF StreamOK

LEMMA FrameEnds ==
  ASSUME NEW S, NEW off, NEW W, IsStream(S, off, W), NEW h \in Nat, h + 1 \in 1 .. Len(W)
  PROVE  /\ off[h] \in Nat /\ off[h + 1] \in Nat
         /\ off[h + 1] = off[h] + 2 + Len(W[h + 1]) /\ Len(W[h + 1]) \in Nat
<1> DEFINE i == h + 1
<1>1. i - 1 = h /\ i \in 1 .. Len(W)
  OBVIOUS
<1> HIDE DEF i
<1>2. /\ off[i - 1] \in Nat /\ off[i] \in Nat /\ off[i] = off[i - 1] + 2 + Len(W[i])
      /\ Len(W[i]) \in Nat
  BY <1>1, FrameAt
<1> QED
  BY <1>1, <1>2 DEF i

\* While all that was sent fits in the buffer, and none was refused, the next
\* frame fits.
LEMMA NextFits ==
  ASSUME NEW S, NEW off, NEW W, IsStream(S, off, W), RoomForAll(W, off),
         NEW b, BufferOK(b), b.curTarget_ = NULL,
         NEW h \in Nat, h + 1 \in 1 .. Len(W), NEW tn \in BOOLEAN,
         NEW k \in Seq(Entry), NEW p \in Nat, Totals(k), Fifo(k, b.queue_, p, b.written_),
         AllKept(b, k, off, h, tn)
  PROVE  Fits(b, Len(W[h + 1]))
<1> DEFINE N == Len(W)
           i == h + 1
           L == Len(k)
<1>1. /\ N \in Nat /\ Len(S) \in Nat /\ i \in 1 .. N /\ i - 1 = h
      /\ off[N] = Len(S) /\ off[i] + 2 * (N - i) <= Len(S)
      /\ N <= MaxNumMessages /\ off[N] - 2 * N <= QueueSize
  <2>1. N \in Nat /\ Len(S) \in Nat /\ i \in 0 .. N
    BY LenProperties DEF IsStream
  <2> QED
    BY <2>1 DEF IsStream, RoomForAll
<1> HIDE DEF i
<1>2. /\ off[h] \in Nat /\ off[i] \in Nat /\ off[i] = off[h] + 2 + Len(W[i])
      /\ Len(W[i]) \in Nat
  BY FrameEnds DEF i
<1>3. Len(W[i]) <= MaxMsgSize
  BY <1>1 DEF RoomForAll
<1>4. L = h /\ TotalAt(k, L) + 2 * h = off[h] /\ L \in Nat
  BY LenProperties DEF AllKept, Past
<1>5. p \in 0 .. L /\ Len(b.queue_) \in Nat /\ L = p + Len(b.queue_)
  BY <1>4, FieldTypes, LenProperties DEF Fifo
<1>6. \A j \in 0 .. L : TotalAt(k, j) \in Nat
  <2> SUFFICES ASSUME NEW j \in 0 .. L PROVE TotalAt(k, j) \in Nat
    OBVIOUS
  <2>1. j # 0 => k[j] \in Entry
    BY <1>4, ElementOfSeq
  <2> QED
    BY <2>1 DEF TotalAt, Entry
<1>7. TotalAt(k, p) \in Nat /\ TotalAt(k, L) \in Nat
  BY <1>4, <1>5, <1>6
<1>8. b.written_ = TotalAt(k, L) - TotalAt(k, p)
  BY DEF Fifo
<1>9. Len(b.queue_) < MaxNumMessages
  BY <1>1, <1>4, <1>5, BufferAssumption
<1>10. b.written_ + Len(W[i]) <= QueueSize
  <2>1. \A x, y, z, u, s, c, q, g, j, n \in Nat :
          /\ x + 2 * g = y /\ z = y + 2 + u /\ z + 2 * (n - j) <= s
          /\ s - 2 * n <= q /\ j - 1 = g
          => x - c + u <= q
    OBVIOUS
  <2> DEFINE X == TotalAt(k, L)
             C == TotalAt(k, p)
             U == Len(W[i])
  <2>2. X \in Nat /\ C \in Nat /\ U \in Nat /\ QueueSize \in Nat /\ i \in Nat
    BY <1>1, <1>2, <1>7, BufferAssumption
  <2>3. X + 2 * h = off[h] /\ off[i] = off[h] + 2 + U /\ off[N] = Len(S)
    BY <1>1, <1>2, <1>4
  <2>4. b.written_ = X - C
    BY <1>8
  <2> DEFINE y == off[h]
             z == off[i]
             s == Len(S)
  <2>a. /\ y \in Nat /\ z \in Nat /\ s \in Nat /\ N \in Nat /\ i - 1 = h
        /\ z + 2 * (N - i) <= s /\ s - 2 * N <= QueueSize
    BY <1>1, <1>2
  <2>b. X + 2 * h = y /\ z = y + 2 + U
    BY <2>3
  <2> HIDE DEF X, C, U, y, z, s, N
  <2>5. X - C + U <= QueueSize
    BY <2>1, <2>2, <2>a, <2>b
  <2> QED
    BY <2>4, <2>5 DEF U
<1> QED
  BY <1>3, <1>9, <1>10 DEF Fits, i

\* k2 is k, with the message that c has and b had not.
Queued(b, c, k, k2) ==
  /\ c.queue_ = b.queue_ => k2 = k
  /\ \A m \in Message :
       c.queue_ = Append(b.queue_, m) =>
         \E e \in Entry : /\ k2 = Append(k, e) /\ e.size = m.size_
                          /\ e.upto = TotalAt(k, Len(k)) + e.size

LEMMA CountedKeepsAll ==
  ASSUME NEW S, NEW off, NEW W, IsStream(S, off, W), NEW b, NEW c, NEW h, NEW h2,
         b.queue_ \in Seq(Message),
         NEW k \in Seq(Entry), NEW k2, Queued(b, c, k, k2), NEW tn \in BOOLEAN,
         AllKept(b, k, off, h, tn), Past(b, h) \in Nat, Past(c, h2) \in Nat,
         \/ c.queue_ = b.queue_ /\ Past(b, h) <= Past(c, h2)
         \/ Completed(b, c, W, h2) /\ Past(b, h) < h2 /\ h2 \in 1 .. Len(W),
         Counted(b, h, c, h2)
  PROVE  AllKept(c, k2, off, h2, tn)
<1>1. CASE c.queue_ = b.queue_
  <2>1. k2 = k /\ Past(c, h2) = Past(b, h) /\ c.toSkip_ = 0
    <3>1. k2 = k
      BY <1>1 DEF Queued
    <3>2. Past(c, h2) - Past(b, h) = Len(b.queue_) - Len(b.queue_) /\ c.toSkip_ = 0
      BY <1>1 DEF Counted
    <3>3. Len(b.queue_) \in Nat
      BY LenProperties
    <3> QED
      BY <3>1, <3>2, <3>3
  <2> QED
    BY <2>1 DEF AllKept
<1>2. CASE Completed(b, c, W, h2) /\ Past(b, h) < h2 /\ h2 \in 1 .. Len(W)
  <2>1. PICK m \in Message : c.queue_ = Append(b.queue_, m) /\ m.size_ = Len(W[h2])
    BY <1>2 DEF Completed
  <2>2. PICK e \in Entry : /\ k2 = Append(k, e) /\ e.size = m.size_
                           /\ e.upto = TotalAt(k, Len(k)) + e.size
    BY <2>1 DEF Queued
  <2>3. c.curTarget_ = NULL /\ Past(c, h2) = h2 /\ h2 \in 1 .. Len(W)
    BY <1>2 DEF Completed, Past
  <2>4. Past(b, h) = h2 - 1 /\ c.toSkip_ = 0
    <3>1. Len(c.queue_) - Len(b.queue_) = 1
      <4>1. Len(c.queue_) = Len(b.queue_) + 1 /\ Len(b.queue_) \in Nat
        BY <2>1, AppendProperties, LenProperties
      <4> QED
        BY <4>1
    <3>2. h2 - Past(b, h) = 1 /\ c.toSkip_ = 0
      BY <2>3, <3>1 DEF Counted
    <3> QED
      BY <2>3, <3>2
  <2>5. /\ off[h2] = off[h2 - 1] + 2 + Len(W[h2]) /\ Len(W[h2]) \in Nat
        /\ off[h2 - 1] \in Nat
    BY <2>3, FrameAt
  <2>6. Len(k) = h2 - 1 /\ TotalAt(k, Len(k)) + 2 * (h2 - 1) = off[h2 - 1] /\ ~tn
    BY <2>4 DEF AllKept
  <2>7. Len(k2) = h2 /\ k2[h2] = e
    <3>1. Len(k2) = Len(k) + 1 /\ k2[Len(k) + 1] = e /\ Len(k) \in Nat
      BY <2>2, AppendProperties, LenProperties
    <3>2. Len(k) + 1 = h2
      BY <2>3, <2>6, <3>1
    <3> QED
      BY <3>1, <3>2
  <2>8. TotalAt(k2, Len(k2)) = TotalAt(k, Len(k)) + Len(W[h2])
    BY <2>1, <2>2, <2>3, <2>7 DEF TotalAt
  <2>9. TotalAt(k, Len(k)) \in Int
    <3>1. Len(k) # 0 => k[Len(k)] \in Entry
      BY ElementOfSeq, LenProperties
    <3> QED
      BY <3>1 DEF TotalAt, Entry
  <2>10. TotalAt(k2, Len(k2)) + 2 * h2 = off[h2]
    <3> DEFINE T == TotalAt(k, Len(k))
    <3> HIDE DEF T
    <3>1. T \in Int /\ T + 2 * (h2 - 1) = off[h2 - 1] /\ h2 \in Int
      BY <2>3, <2>6, <2>9 DEF T
    <3>2. T + Len(W[h2]) + 2 * h2 = off[h2]
      <4>1. \A t, g, x, u, y \in Int : t + 2 * (g - 1) = x /\ y = x + 2 + u => t + u + 2 * g = y
        OBVIOUS
      <4> DEFINE x == off[h2 - 1]
                 y == off[h2]
                 u == Len(W[h2])
      <4>2. x \in Int /\ u \in Int /\ y = x + 2 + u /\ T + 2 * (h2 - 1) = x
        BY <2>5, <3>1
      <4> HIDE DEF x, y, u
      <4>3. T + u + 2 * h2 = y
        BY <3>1, <4>1, <4>2
      <4> QED
        BY <4>3 DEF u, y
    <3> QED
      BY <2>8, <3>2 DEF T
  <2> QED
    BY <2>3, <2>4, <2>6, <2>7, <2>10 DEF AllKept
<1> QED
  BY <1>1, <1>2

\* The queue of c after a turn: the message it has that b had not is a frame
\* not yet in the queue.
Moves(b, c, W, h, h2) ==
  /\ h2 \in 0 .. Len(W)
  /\ \/ c.queue_ = b.queue_ /\ Past(b, h) <= Past(c, h2)
     \/ Completed(b, c, W, h2) /\ Past(b, h) < h2 /\ h2 \in 1 .. Len(W)

LEMMA StreamTurn ==
  ASSUME NEW b, BufferOK(b), NEW d \in Seq(Byte), d # <<>>, NEW w \in Seq(Byte),
         NEW W, NEW h \in Nat, NEW k \in Seq(Entry), NEW p \in Nat,
         Totals(k), Fifo(k, b.queue_, p, b.written_), NEW tn \in BOOLEAN,
         StreamOK(b, d, w, W, h, k, tn),
         NEW c, NEW r, c = PutDataTurn(b, d).buf, r = PutDataTurn(b, d).rest,
         NEW h2, h2 = (IF Reads(b, d) THEN h + 1 ELSE h),
         NEW k2, Queued(b, c, k, k2)
  PROVE  StreamOK(c, r, w, W, h2, k2, tn) /\ (~tn => Moves(b, c, W, h, h2))
<1>1. PICK S, off : InStream(b, d, w, S, off, W, h, k, tn)
  BY DEF StreamOK
<1>2. IsStream(S, off, W) /\ Len(S) \in Nat /\ Len(W) \in Nat
  BY <1>1, LenProperties DEF InStream, IsStream
<1>3. CASE tn
  <2>1. ~RoomForAll(W, off)
    BY <1>1, <1>3 DEF InStream, AllKept
  <2>2. InStream(c, r, w, S, off, W, h2, k2, tn)
    BY <1>2, <1>3, <2>1 DEF InStream
  <2> QED
    BY <1>3, <2>2 DEF StreamOK
<1>4. CASE ~tn
  <2>1. PICK n \in Nat : /\ Point(b, d, S, off, W, h, n) /\ Window(S, n, d)
                         /\ Window(S, n + Len(d), w) /\ n + Len(d) + Len(w) = Len(S)
    BY <1>1, <1>4 DEF InStream, Placed
  <2>2. /\ Follows(b, h, n + Len(d), c, r, h2, S, off, W)
        /\ Reads(b, d) => h + 1 \in 1 .. Len(W)
        /\ (Reads(b, d) => Fits(b, Len(W[h + 1]))) => Counted(b, h, c, h2)
    BY <1>2, <2>1, PutDataTurnFollows
  <2>3. PICK n2 \in Nat : /\ n2 + Len(r) = n + Len(d) /\ Point(c, r, S, off, W, h2, n2)
                          /\ Window(S, n2, r)
    BY <2>2 DEF Follows
  <2>4. Placed(c, r, w, S, off, W, h2)
    BY <2>1, <2>3 DEF Placed
  <2>5. /\ h2 \in 0 .. Len(W) /\ Past(c, h2) \in 0 .. Len(W)
        /\ c.curTarget_ # NULL => h2 >= 1
    BY <1>2, <2>3 DEF Point, Past
  <2>6. Past(b, h) \in Nat
    BY <1>2, <2>1 DEF Point, Past
  <2>7. \/ c.queue_ = b.queue_ /\ Past(b, h) <= Past(c, h2)
        \/ Completed(b, c, W, h2) /\ Past(b, h) < h2
    BY <2>2 DEF Follows
  <2>8. Completed(b, c, W, h2) /\ Past(b, h) < h2 => h2 \in 1 .. Len(W)
    BY <1>2, <2>5, <2>6
  <2>9. Moves(b, c, W, h, h2)
    BY <2>5, <2>7, <2>8 DEF Moves
  <2>10. RoomForAll(W, off) => AllKept(c, k2, off, h2, tn)
    <3> SUFFICES ASSUME RoomForAll(W, off) PROVE AllKept(c, k2, off, h2, tn)
      OBVIOUS
    <3>1. AllKept(b, k, off, h, tn)
      BY <1>1 DEF InStream
    <3>2. Reads(b, d) => Fits(b, Len(W[h + 1]))
      <4> SUFFICES ASSUME Reads(b, d) PROVE Fits(b, Len(W[h + 1]))
        OBVIOUS
      <4>1. b.curTarget_ = NULL
        BY DEF Reads, BufferOK
      <4>2. h + 1 \in 1 .. Len(W)
        BY <2>2
      <4> QED
        BY <1>2, <3>1, <4>1, <4>2, NextFits
    <3>3. Counted(b, h, c, h2)
      BY <2>2, <3>2
    <3>4. \/ c.queue_ = b.queue_ /\ Past(b, h) <= Past(c, h2)
          \/ Completed(b, c, W, h2) /\ Past(b, h) < h2 /\ h2 \in 1 .. Len(W)
      BY <2>7, <2>8
    <3>5. Past(c, h2) \in Nat /\ b.queue_ \in Seq(Message)
      BY <1>2, <2>5, FieldTypes
    <3> QED
      BY <1>2, <2>6, <3>1, <3>3, <3>4, <3>5, CountedKeepsAll
  <2>11. InStream(c, r, w, S, off, W, h2, k2, tn)
    BY <1>2, <2>4, <2>10 DEF InStream
  <2> QED
    BY <2>9, <2>11 DEF StreamOK
<1> QED
  BY <1>3, <1>4

-----------------------------------------------------------------------------
(* The invariant behind FramesFollowed, OutputFramed and NoNeedlessDrop. *)

\* The frames that a message in the queue can be.
Taken(md, b, h, W) == IF md = "receive" THEN Past(b, h) ELSE Len(W)

FollowInv ==
  /\ mode = "receive" => StreamOK(buf, data, wire, sent, heads, kept, torn)
  /\ ~torn => FramesOK(kept, sent, got, buf.queue_, popped, mode,
                       Taken(mode, buf, heads, sent))
  /\ mode # "receive" => /\ ~torn /\ Len(kept) = Len(sent)
                         /\ \A i \in 1 .. Len(kept) : kept[i].frame = i
  /\ mode = "send" => Rising(kept) /\ OutOK(out, kept, buf.queue_, popped, sent)

LEMMA InitFollows == Init => FollowInv
<1> SUFFICES ASSUME Init PROVE FollowInv
  OBVIOUS
<1> DEFINE b   == EmptyBuffer
           off == [i \in 0 .. 0 |-> 0]
<1>1. /\ buf = b /\ data = <<>> /\ wire = <<>> /\ sent = <<>> /\ heads = 0
      /\ kept = <<>> /\ got = <<>> /\ out = <<>> /\ popped = 0 /\ torn = FALSE
  BY DEF Init
<1>2. /\ b.queue_ = <<>> /\ b.curTarget_ = NULL /\ b.toSkip_ = 0 /\ b.tmpSize_ = NoSize
  BY DEF EmptyBuffer
<1> HIDE DEF b
<1>3. IsStream(<<>>, off, <<>>)
  <2>1. \A T : <<>> \in Seq(T)
    BY EmptySeq
  <2> QED
    BY <2>1 DEF IsStream
<1>4. Placed(b, <<>>, <<>>, <<>>, off, <<>>, 0)
  <2>1. Point(b, <<>>, <<>>, off, <<>>, 0, 0)
    BY <1>2 DEF Point
  <2>2. Window(<<>>, 0, <<>>) /\ 0 + Len(<<>>) = 0 /\ 0 + Len(<<>>) + Len(<<>>) = Len(<<>>)
    BY DEF Window
  <2> QED
    BY <2>1, <2>2 DEF Placed
<1>5. AllKept(b, <<>>, off, 0, FALSE)
  BY <1>2 DEF AllKept, Past, TotalAt
<1>6. StreamOK(b, <<>>, <<>>, <<>>, 0, <<>>, FALSE)
  BY <1>3, <1>4, <1>5 DEF StreamOK, InStream
<1>7. FramesOK(<<>>, <<>>, <<>>, <<>>, 0, mode, Taken(mode, b, 0, <<>>))
  BY DEF FramesOK
<1>8. Rising(<<>>)
  BY DEF Rising, TotalAt
<1>9. OutOK(<<>>, <<>>, <<>>, 0, <<>>)
  BY DEF OutOK, EndAt, TotalAt, Begun, HeadersOut, BodiesOut
<1>10. FramesOK(kept, sent, got, buf.queue_, popped, mode, Taken(mode, buf, heads, sent))
  BY <1>1, <1>2, <1>7
<1>11. StreamOK(buf, data, wire, sent, heads, kept, torn)
  BY <1>1, <1>6
<1>12. Rising(kept) /\ OutOK(out, kept, buf.queue_, popped, sent)
  BY <1>1, <1>2, <1>8, <1>9
<1>13. ~torn /\ Len(kept) = Len(sent) /\ \A i \in 1 .. Len(kept) : kept[i].frame = i
  BY <1>1
<1> QED
  BY <1>10, <1>11, <1>12, <1>13 DEF FollowInv

\* Until a call is torn, the frames that are done with can be counted.
LEMMA PastIsNat ==
  ASSUME mode = "receive", FollowInv, ~torn
  PROVE  Past(buf, heads) \in Nat
<1>1. PICK S, off : InStream(buf, data, wire, S, off, sent, heads, kept, torn)
  BY DEF FollowInv, StreamOK
<1>2. PICK n \in Nat : Point(buf, data, S, off, sent, heads, n)
  BY <1>1 DEF InStream, Placed
<1>3. Len(sent) \in Nat
  BY <1>1, LenProperties DEF InStream, IsStream
<1> QED
  BY <1>2, <1>3 DEF Point, Past

LEMMA PeerSendsFollows ==
  ASSUME Inv, FollowInv, NEW n \in Sizes, PeerSends(n)
  PROVE  FollowInv'
<1> DEFINE body == Body(Len(sent) + 1, n)
<1>1. /\ sent' = Append(sent, body) /\ wire' = wire \o FrameOf(body)
      /\ UNCHANGED <<mode, buf, data, room, heads, kept, got, out, popped, torn>>
      /\ mode = "receive" /\ data = <<>>
  BY DEF PeerSends, call, Idle
<1>2. /\ sent \in Seq(Seq(Byte)) /\ wire \in Seq(Byte) /\ heads \in Nat
      /\ torn \in BOOLEAN /\ kept \in Seq(Entry)
  BY DEF Inv, TypeOK
<1>3. body \in Seq(Byte) /\ Len(body) < Radix * Radix
  <2>1. Len(sent) + 1 \in Nat
    BY <1>2, LenProperties
  <2> QED
    BY <2>1, BodyOK
<1> HIDE DEF body
<1>4. StreamOK(buf, data, wire \o FrameOf(body), Append(sent, body), heads, kept, torn)
  BY <1>1, <1>2, <1>3, StreamSent DEF FollowInv
<1>5. ~torn => FramesOK(kept, Append(sent, body), got, buf.queue_, popped, mode,
                        Past(buf, heads))
  <2> SUFFICES ASSUME ~torn
               PROVE  FramesOK(kept, Append(sent, body), got, buf.queue_, popped, mode,
                               Past(buf, heads))
    OBVIOUS
  <2>1. Past(buf, heads) \in Nat
    BY <1>1, PastIsNat
  <2>2. FramesOK(kept, sent, got, buf.queue_, popped, mode, Past(buf, heads))
    BY <1>1 DEF FollowInv, Taken
  <2> QED
    BY <1>2, <1>3, <2>1, <2>2, FramesSent
<1>6. StreamOK(buf, data, wire, sent, heads, kept, torn)'
  BY <1>1, <1>4
<1>7. (~torn => FramesOK(kept, sent, got, buf.queue_, popped, mode,
                         Taken(mode, buf, heads, sent)))'
  BY <1>1, <1>5 DEF Taken
<1> QED
  BY <1>1, <1>6, <1>7 DEF FollowInv

LEMMA PutDataCallFollows ==
  ASSUME Inv, FollowInv, NEW n \in 1 .. Len(wire), PutDataCall(n)
  PROVE  FollowInv'
<1>1. /\ data' = SubSeq(wire, 1, n) /\ wire' = SubSeq(wire, n + 1, Len(wire))
      /\ torn' = (torn \/ buf.toSkip_ > 0) /\ mode = "receive" /\ data = <<>>
      /\ UNCHANGED <<mode, buf, room, sent, heads, kept, got, out, popped>>
  BY DEF PutDataCall, Idle
<1>2. wire \in Seq(Byte) /\ torn \in BOOLEAN /\ buf.toSkip_ \in Nat
  BY FieldTypes DEF Inv, TypeOK
<1>3. StreamOK(buf, SubSeq(wire, 1, n), SubSeq(wire, n + 1, Len(wire)), sent, heads, kept,
               torn \/ buf.toSkip_ > 0)
  BY <1>1, <1>2, StreamCut DEF FollowInv
<1>4. StreamOK(buf, data, wire, sent, heads, kept, torn)'
  BY <1>1, <1>3
<1>5. (~torn => FramesOK(kept, sent, got, buf.queue_, popped, mode,
                         Taken(mode, buf, heads, sent)))'
  BY <1>1 DEF FollowInv
<1> QED
  BY <1>1, <1>4, <1>5 DEF FollowInv

LEMMA GetMessageCallFollows ==
  ASSUME Inv, FollowInv, NEW mSize \in Rooms, GetMessageCall(mSize)
  PROVE  FollowInv'
<1>1. /\ buf' = PopFront(buf) /\ got' = Append(got, Head(buf.queue_).body)
      /\ popped' = popped + 1 /\ buf.queue_ # <<>> /\ mode # "send"
      /\ UNCHANGED <<mode, data, room, wire, sent, heads, kept, out, torn>>
  BY DEF GetMessageCall, CanGetMessage, call
<1>2. /\ kept \in Seq(Entry) /\ buf.queue_ \in Seq(Message) /\ popped \in Nat
      /\ got \in Seq(Seq(Cell)) /\ BufferOK(buf) /\ torn \in BOOLEAN
      /\ Len(kept) = popped + Len(buf.queue_) /\ Len(got) = popped
  BY <1>1, FieldTypes DEF Inv, TypeOK, Fifo, Returned
<1>3. /\ buf'.queue_ = Tail(buf.queue_) /\ buf'.curTarget_ = buf.curTarget_
      /\ buf'.toSkip_ = buf.toSkip_ /\ buf'.tmpSize_ = buf.tmpSize_
  BY <1>1, <1>2 DEF PopFront, BufferOK, BufferType
<1>4. mode = "receive" => /\ StreamOK(buf', data, wire, sent, heads, kept, torn)
                          /\ Past(buf', heads) = Past(buf, heads)
  BY <1>2, <1>3, StreamPopped DEF FollowInv
<1>5. Taken(mode, buf', heads, sent) = Taken(mode, buf, heads, sent)
  BY <1>4 DEF Taken
<1>6. ~torn => FramesOK(kept, sent, Append(got, Head(buf.queue_).body), Tail(buf.queue_),
                        popped + 1, mode, Taken(mode, buf, heads, sent))
  BY <1>1, <1>2, FramesReturned DEF FollowInv
<1>7. (mode = "receive" => StreamOK(buf, data, wire, sent, heads, kept, torn))'
  BY <1>1, <1>4
<1>8. (~torn => FramesOK(kept, sent, got, buf.queue_, popped, mode,
                         Taken(mode, buf, heads, sent)))'
  BY <1>1, <1>3, <1>5, <1>6
<1> QED
  BY <1>1, <1>7, <1>8 DEF FollowInv

LEMMA GetDataCallFollows ==
  ASSUME FollowInv, NEW mSize \in Rooms, GetDataCall(mSize)
  PROVE  FollowInv'
<1>1. UNCHANGED <<mode, buf, data, wire, sent, heads, kept, got, out, popped, torn>>
  BY DEF GetDataCall
<1> QED
  BY <1>1 DEF FollowInv

LEMMA FramesRaised ==
  ASSUME NEW k, NEW W, NEW g, NEW q, NEW p, NEW md, NEW top \in Nat, NEW top2 \in Nat,
         top <= top2, FramesOK(k, W, g, q, p, md, top), W \in Seq(Seq(Byte))
  PROVE  FramesOK(k, W, g, q, p, md, top2)
<1>1. Len(W) \in Nat
  BY LenProperties
<1>2. \A x \in 1 .. Len(W) : x <= top => x <= top2
  BY <1>1
<1> QED
  BY <1>2 DEF FramesOK

LEMMA PutDataLoopFollows ==
  ASSUME Inv, FollowInv, PutDataLoop
  PROVE  FollowInv'
<1>1. /\ buf' = PutDataTurn(buf, data).buf /\ data' = PutDataTurn(buf, data).rest
      /\ data # <<>>
      /\ UNCHANGED <<mode, room, wire, sent, got, out, popped, torn>>
      /\ kept' = IF Len(buf'.queue_) = Len(buf.queue_) THEN kept
                 ELSE Append(kept,
                        EntryFor(buf'.queue_[Len(buf'.queue_)].size_, heads',
                                 \/ buf.curTarget_ = NULL
                                 \/ buf.curTarget_.offset_ = 0))
      /\ heads' = IF Reads(buf, data) THEN heads + 1 ELSE heads
  BY DEF PutDataLoop, Reads, ReadsLength
<1>2. /\ kept \in Seq(Entry) /\ buf.queue_ \in Seq(Message) /\ popped \in Nat
      /\ buf.written_ \in Nat /\ BufferOK(buf) /\ sent \in Seq(Seq(Byte))
      /\ data \in Seq(Byte) /\ wire \in Seq(Byte) /\ heads \in Nat /\ torn \in BOOLEAN
      /\ Totals(kept) /\ Fifo(kept, buf.queue_, popped, buf.written_)
      /\ mode = "receive"
  BY <1>1, FieldTypes DEF Inv, TypeOK, ModeOK
<1> DEFINE c     == buf'
           h2    == heads'
           k2    == kept'
           whole == \/ buf.curTarget_ = NULL
                    \/ buf.curTarget_.offset_ = 0
<1>3. h2 \in Nat
  BY <1>1, <1>2
<1>4. \A m \in Message :
        c.queue_ = Append(buf.queue_, m) =>
          k2 = Append(kept, EntryFor(m.size_, h2, whole))
  <2> SUFFICES ASSUME NEW m \in Message, c.queue_ = Append(buf.queue_, m)
               PROVE  k2 = Append(kept, EntryFor(m.size_, h2, whole))
    OBVIOUS
  <2>1. Len(c.queue_) = Len(buf.queue_) + 1 /\ c.queue_[Len(c.queue_)] = m
    BY <1>2, AppendProperties
  <2>2. Len(c.queue_) # Len(buf.queue_)
    BY <1>2, <2>1, LenProperties
  <2> QED
    BY <1>1, <2>1, <2>2
<1>5. \A m \in Message :
        LET e == EntryFor(m.size_, h2, whole)
        IN  /\ e \in Entry /\ e.size = m.size_ /\ e.upto = TotalAt(kept, Len(kept)) + e.size
            /\ e.frame = h2 /\ e.whole = whole
  <2> SUFFICES ASSUME NEW m \in Message
               PROVE  LET e == EntryFor(m.size_, h2, whole)
                      IN  /\ e \in Entry /\ e.size = m.size_
                          /\ e.upto = TotalAt(kept, Len(kept)) + e.size
                          /\ e.frame = h2 /\ e.whole = whole
    OBVIOUS
  <2>1. m.size_ \in Nat /\ whole \in BOOLEAN
    BY DEF Message
  <2> HIDE DEF whole
  <2>2. EntryFor(m.size_, h2, whole).frame = h2 /\ EntryFor(m.size_, h2, whole).whole = whole
    BY DEF EntryFor
  <2> QED
    BY <1>3, <2>1, <2>2, EntryForOK
<1> HIDE DEF c, h2, k2, whole
<1>6. Queued(buf, c, kept, k2)
  <2>1. c.queue_ = buf.queue_ => k2 = kept
    BY <1>1 DEF c, k2
  <2> QED
    BY <1>4, <1>5, <2>1 DEF Queued
<1>7. /\ StreamOK(c, data', wire, sent, h2, k2, torn)
      /\ ~torn => Moves(buf, c, sent, heads, h2)
  <2>1. StreamOK(buf, data, wire, sent, heads, kept, torn)
    BY <1>2 DEF FollowInv
  <2>2. c = PutDataTurn(buf, data).buf
    BY <1>1 DEF c
  <2>3. h2 = IF Reads(buf, data) THEN heads + 1 ELSE heads
    BY <1>1 DEF h2
  <2>4. /\ BufferOK(buf) /\ data \in Seq(Byte) /\ data # <<>> /\ wire \in Seq(Byte)
        /\ heads \in Nat /\ kept \in Seq(Entry) /\ torn \in BOOLEAN /\ popped \in Nat
        /\ Totals(kept) /\ Fifo(kept, buf.queue_, popped, buf.written_)
    BY <1>2, <1>1
  <2>5. data' = PutDataTurn(buf, data).rest
    BY <1>1
  <2> QED
    BY ONLY <1>6, <2>1, <2>2, <2>3, <2>4, <2>5, StreamTurn
<1>8. ~torn => FramesOK(k2, sent, got, c.queue_, popped, mode, Past(c, h2))
  <2> SUFFICES ASSUME ~torn
               PROVE  FramesOK(k2, sent, got, c.queue_, popped, mode, Past(c, h2))
    OBVIOUS
  <2>1. Past(buf, heads) \in Nat
    BY <1>2, PastIsNat
  <2>2. FramesOK(kept, sent, got, buf.queue_, popped, mode, Past(buf, heads))
    BY <1>2 DEF FollowInv, Taken
  <2>3. CASE c.queue_ = buf.queue_ /\ Past(buf, heads) <= Past(c, h2)
    <3>1. k2 = kept
      BY <1>6, <2>3 DEF Queued
    <3>2. Past(c, h2) \in Int
      BY <1>3 DEF Past
    <3>3. Past(c, h2) \in Nat
      BY <2>1, <2>3, <3>2
    <3> QED
      BY <1>2, <2>1, <2>2, <2>3, <3>1, <3>3, FramesRaised
  <2>4. CASE /\ Completed(buf, c, sent, h2) /\ Past(buf, heads) < h2
             /\ h2 \in 1 .. Len(sent)
    <3>1. PICK m \in Message : /\ c.queue_ = Append(buf.queue_, m)
                               /\ m.size_ = Len(sent[h2])
                               /\ whole => m.body = sent[h2]
      BY <2>4, Zenon DEF Completed, whole
    <3> DEFINE e == EntryFor(m.size_, h2, whole)
    <3>2. k2 = Append(kept, e)
      BY <1>4, <3>1
    <3>3. e \in Entry /\ e.size = m.size_ /\ e.frame = h2 /\ e.whole = whole
      BY <1>5
    <3> HIDE DEF e
    <3>4. Past(c, h2) = h2
      BY <2>4 DEF Completed, Past
    <3>5. e.whole => m.body = sent[e.frame]
      BY <3>1, <3>3, Zenon
    <3>6. /\ e.frame \in 1 .. Len(sent) /\ Past(buf, heads) < e.frame
          /\ e.frame <= Past(c, h2) /\ e.size = Len(sent[e.frame])
          /\ Past(buf, heads) <= Past(c, h2) /\ Past(c, h2) \in Int
      BY <1>3, <2>1, <2>4, <3>1, <3>3, <3>4
    <3>7. Len(kept) = popped + Len(buf.queue_)
      BY <1>2 DEF Fifo
    <3> DEFINE q == buf.queue_
               top == Past(buf, heads)
               top2 == Past(c, h2)
    <3>a. /\ kept \in Seq(Entry) /\ q \in Seq(Message) /\ popped \in Nat
          /\ top \in Int /\ top2 \in Int /\ e \in Entry /\ m \in Message
      BY <1>2, <2>1, <3>3, <3>6
    <3>b. /\ FramesOK(kept, sent, got, q, popped, mode, top)
          /\ Len(kept) = popped + Len(q) /\ top <= top2
      BY <2>2, <3>6, <3>7
    <3>c. /\ e.frame \in 1 .. Len(sent) /\ top < e.frame /\ e.frame <= top2
          /\ e.size = Len(sent[e.frame]) /\ (e.whole => m.body = sent[e.frame])
      BY <3>5, <3>6
    <3> HIDE DEF q, top, top2
    <3>d. FramesOK(Append(kept, e), sent, got, Append(q, m), popped, mode, top2)
      BY ONLY <3>a, <3>b, <3>c, FramesQueued
    <3>8. FramesOK(Append(kept, e), sent, got, Append(buf.queue_, m), popped, mode, Past(c, h2))
      BY <3>d DEF q, top2
    <3> QED
      BY <3>1, <3>2, <3>8
  <2> QED
    BY <1>7, <2>3, <2>4 DEF Moves
<1>9. StreamOK(buf, data, wire, sent, heads, kept, torn)'
  BY <1>1, <1>7 DEF c, h2, k2
<1>10. (~torn => FramesOK(kept, sent, got, buf.queue_, popped, mode,
                          Taken(mode, buf, heads, sent)))'
  BY <1>1, <1>2, <1>8 DEF c, h2, k2, Taken
<1> QED
  BY <1>1, <1>2, <1>9, <1>10 DEF FollowInv

LEMMA PutMessageCallFollows ==
  ASSUME Inv, FollowInv, NEW n \in Sizes, PutMessageCall(n)
  PROVE  FollowInv'
<1> DEFINE body == Body(Len(sent) + 1, n)
           m    == [size_ |-> Len(body), offset_ |-> 0, body |-> body]
           e    == EntryFor(n, Len(sent) + 1, TRUE)
           W2   == Append(sent, body)
<1>1. /\ sent \in Seq(Seq(Byte)) /\ Len(sent) + 1 \in Nat /\ Len(sent) \in Nat
      /\ kept \in Seq(Entry) /\ buf.queue_ \in Seq(Message) /\ popped \in Nat
      /\ buf.written_ \in Nat /\ BufferOK(buf)
      /\ Totals(kept) /\ Fifo(kept, buf.queue_, popped, buf.written_)
  BY FieldTypes, LenProperties DEF Inv, TypeOK
<1>2. body \in Seq(Byte) /\ Len(body) = n /\ n \in Nat
  BY <1>1, BodyOK
<1>3. /\ sent' = W2 /\ Len(W2) = Len(sent) + 1 /\ W2[Len(sent) + 1] = body
      /\ W2 \in Seq(Seq(Byte))
  BY <1>1, <1>2, AppendProperties DEF PutMessageCall
<1>4. /\ buf' = PutMessage(buf, body) /\ kept' = Append(kept, e)
      /\ UNCHANGED <<mode, data, room, wire, heads, got, out, popped, torn>>
      /\ mode # "receive" /\ Fits(buf, n)
  BY <1>3 DEF PutMessageCall, call
<1>5. e \in Entry /\ e.size = n /\ e.upto = TotalAt(kept, Len(kept)) + e.size
  BY <1>1, <1>2, EntryForOK
<1>6. e.frame = Len(sent) + 1
  BY DEF EntryFor
<1>7. m.body = body /\ m.offset_ = 0 /\ m.size_ = n
  BY <1>2
<1> HIDE DEF body, e, W2
<1>8. m \in Message /\ buf'.queue_ = Append(buf.queue_, m)
  BY <1>1, <1>2, <1>4, PutMessageOK DEF Inv, ModeOK
<1> HIDE DEF m
<1>9. ~torn /\ Len(kept) = Len(sent) /\ \A i \in 1 .. Len(kept) : kept[i].frame = i
  BY <1>4 DEF FollowInv
<1>10. FramesOK(kept, sent, got, buf.queue_, popped, mode, Len(sent))
  BY <1>4, <1>9 DEF FollowInv, Taken
<1>11. FramesOK(kept, W2, got, buf.queue_, popped, mode, Len(sent))
  <2>1. Len(sent) \in Int /\ Len(sent) <= Len(sent)
    BY <1>1
  <2> QED
    BY <1>1, <1>2, <1>10, <2>1, FramesSent DEF W2
<1>12. FramesOK(Append(kept, e), W2, got, Append(buf.queue_, m), popped, mode, Len(W2))
  <2>1. /\ e.frame \in 1 .. Len(W2) /\ Len(sent) < e.frame /\ e.frame <= Len(W2)
        /\ e.size = Len(W2[e.frame]) /\ Len(sent) <= Len(W2)
        /\ Len(sent) \in Int /\ Len(W2) \in Int
    BY <1>1, <1>2, <1>3, <1>5, <1>6
  <2>2. e.whole => m.body = W2[e.frame]
    BY <1>3, <1>6, <1>7, Zenon
  <2>3. Len(kept) = popped + Len(buf.queue_)
    BY <1>1 DEF Fifo
  <2> QED
    BY <1>1, <1>5, <1>8, <1>11, <2>1, <2>2, <2>3, FramesQueued
<1>13. ~torn' /\ Len(kept') = Len(sent') /\ \A i \in 1 .. Len(kept') : kept'[i].frame = i
  <2>1. /\ Len(kept') = Len(kept) + 1 /\ kept'[Len(kept) + 1] = e /\ Len(kept) \in Nat
        /\ \A i \in 1 .. Len(kept) : kept'[i] = kept[i]
    BY <1>1, <1>4, <1>5, AppendProperties
  <2>2. Len(kept') = Len(sent')
    BY <1>3, <1>9, <2>1
  <2>3. \A i \in 1 .. Len(kept') : kept'[i].frame = i
    <3> SUFFICES ASSUME NEW i \in 1 .. Len(kept') PROVE kept'[i].frame = i
      OBVIOUS
    <3>1. CASE i \in 1 .. Len(kept)
      BY <1>9, <2>1, <3>1
    <3>2. CASE i = Len(kept) + 1
      BY <1>6, <1>9, <2>1, <3>2
    <3> QED
      BY <2>1, <3>1, <3>2
  <2> QED
    BY <1>4, <1>9, <2>2, <2>3
<1>14. mode = "send" => /\ Rising(Append(kept, e))
                        /\ OutOK(out, Append(kept, e), Append(buf.queue_, m), popped, W2)
  <2> SUFFICES ASSUME mode = "send"
               PROVE  /\ Rising(Append(kept, e))
                      /\ OutOK(out, Append(kept, e), Append(buf.queue_, m), popped, W2)
    OBVIOUS
  <2>1. Rising(kept) /\ OutOK(out, kept, buf.queue_, popped, sent)
    BY DEF FollowInv
  <2>2. buf.queue_ # <<>> => MessageOK(buf.queue_[1])
    <3>1. buf.queue_ # <<>> => 1 \in 1 .. Len(buf.queue_)
      BY <1>1, NonEmpty
    <3> QED
      BY <1>1, <3>1, LenProperties DEF BufferOK
  <2>3. popped <= Len(sent)
    <3>1. Len(buf.queue_) \in Nat /\ Len(kept) = popped + Len(buf.queue_)
      BY <1>1, LenProperties DEF Fifo
    <3> QED
      BY <1>1, <1>9, <3>1
  <2> QED
    BY <1>1, <1>2, <1>5, <1>7, <1>8, <2>1, <2>2, <2>3, OutQueued DEF W2
<1>15. (~torn => FramesOK(kept, sent, got, buf.queue_, popped, mode,
                          Taken(mode, buf, heads, sent)))'
  BY <1>3, <1>4, <1>8, <1>12 DEF Taken
<1>16. (mode = "send" => Rising(kept) /\ OutOK(out, kept, buf.queue_, popped, sent))'
  BY <1>3, <1>4, <1>8, <1>14
<1> QED
  BY <1>4, <1>13, <1>15, <1>16 DEF FollowInv

LEMMA GetDataLoopFollows ==
  ASSUME Inv, FollowInv, GetDataLoop
  PROVE  FollowInv'
<1> DEFINE t == GetDataTurn(buf, room)
           q == buf.queue_
           q2 == buf'.queue_
<1>1. /\ room >= 3 /\ buf' = t.buf /\ out' = out \o t.bytes
      /\ popped' = IF Len(q2) < Len(q) THEN popped + 1 ELSE popped
      /\ kept' = IF Len(q2) < Len(q) THEN kept
                 ELSE [kept EXCEPT ![popped + 1].whole = FALSE]
      /\ UNCHANGED <<mode, data, wire, sent, heads, got, torn>>
  BY DEF GetDataLoop
<1>2. /\ kept \in Seq(Entry) /\ q \in Seq(Message) /\ popped \in Nat
      /\ buf.written_ \in Nat /\ BufferOK(buf) /\ room \in Nat /\ out \in Seq(Cell)
      /\ sent \in Seq(Seq(Byte))
      /\ Totals(kept) /\ Fifo(kept, q, popped, buf.written_)
  BY FieldTypes DEF Inv, TypeOK
<1>3. mode = "send" /\ q # <<>>
  BY <1>1, <1>2 DEF Inv, ModeOK
<1>4. buf.written_ - Head(q).size_ \in Nat
  BY <1>2, <1>3, PoppedKeepsHistory
<1>5. BufferOK(t.buf)
  BY <1>1, <1>2, <1>3, <1>4, GetDataTurnOK
<1> DEFINE bytes == t.bytes
<1>6. PICK n \in Nat : TurnWrites(q, q2, bytes, n)
  BY <1>1, <1>2, <1>3, <1>4, GetDataTurnIs
<1>7. q2 \in Seq(Message)
  BY <1>1, <1>5, FieldTypes
<1>8. out' = out \o bytes
  BY <1>1
<1> HIDE DEF t, bytes
<1>9. /\ ~torn /\ Len(kept) = Len(sent) /\ \A i \in 1 .. Len(kept) : kept[i].frame = i
      /\ Rising(kept) /\ OutOK(out, kept, q, popped, sent)
      /\ FramesOK(kept, sent, got, q, popped, "send", Len(sent))
  BY <1>3 DEF FollowInv, Taken
<1>10. /\ Len(q) \in Nat /\ Len(q) >= 1 /\ Len(Tail(q)) = Len(q) - 1
       /\ Len(kept) \in Nat /\ Len(kept) = popped + Len(q) /\ popped + 1 \in 1 .. Len(kept)
  <2>1. Len(q) \in Nat /\ Len(q) >= 1 /\ Len(Tail(q)) = Len(q) - 1
    BY <1>2, <1>3, NonEmpty
  <2>2. Len(kept) \in Nat /\ Len(kept) = popped + Len(q)
    BY <1>2, LenProperties DEF Fifo
  <2> QED
    BY <1>2, <2>1, <2>2
<1>11. MessageOK(q[1])
  BY <1>2, <1>10 DEF BufferOK
<1> HIDE DEF q, q2
<1>12. kept[popped + 1].whole => q[1].body = sent[popped + 1]
  <2> DEFINE i == popped + 1
  <2>1. i \in 1 .. Len(kept) /\ i > popped /\ i - popped = 1 /\ ~(i <= popped)
    BY <1>2, <1>10
  <2> HIDE DEF i
  <2>2. kept[i].whole => BodyIn(got, q, popped, i) = sent[kept[i].frame]
    BY <1>9, <2>1, Zenon DEF FramesOK
  <2>3. BodyIn(got, q, popped, i) = q[1].body /\ kept[i].frame = i
    BY <1>9, <2>1 DEF BodyIn
  <2> QED
    BY <2>2, <2>3, Zenon DEF i
<1>13. CASE q[1].offset_ + n = q[1].size_ /\ q2 = Tail(q)
  <2>1. Len(q2) < Len(q)
    BY <1>10, <1>13
  <2>2. popped' = popped + 1 /\ kept' = kept
    BY <1>1, <2>1 DEF q, q2
  <2>3. OutOK(out \o bytes, kept, Tail(q), popped + 1, sent)
    BY <1>2, <1>3, <1>6, <1>9, <1>11, <1>12, <1>13, OutTaken DEF q
  <2>4. FramesOK(kept, sent, got, Tail(q), popped + 1, "send", Len(sent))
    BY <1>2, <1>3, <1>9, <1>10, FramesGiven DEF q
  <2>5. buf'.queue_ = Tail(q)
    BY <1>13 DEF q2
  <2>6. FramesOK(kept, sent, got, buf.queue_, popped, mode, Taken(mode, buf, heads, sent))'
    BY <1>1, <1>3, <2>2, <2>4, <2>5 DEF Taken
  <2>7. (Rising(kept) /\ OutOK(out, kept, buf.queue_, popped, sent))'
    BY <1>1, <1>8, <1>9, <2>2, <2>3, <2>5
  <2> QED
    BY <1>1, <1>3, <1>9, <2>2, <2>6, <2>7 DEF FollowInv
<1>14. CASE /\ q[1].offset_ + n < q[1].size_ /\ Len(q2) = Len(q)
            /\ \A i \in 2 .. Len(q) : q2[i] = q[i]
  <2> DEFINE e  == [kept[popped + 1] EXCEPT !.whole = FALSE]
             k2 == [kept EXCEPT ![popped + 1] = e]
  <2>1. popped' = popped /\ kept' = k2
    BY <1>1, <1>10, <1>14 DEF q, q2
  <2>2. kept[popped + 1] \in Entry
    BY <1>2, <1>10, ElementOfSeq
  <2>3. /\ e \in Entry /\ e.size = kept[popped + 1].size
        /\ e.upto = kept[popped + 1].upto /\ e.frame = kept[popped + 1].frame
    BY <2>2 DEF Entry
  <2>4. ~e.whole
    BY <2>2 DEF Entry
  <2> HIDE DEF e
  <2>5. /\ k2 \in Seq(Entry) /\ Len(k2) = Len(kept) /\ k2[popped + 1] = e
        /\ \A j \in 1 .. Len(kept) : k2[j] = IF j = popped + 1 THEN e ELSE kept[j]
    BY <1>2, <1>10, <2>3, ExceptSeq
  <2> HIDE DEF k2
  <2>6. /\ \A i \in 1 .. Len(kept) : k2[i].size = kept[i].size /\ k2[i].upto = kept[i].upto
        /\ \A i \in 1 .. Len(kept) : k2[i].frame = kept[i].frame
        /\ \A i \in 1 .. Len(kept) : i # popped + 1 => k2[i] = kept[i]
    BY <2>3, <2>5
  <2>7. ~k2[popped + 1].whole
    BY <2>4, <2>5, Zenon
  <2>8. Torn(kept, k2, popped)
    BY <2>5, <2>6, <2>7, Zenon DEF Torn, SameEntries
  <2>9. q[1].offset_ + n # q[1].size_
    <3>1. q[1].offset_ \in Nat /\ q[1].size_ \in Nat
      <4>1. q[1] \in Message
        BY <1>2, <1>10, ElementOfSeq DEF q
      <4> QED
        BY <4>1 DEF Message
    <3> QED
      BY <1>14, <3>1
  <2>10. Rising(k2) /\ OutOK(out \o bytes, k2, q2, popped, sent)
    BY <1>2, <1>3, <1>6, <1>7, <1>9, <1>11, <1>12, <2>8, <2>9, OutPartly DEF q, q2
  <2>11. FramesOK(k2, sent, got, q2, popped, "send", Len(sent))
    BY <1>2, <1>3, <1>9, <1>10, <1>14, <2>8, FramesTorn DEF q
  <2>12. FramesOK(kept, sent, got, buf.queue_, popped, mode, Taken(mode, buf, heads, sent))'
    BY <1>1, <1>3, <2>1, <2>11 DEF Taken, q2
  <2>13. (Rising(kept) /\ OutOK(out, kept, buf.queue_, popped, sent))'
    BY <1>1, <1>8, <2>1, <2>10 DEF q2
  <2>14. ~torn' /\ Len(kept') = Len(sent') /\ \A i \in 1 .. Len(kept') : kept'[i].frame = i
    BY <1>1, <1>9, <2>1, <2>5, <2>6
  <2> QED
    BY <1>1, <1>3, <2>12, <2>13, <2>14 DEF FollowInv
<1> QED
  BY <1>6, <1>13, <1>14 DEF TurnWrites

LEMMA FollowInvariance == Spec => []FollowInv
<1>1. Inv /\ FollowInv /\ [Next]_vars => FollowInv'
  <2> SUFFICES ASSUME Inv, FollowInv, [Next]_vars PROVE FollowInv'
    OBVIOUS
  <2>1. ASSUME NEW n \in Sizes, PeerSends(n) PROVE FollowInv'
    BY <2>1, PeerSendsFollows
  <2>2. ASSUME NEW n \in Sizes, PutMessageCall(n) PROVE FollowInv'
    BY <2>2, PutMessageCallFollows
  <2>3. ASSUME NEW n \in 1 .. Len(wire), PutDataCall(n) PROVE FollowInv'
    BY <2>3, PutDataCallFollows
  <2>4. ASSUME NEW mSize \in Rooms, GetMessageCall(mSize) PROVE FollowInv'
    BY <2>4, GetMessageCallFollows
  <2>5. ASSUME NEW mSize \in Rooms, GetDataCall(mSize) PROVE FollowInv'
    BY <2>5, GetDataCallFollows
  <2>6. CASE PutDataLoop
    BY <2>6, PutDataLoopFollows
  <2>7. CASE GetDataLoop
    BY <2>7, GetDataLoopFollows
  <2>8. CASE UNCHANGED vars
    BY <2>8 DEF vars, FollowInv
  <2> QED
    BY <2>1, <2>2, <2>3, <2>4, <2>5, <2>6, <2>7, <2>8 DEF Next
<1> QED
  BY <1>1, InitFollows, Invariance, PTL DEF Spec

LEMMA InvGivesFrames == Inv /\ FollowInv => FramesFollowed
<1> SUFFICES ASSUME Inv, FollowInv, ~torn
             PROVE  /\ SizesAgree
                    /\ \A i \in DOMAIN kept :
                         (kept[i].whole /\ (mode = "send" => i > popped)) =>
                            BodyAt(i) = sent[kept[i].frame]
  BY DEF FramesFollowed
<1> DEFINE top == Taken(mode, buf, heads, sent)
<1>1. FramesOK(kept, sent, got, buf.queue_, popped, mode, top)
  BY DEF FollowInv
<1> HIDE DEF top
<1>2. /\ DOMAIN kept = 1 .. Len(kept) /\ DOMAIN sent = 1 .. Len(sent)
  BY LenProperties DEF Inv, TypeOK
<1>3. SizesAgree
  BY <1>1, <1>2 DEF FramesOK, SizesAgree
<1>4. ASSUME NEW i \in DOMAIN kept, kept[i].whole, mode = "send" => i > popped
      PROVE  BodyAt(i) = sent[kept[i].frame]
  <2>1. BodyIn(got, buf.queue_, popped, i) = sent[kept[i].frame]
    BY <1>1, <1>2, <1>4, Zenon DEF FramesOK
  <2> QED
    BY <2>1 DEF BodyIn, BodyAt
<1> QED
  BY <1>3, <1>4, Zenon

LEMMA SliceIs ==
  ASSUME NEW T, NEW s \in Seq(T), NEW v \in Seq(T), NEW a \in Nat, a + Len(v) <= Len(s),
         \A j \in 1 .. Len(v) : s[a + j] = v[j]
  PROVE  SubSeq(s, a + 1, a + Len(v)) = v
<1> DEFINE n == Len(v)
           d == SubSeq(s, a + 1, a + n)
<1>1. n \in Nat /\ Len(s) \in Nat
  BY LenProperties
<1>2. \A i \in a + 1 .. a + n : s[i] \in T
  BY <1>1, ElementOfSeq
<1>3. /\ d \in Seq(T) /\ Len(d) = IF a + 1 <= a + n THEN a + n - (a + 1) + 1 ELSE 0
      /\ \A i \in 1 .. a + n - (a + 1) + 1 : d[i] = s[a + 1 + i - 1]
  BY <1>1, <1>2, SubSeqProperties
<1> HIDE DEF n, d
<1>4. Len(d) = n
  BY <1>1, <1>3
<1>5. \A i \in 1 .. n : d[i] = v[i]
  <2> SUFFICES ASSUME NEW i \in 1 .. n PROVE d[i] = v[i]
    OBVIOUS
  <2>1. i \in 1 .. a + n - (a + 1) + 1 /\ a + 1 + i - 1 = a + i
    BY <1>1
  <2> QED
    BY <1>3, <2>1 DEF n
<1>6. d = v
  BY <1>3, <1>4, <1>5, SeqEqual DEF n
<1> QED
  BY <1>6 DEF d, n

LEMMA InvGivesOutput == Inv /\ FollowInv => OutputFramed
<1> SUFFICES ASSUME Inv, FollowInv, mode = "send" PROVE OutputFramed
  BY DEF OutputFramed
<1> DEFINE q == buf.queue_
<1>1. /\ kept \in Seq(Entry) /\ q \in Seq(Message) /\ popped \in Nat
      /\ buf.written_ \in Nat /\ BufferOK(buf) /\ out \in Seq(Cell) /\ Len(out) \in Nat
      /\ sent \in Seq(Seq(Byte)) /\ Totals(kept) /\ Fifo(kept, q, popped, buf.written_)
  BY FieldTypes, LenProperties DEF Inv, TypeOK
<1>2. /\ Rising(kept) /\ OutOK(out, kept, q, popped, sent)
      /\ ~torn /\ Len(kept) = Len(sent) /\ \A i \in 1 .. Len(kept) : kept[i].frame = i
      /\ FramesOK(kept, sent, got, q, popped, "send", Len(sent))
  BY DEF FollowInv, Taken
<1>3. /\ Len(kept) \in Nat /\ DOMAIN kept = 1 .. Len(kept)
      /\ \A i \in 0 .. Len(kept) : EndAt(kept, i) \in Nat
      /\ \A i, j \in 0 .. Len(kept) : i <= j => EndAt(kept, i) <= EndAt(kept, j)
      /\ \A i \in 1 .. Len(kept) : /\ EndAt(kept, i) = EndAt(kept, i - 1) + 2 + kept[i].size
                                   /\ kept[i].size \in Nat
  BY <1>1, <1>2, Ends, LenProperties
<1>4. \A i : FrameEnd(i) = EndAt(kept, i)
  BY DEF FrameEnd, EndAt, Upto, TotalAt
<1>5. q # <<>> => MessageOK(q[1]) /\ q[1].offset_ \in Nat /\ Head(q) = q[1]
  <2>1. q # <<>> => 1 \in 1 .. Len(q) /\ Head(q) = q[1] /\ q[1] \in Message
    BY <1>1, NonEmpty
  <2> QED
    BY <1>1, <2>1, LenProperties DEF BufferOK, Message
<1>6. /\ EndAt(kept, popped) <= Len(out) /\ popped \in 0 .. Len(kept)
      /\ Len(out) = EndAt(kept, popped) + Begun(q)
  BY <1>1, <1>2, <1>5, OutUntil DEF OutOK
<1>7. Len(out) = FrameEnd(popped)
         + (IF buf.queue_ # <<>> /\ Head(buf.queue_).offset_ > 0
            THEN 2 + Head(buf.queue_).offset_ ELSE 0)
  <2>1. Begun(q) = IF q # <<>> /\ Head(q).offset_ > 0 THEN 2 + Head(q).offset_ ELSE 0
    BY <1>5 DEF Begun
  <2> QED
    BY <1>4, <1>6, <2>1
<1>8. ASSUME NEW i \in DOMAIN kept, FrameEnd(i - 1) + 2 <= Len(out)
      PROVE  SubSeq(out, FrameEnd(i - 1) + 1, FrameEnd(i - 1) + 2) = HeaderOf(kept[i].size)
  <2> DEFINE v == HeaderOf(kept[i].size)
             a == EndAt(kept, i - 1)
             T == Cell \cup Nat
  <2>1. i \in 1 .. Len(kept) /\ i - 1 \in 0 .. Len(kept)
    BY <1>3, <1>8
  <2>2. a \in Nat /\ kept[i].size \in Nat /\ FrameEnd(i - 1) = a
    BY <1>3, <1>4, <2>1
  <2>3. v \in Seq(Nat) /\ Len(v) = 2
    BY <2>2, BufferAssumption DEF HeaderOf
  <2>4. out[a + 1] = v[1] /\ out[a + 2] = v[2]
    BY <1>2, <1>8, <2>1, <2>2 DEF OutOK, HeadersOut
  <2>5. out \in Seq(T) /\ v \in Seq(T)
    BY <1>1, <2>3, SeqMonotonic
  <2> HIDE DEF v, a, T
  <2>6. a + Len(v) <= Len(out) /\ a + 2 <= Len(out)
    BY <1>8, <2>2, <2>3
  <2>7. \A j \in 1 .. Len(v) : out[a + j] = v[j]
    BY <2>3, <2>4
  <2>8. SubSeq(out, a + 1, a + Len(v)) = v
    BY <2>2, <2>5, <2>6, <2>7, SliceIs
  <2> QED
    BY <2>2, <2>3, <2>8 DEF v
<1>9. ASSUME NEW i \in 1 .. popped, kept[i].whole
      PROVE  SubSeq(out, FrameEnd(i - 1) + 3, FrameEnd(i)) = sent[i]
  <2> DEFINE a == EndAt(kept, i - 1)
             v == sent[i]
  <2>1. i \in 1 .. Len(kept) /\ i - 1 \in 0 .. Len(kept) /\ i \in 0 .. Len(kept)
        /\ i <= popped
    BY <1>1, <1>3, <1>6
  <2>2. /\ a \in Nat /\ EndAt(kept, i) = a + 2 + kept[i].size /\ kept[i].size \in Nat
        /\ EndAt(kept, i) <= EndAt(kept, popped)
    BY <1>3, <1>6, <2>1
  <2>3. kept[i].size = Len(v) /\ v \in Seq(Byte)
    <3>1. kept[i].size = Len(sent[kept[i].frame]) /\ kept[i].frame = i
      BY <1>2, <2>1 DEF FramesOK
    <3> QED
      BY <1>1, <1>2, <2>1, <3>1, ElementOfSeq
  <2>4. \A j \in 1 .. kept[i].size : out[a + 2 + j] = v[j]
    BY <1>2, <1>9, Zenon DEF OutOK, BodiesOut
  <2>5. v \in Seq(Cell)
    BY <2>3, SeqMonotonic DEF Cell
  <2> HIDE DEF a, v
  <2>6. a + 2 \in Nat /\ a + 2 + Len(v) <= Len(out) /\ EndAt(kept, i) = a + 2 + Len(v)
    <3>1. EndAt(kept, popped) \in Nat
      BY <1>3, <1>6
    <3> QED
      BY <1>1, <1>6, <2>2, <2>3, <3>1
  <2>7. \A j \in 1 .. Len(v) : out[a + 2 + j] = v[j]
    BY <2>3, <2>4
  <2>8. SubSeq(out, a + 2 + 1, a + 2 + Len(v)) = v
    BY <1>1, <2>5, <2>6, <2>7, SliceIs
  <2>9. FrameEnd(i - 1) + 3 = a + 2 + 1 /\ FrameEnd(i) = a + 2 + Len(v)
    BY <1>4, <2>2, <2>6 DEF a
  <2> QED
    BY <2>8, <2>9 DEF v
<1> QED
  BY <1>7, <1>8, <1>9, Zenon DEF OutputFramed

\* Whatever fragments the bytes of a peer arrive in, and as long as no refused
\* frame reaches over the end of a put_data call, every message queued is one of
\* the frames sent, in order, of the right length, and with its bytes if it came
\* in one piece: what is not used of a call's bytes, and of the wire, is always
\* the rest of one stream of frames, and the buffer stands at a place of it that
\* its fields tell.
THEOREM FramesFollowedHolds == Spec => []FramesFollowed
  BY Invariance, FollowInvariance, InvGivesFrames, PTL

\* Whatever room get_data is given, what it returns over all calls is the frames
\* of the messages in order with nothing between them, and a message that fitted
\* in one call has its bytes.
THEOREM OutputFramedHolds == Spec => []OutputFramed
  BY Invariance, FollowInvariance, InvGivesOutput, PTL

(* Induction over numbers: a property is the set of numbers that have it. *)

Below == {p \in Nat \X Nat : p[1] < p[2]}

LEMMA BelowWellFounded == IsWellFoundedOn(Below, Nat)
  BY NatLessThanWellFounded DEF Below, OpToRel

LEMMA Least ==
  ASSUME NEW T, T \subseteq Nat, T # {}
  PROVE  \E m \in T : \A k \in T : m <= k
<1>1. PICK m \in T : \A k \in T : <<k, m>> \notin Below
  BY BelowWellFounded, WFMin
<1>2. ASSUME NEW k \in T PROVE m <= k
  <2>1. <<k, m>> \in Nat \X Nat /\ <<k, m>> \notin Below
    BY <1>1
  <2>2. ~(k < m)
    BY <2>1 DEF Below
  <2> QED
    BY <2>2
<1> QED BY <1>2

LEMMA Induction ==
  ASSUME NEW T, 0 \in T, \A n \in Nat : n \in T => n + 1 \in T
  PROVE  \A n \in Nat : n \in T
<1> SUFFICES ASSUME Nat \ T # {} PROVE FALSE
  OBVIOUS
<1>1. PICK m \in Nat \ T : \A k \in Nat \ T : m <= k
  BY Least
<1>2. m - 1 \in T
  BY <1>1
<1> QED
  BY <1>1, <1>2

LEMMA TotalSentIs ==
  ASSUME NEW S, NEW off, IsStream(S, off, sent)
  PROVE  TotalSent = off[Len(sent)] - 2 * Len(sent)
<1> DEFINE N == Len(sent)
           IsTotal(f) == f = [n \in 0 .. N |-> IF n = 0 THEN 0 ELSE f[n - 1] + Len(sent[n])]
           total == CHOOSE f : IsTotal(f)
           g == [n \in 0 .. N |-> off[n] - 2 * n]
<1>1. /\ N \in Nat /\ off[0] = 0
      /\ \A n \in 1 .. N : /\ off[n] = off[n - 1] + 2 + Len(sent[n])
                           /\ off[n] \in Nat /\ off[n - 1] \in Nat /\ Len(sent[n]) \in Nat
  <2>1. N \in Nat /\ off[0] = 0
    BY LenProperties DEF IsStream
  <2>2. ASSUME NEW n \in 1 .. N
        PROVE  /\ off[n] = off[n - 1] + 2 + Len(sent[n])
               /\ off[n] \in Nat /\ off[n - 1] \in Nat /\ Len(sent[n]) \in Nat
    BY FrameAt
  <2> QED
    BY <2>1, <2>2
<1>2. IsTotal(g)
  <2>1. ASSUME NEW n \in 1 .. N PROVE g[n] = g[n - 1] + Len(sent[n])
    <3>1. /\ off[n] = off[n - 1] + 2 + Len(sent[n]) /\ off[n - 1] \in Nat
          /\ Len(sent[n]) \in Nat
      BY <1>1
    <3>2. n \in Nat /\ n \in 0 .. N /\ n - 1 \in 0 .. N
      BY <1>1
    <3>3. \A x, u, k \in Nat : x + 2 + u - 2 * k = x - 2 * (k - 1) + u
      OBVIOUS
    <3>4. g[n] = off[n] - 2 * n /\ g[n - 1] = off[n - 1] - 2 * (n - 1)
      BY <3>2
    <3> DEFINE x == off[n - 1]
               u == Len(sent[n])
    <3>5. x \in Nat /\ u \in Nat /\ off[n] = x + 2 + u
      BY <3>1
    <3> HIDE DEF x, u, g
    <3>6. x + 2 + u - 2 * n = x - 2 * (n - 1) + u
      BY <3>2, <3>3, <3>5
    <3> QED
      BY <3>4, <3>5, <3>6 DEF x, u
  <2>2. g[0] = 0
    BY <1>1
  <2>3. g = [n \in 0 .. N |-> g[n]]
    OBVIOUS
  <2>4. \A n \in 0 .. N : n # 0 => n \in 1 .. N
    BY <1>1
  <2>5. \A n \in 0 .. N : g[n] = IF n = 0 THEN 0 ELSE g[n - 1] + Len(sent[n])
    BY <2>1, <2>2, <2>4
  <2> HIDE DEF g
  <2> QED
    BY <2>3, <2>5
<1>3. IsTotal(total)
  <2>1. \E f : IsTotal(f)
    BY <1>2
  <2> HIDE DEF IsTotal
  <2> QED
    BY <2>1
<1>4. TotalSent = total[N]
  BY DEF TotalSent
<1> HIDE DEF total, g
<1>5. /\ total[0] = 0 /\ \A n \in 1 .. N : total[n] = total[n - 1] + Len(sent[n])
  <2>1. 0 \in 0 .. N /\ \A n \in 1 .. N : n \in 0 .. N /\ n # 0
    BY <1>1
  <2> QED
    BY <1>3, <2>1
<1> DEFINE T == {n \in Nat : n <= N => total[n] = off[n] - 2 * n}
<1>6. 0 \in T
  BY <1>1, <1>5
<1>7. \A n \in Nat : n \in T => n + 1 \in T
  <2> SUFFICES ASSUME NEW n \in Nat, n \in T, n + 1 <= N
               PROVE  total[n + 1] = off[n + 1] - 2 * (n + 1)
    OBVIOUS
  <2> DEFINE k == n + 1
  <2>1. k \in 1 .. N /\ k - 1 = n /\ n <= N /\ k \in Nat
    BY <1>1
  <2>2. total[n] = off[n] - 2 * n
    BY <2>1
  <2> HIDE DEF k
  <2>3. total[k] = total[n] + Len(sent[k])
    BY <1>5, <2>1
  <2>4. off[k] = off[n] + 2 + Len(sent[k]) /\ off[n] \in Nat /\ Len(sent[k]) \in Nat
    BY <1>1, <2>1
  <2>5. \A x, u, m, j \in Nat : j - 1 = m => x - 2 * m + u = x + 2 + u - 2 * j
    OBVIOUS
  <2>6. total[k] = off[k] - 2 * k
    <3> DEFINE x == off[n]
               u == Len(sent[k])
               y == off[k]
               t == total[k]
    <3>1. x \in Nat /\ u \in Nat /\ y = x + 2 + u /\ t = x - 2 * n + u
      BY <2>2, <2>3, <2>4
    <3> HIDE DEF x, u, y, t
    <3>2. t = y - 2 * k
      BY <2>1, <2>5, <3>1
    <3> QED
      BY <3>2 DEF y, t
  <2> QED
    BY <2>6 DEF k
<1>8. N \in T
  BY <1>1, <1>6, <1>7, Induction
<1> QED
  BY <1>1, <1>4, <1>8

LEMMA InvGivesKept == Inv /\ FollowInv => NoNeedlessDrop
<1> SUFFICES ASSUME Inv, FollowInv, mode = "receive", Len(sent) <= MaxNumMessages,
                    TotalSent <= QueueSize,
                    \A i \in DOMAIN sent : Len(sent[i]) <= MaxMsgSize
             PROVE  /\ heads = Len(kept) + (IF buf.curTarget_ = NULL THEN 0 ELSE 1)
                    /\ buf.toSkip_ = 0 /\ ~torn
  BY DEF NoNeedlessDrop
<1>1. PICK S, off : InStream(buf, data, wire, S, off, sent, heads, kept, torn)
  BY DEF FollowInv, StreamOK
<1>2. DOMAIN sent = 1 .. Len(sent) /\ heads \in Nat
  BY LenProperties DEF Inv, TypeOK
<1>3. TotalSent = off[Len(sent)] - 2 * Len(sent)
  BY <1>1, TotalSentIs DEF InStream
<1>4. RoomForAll(sent, off)
  BY <1>2, <1>3 DEF RoomForAll
<1>5. AllKept(buf, kept, off, heads, torn)
  BY <1>1, <1>4 DEF InStream
<1>6. Len(kept) = Past(buf, heads) /\ buf.toSkip_ = 0 /\ ~torn
  BY <1>5 DEF AllKept
<1> QED
  BY <1>2, <1>6 DEF Past

\* put_data drops only what does not fit: if a buffer has room for all that its
\* peer sends, whatever the fragments, each frame whose length was read is in
\* the queue or has been, or is being filled, and no byte is skipped.
THEOREM NoNeedlessDropHolds == Spec => []NoNeedlessDrop
  BY Invariance, FollowInvariance, InvGivesKept, PTL

=============================================================================

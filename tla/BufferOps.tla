------------------------------ MODULE BufferOps ------------------------------
(***************************************************************************)
(* The operations of etwork's Buffer (class Impl in lib/buffer.cpp) as     *)
(* functions from one buffer value to the next.  A buffer value is a       *)
(* record with the fields of class Impl; a wire frame is a two-byte        *)
(* big-endian length followed by that many bytes.                          *)
(*                                                                         *)
(* put_data and get_data are loops (`goto more').  One turn of each loop   *)
(* is an operator here, PutDataTurn and GetDataTurn; PutData and GetData   *)
(* repeat them to the end of the call.                                     *)
(***************************************************************************)
EXTENDS Integers, Sequences

CONSTANTS
  MaxMsgSize,       \* Buffer's maxMsgSize: largest message accepted
  QueueSize,        \* Buffer's queueSize: most message bytes queued
  MaxNumMessages,   \* Buffer's maxNumMessages: most messages queued
  Radix,            \* values of a byte (256 in the program)
  Junk,             \* a byte of memory that was never written
  NULL              \* the null Message pointer

Byte == 0 .. Radix-1

\* What a byte of a message's memory may hold.
Cell == Byte \cup {Junk}

\* struct Message and the data that follows it in memory.
Message == [size_ : Nat, offset_ : Nat, body : Seq(Cell)]

ASSUME BufferAssumption ==
  /\ MaxMsgSize \in Nat /\ QueueSize \in Nat /\ MaxNumMessages \in Nat
  /\ Radix \in Nat \ {0}
  \* CreateEtwork refuses queueSize + maxMessageSize > 65536, so that a
  \* size always fits the two length bytes.
  /\ MaxMsgSize < Radix * Radix
  /\ Junk \notin Byte
  /\ NULL \notin Message

NoSize == -1        \* (size_t)-1: no length byte received yet

EmptyBuffer ==
  [queue_ |-> <<>>, curTarget_ |-> NULL, written_ |-> 0, toSkip_ |-> 0,
   tmpSize_ |-> NoSize]

HeaderOf(n) == <<n \div Radix, n % Radix>>

FrameOf(body) == HeaderOf(Len(body)) \o body

AtMost(a, b) == IF a > b THEN b ELSE a

-----------------------------------------------------------------------------
(* Impl::new_message: room for one more message of this size, or NULL. *)

\* Variants of the code, each with one plausible mistake, stand before the
\* definition they vary; the mutation runs put them in its place.
FitsStrictly(b, size) ==
  /\ size < MaxMsgSize
  /\ Len(b.queue_) < MaxNumMessages
  /\ b.written_ + size <= QueueSize

Fits(b, size) ==
  /\ size <= MaxMsgSize
  /\ Len(b.queue_) < MaxNumMessages
  /\ b.written_ + size <= QueueSize

\* The variant lets the last place in the queue stay empty.
NewMessageUnderLimit(b, size) ==
  IF Fits(b, size) /\ Len(b.queue_) + 1 < MaxNumMessages
  THEN [size_ |-> size, offset_ |-> 0, body |-> [i \in 1 .. size |-> Junk]]
  ELSE NULL

NewMessage(b, size) ==
  IF Fits(b, size)
  THEN [size_ |-> size, offset_ |-> 0, body |-> [i \in 1 .. size |-> Junk]]
  ELSE NULL

-----------------------------------------------------------------------------
(* Impl::put_message and Impl::get_message. *)

PutMessage(b, msg) ==
  IF Fits(b, Len(msg))
  THEN [b EXCEPT !.queue_ = Append(@, [size_ |-> Len(msg), offset_ |-> 0,
                                       body |-> msg]),
                 !.written_ = @ + Len(msg)]
  ELSE b

\* get_message(buffer, mSize) returns a message, and does not return -1.
CanGetMessage(b, mSize) == b.queue_ # <<>> /\ Head(b.queue_).size_ <= mSize

PopFront(b) ==
  [b EXCEPT !.queue_ = Tail(@), !.written_ = @ - Head(b.queue_).size_]

-----------------------------------------------------------------------------
(* Impl::put_data.  A turn of its loop works on the bytes `data' that the  *)
(* call has not used yet, data # <<>>, and returns the new buffer and the  *)
(* bytes left.                                                             *)

\* A length is complete: allocate a target for it, or skip that many bytes.
StartMessage(b, length) ==
  LET target == NewMessage(b, length)
  IN  [b EXCEPT !.curTarget_ = target,
                !.toSkip_ = IF target = NULL THEN length ELSE @,
                !.tmpSize_ = NoSize]

\* The end of a turn when there is no target: drop bytes of a refused frame.
SkipBytes(b, data) ==
  LET skip == AtMost(b.toSkip_, Len(data))
  IN  [buf  |-> [b EXCEPT !.toSkip_ = @ - skip],
       rest |-> SubSeq(data, skip + 1, Len(data))]

\* memcpy( &curTarget_[1], data, toread ): to the start of the message,
\* whatever offset_ is.
CopyIn(body, data, toread) ==
  [i \in DOMAIN body |-> IF i <= toread THEN data[i] ELSE body[i]]

\* Variants: a full message not counted in written_; a target of size zero
\* never found full.
FillTargetUncounted(b, data) ==
  LET target == b.curTarget_
      toread == AtMost(target.size_ - target.offset_, Len(data))
      filled == [size_   |-> target.size_,
                 offset_ |-> target.offset_ + toread,
                 body    |-> CopyIn(target.body, data, toread)]
  IN  [buf  |-> IF filled.offset_ = filled.size_
                THEN [b EXCEPT !.queue_ = Append(@, [filled EXCEPT !.offset_ = 0]),
                               !.curTarget_ = NULL]
                ELSE [b EXCEPT !.curTarget_ = filled],
       rest |-> SubSeq(data, toread + 1, Len(data))]

FillTargetNonEmpty(b, data) ==
  LET target == b.curTarget_
      toread == AtMost(target.size_ - target.offset_, Len(data))
      filled == [size_   |-> target.size_,
                 offset_ |-> target.offset_ + toread,
                 body    |-> CopyIn(target.body, data, toread)]
  IN  [buf  |-> IF toread > 0 /\ filled.offset_ = filled.size_
                THEN [b EXCEPT !.queue_ = Append(@, [filled EXCEPT !.offset_ = 0]),
                               !.written_ = @ + filled.size_,
                               !.curTarget_ = NULL]
                ELSE [b EXCEPT !.curTarget_ = filled],
       rest |-> SubSeq(data, toread + 1, Len(data))]

\* The end of a turn with a target: fill it, and queue it when it is full.
FillTarget(b, data) ==
  LET target == b.curTarget_
      toread == AtMost(target.size_ - target.offset_, Len(data))
      filled == [size_   |-> target.size_,
                 offset_ |-> target.offset_ + toread,
                 body    |-> CopyIn(target.body, data, toread)]
  IN  [buf  |-> IF filled.offset_ = filled.size_
                THEN [b EXCEPT !.queue_ = Append(@, [filled EXCEPT !.offset_ = 0]),
                               !.written_ = @ + filled.size_,
                               !.curTarget_ = NULL]
                ELSE [b EXCEPT !.curTarget_ = filled],
       rest |-> SubSeq(data, toread + 1, Len(data))]

UseBytes(b, data) ==
  IF b.curTarget_ = NULL THEN SkipBytes(b, data) ELSE FillTarget(b, data)

\* The first length byte, when the second one has not arrived.
HalfLengthUnshifted(byte) == byte

HalfLength(byte) == byte * Radix

PutDataTurn(b, data) ==
  IF b.tmpSize_ # NoSize THEN
       UseBytes(StartMessage(b, b.tmpSize_ + data[1]), Tail(data))
  ELSE IF b.curTarget_ # NULL THEN
       FillTarget(b, data)
  ELSE IF Len(data) = 1 THEN
       [buf |-> [b EXCEPT !.tmpSize_ = HalfLength(data[1])], rest |-> <<>>]
  ELSE UseBytes(StartMessage(b, data[1] * Radix + data[2]),
                SubSeq(data, 3, Len(data)))

\* The turns of a call, the last one repeated.  Each uses at least one byte.
PutDataTurns(b, data) ==
  LET turn[k \in 0 .. Len(data)] ==
        IF k = 0 THEN [buf |-> b, rest |-> data]
        ELSE IF turn[k-1].rest = <<>> THEN turn[k-1]
        ELSE PutDataTurn(turn[k-1].buf, turn[k-1].rest)
  IN  turn

\* The whole call.
PutData(b, data) == PutDataTurns(b, data)[Len(data)].buf

\* A turn completes the length of a message, and new_message has no room for it.
NextLength(b, data) ==
  IF b.tmpSize_ # NoSize THEN b.tmpSize_ + data[1] ELSE data[1] * Radix + data[2]

Refuses(b, data) ==
  /\ data # <<>>
  /\ b.tmpSize_ # NoSize \/ (b.curTarget_ = NULL /\ Len(data) > 1)
  /\ NewMessage(b, NextLength(b, data)) = NULL

\* Some turn of the call does.
Drops(b, data) ==
  LET turn == PutDataTurns(b, data)
  IN  \E k \in 1 .. Len(data) : Refuses(turn[k - 1].buf, turn[k - 1].rest)

-----------------------------------------------------------------------------
(* Impl::get_data.  A turn of its loop has `room' bytes left in the        *)
(* caller's buffer, room >= 3, and a message at the front of the queue; it *)
(* returns the new buffer, the room left and the bytes it produced.        *)

\* memcpy( data, &w[1], towrite ): from the start of the message, whatever
\* offset_ is.
CopyOut(w, towrite) == SubSeq(w.body, 1, towrite)

\* The length goes before the first byte of a message only.
HeaderAlways(w) == HeaderOf(w.size_)

HeaderIfFirst(w) == IF w.offset_ = 0 THEN HeaderOf(w.size_) ELSE <<>>

GetDataTurn(b, room) ==
  LET w       == Head(b.queue_)
      header  == HeaderIfFirst(w)
      space   == room - Len(header)
      towrite == AtMost(w.size_ - w.offset_, space)
      sent    == [w EXCEPT !.offset_ = @ + towrite]
  IN  [buf   |-> IF sent.offset_ = sent.size_
                 THEN PopFront(b)
                 ELSE [b EXCEPT !.queue_[1] = sent],
       room  |-> space - towrite,
       bytes |-> header \o CopyOut(w, towrite)]

\* The whole call, for mSize >= 3; below that get_data returns -1 at once.
\* A turn that does not end the call takes a message off the queue.
GetData(b, mSize) ==
  LET n == Len(b.queue_)
      turn[k \in 0 .. n] ==
        IF k = 0 THEN [buf |-> b, room |-> mSize, bytes |-> <<>>]
        ELSE LET before == turn[k-1]
             IN  IF before.room < 3 \/ before.buf.queue_ = <<>> THEN before
                 ELSE LET t == GetDataTurn(before.buf, before.room)
                      IN  [t EXCEPT !.bytes = before.bytes \o @]
  IN  turn[n]
=============================================================================

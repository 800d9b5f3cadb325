----------------------------- MODULE EtworkBuffer -----------------------------
(***************************************************************************)
(* One etwork Buffer in use (lib/buffer.cpp), in each of the three ways    *)
(* etwork/buffer.h allows:                                                 *)
(*                                                                         *)
(*   "local"    put_message and get_message                                *)
(*   "send"     put_message and get_data   (bufOut_ of a TCP socket)       *)
(*   "receive"  put_data and get_message   (bufIn_ of a TCP socket)        *)
(*                                                                         *)
(* In "receive" mode a peer sends frames of any size, and the bytes reach  *)
(* put_data in fragments cut anywhere.  A call runs to its end before the  *)
(* next one starts (the library is single-threaded): while one is running, *)
(* only its own loop can take a step.                                      *)
(***************************************************************************)
EXTENDS BufferOps

CONSTANTS
  Sizes,        \* sizes of the messages that are sent
  Rooms,        \* buffer sizes mSize given to get_data and get_message
  MaxFrames     \* bound: messages sent in a behaviour

ASSUME ClientAssumption ==
  /\ Sizes \subseteq 0 .. Radix * Radix - 1
  /\ Rooms \subseteq Nat
  /\ MaxFrames \in Nat

VARIABLES
  mode,     \* how this Buffer is used
  buf,      \* its fields
  data,     \* bytes the put_data call in progress has not used; <<>> if none
  room,     \* bytes the get_data call in progress can still write; 0 if none
  wire,     \* bytes sent by the peer and not yet passed to put_data
  \* History of the use, read by no operation:
  sent,     \* bodies the peer framed, or put_message accepted
  heads,    \* number of lengths put_data has read
  kept,     \* every message ever queued: see Entry
  got,      \* bodies get_message returned
  out,      \* bytes get_data returned
  popped,   \* number of messages that have left the queue
  torn      \* some put_data call began while bytes were still to be skipped

vars == <<mode, buf, data, room, wire, sent, heads, kept, got, out, popped, torn>>
call == <<data, room>>

(***************************************************************************)
(* A message once queued: its size, the total size of all messages queued  *)
(* up to and including it, which frame of `sent' it claims to be, and      *)
(* whether it was copied in one piece.                                     *)
(***************************************************************************)
Entry == [size : Nat, upto : Nat, frame : Nat, whole : BOOLEAN]

Upto(i) == IF i = 0 THEN 0 ELSE kept[i].upto

EntryFor(size, frame, whole) ==
  [size |-> size, upto |-> Upto(Len(kept)) + size, frame |-> frame,
   whole |-> whole]

\* The k-th body sent: distinct neighbours, so that misplaced bytes show.
Body(k, n) == [i \in 1 .. n |-> (k + i) % Radix]

Init ==
  /\ mode \in {"local", "send", "receive"}
  /\ buf = EmptyBuffer
  /\ data = <<>> /\ room = 0 /\ wire = <<>>
  /\ sent = <<>> /\ heads = 0 /\ kept = <<>> /\ got = <<>> /\ out = <<>>
  /\ popped = 0 /\ torn = FALSE

Idle == data = <<>> /\ room = 0

-----------------------------------------------------------------------------
(* The peer's frames, as bytes on the wire. *)
PeerSends(n) ==
  /\ mode = "receive" /\ Idle
  /\ Len(sent) < MaxFrames
  /\ LET body == Body(Len(sent) + 1, n)
     IN  /\ sent' = Append(sent, body)
         /\ wire' = wire \o FrameOf(body)
  /\ UNCHANGED <<mode, buf, call, heads, kept, got, out, popped, torn>>

\* put_data( data, n ) begins.
PutDataCall(n) ==
  /\ mode = "receive" /\ Idle
  /\ data' = SubSeq(wire, 1, n)
  /\ wire' = SubSeq(wire, n + 1, Len(wire))
  /\ torn' = (torn \/ buf.toSkip_ > 0)
  /\ UNCHANGED <<mode, buf, room, sent, heads, kept, got, out, popped>>

ReadsLength ==
  \/ buf.tmpSize_ # NoSize
  \/ buf.curTarget_ = NULL /\ Len(data) > 1

\* A turn of put_data's loop; the call returns when no byte is left.
PutDataLoop ==
  /\ data # <<>>
  /\ LET t == PutDataTurn(buf, data)
     IN  /\ buf' = t.buf
         /\ data' = t.rest
         /\ heads' = IF ReadsLength THEN heads + 1 ELSE heads
         /\ kept' = IF Len(t.buf.queue_) = Len(buf.queue_) THEN kept
                    ELSE Append(kept,
                           EntryFor(t.buf.queue_[Len(t.buf.queue_)].size_, heads',
                                    \/ buf.curTarget_ = NULL
                                    \/ buf.curTarget_.offset_ = 0))
  /\ UNCHANGED <<mode, room, wire, sent, got, out, popped, torn>>

\* put_message; when it returns -1 nothing changes.
PutMessageCall(n) ==
  /\ mode \in {"local", "send"} /\ Idle
  /\ Len(sent) < MaxFrames
  /\ Fits(buf, n)
  /\ LET body == Body(Len(sent) + 1, n)
     IN  /\ buf' = PutMessage(buf, body)
         /\ sent' = Append(sent, body)
         /\ kept' = Append(kept, EntryFor(n, Len(sent'), TRUE))
  /\ UNCHANGED <<mode, call, wire, heads, got, out, popped, torn>>

\* get_message; when it returns -1 nothing changes.
GetMessageCall(mSize) ==
  /\ mode \in {"local", "receive"} /\ Idle
  /\ CanGetMessage(buf, mSize)
  /\ got' = Append(got, Head(buf.queue_).body)
  /\ buf' = PopFront(buf)
  /\ popped' = popped + 1
  /\ UNCHANGED <<mode, call, wire, sent, heads, kept, out, torn>>

\* get_data begins, with something to do.
GetDataCall(mSize) ==
  /\ mode = "send" /\ Idle
  /\ mSize >= 3 /\ buf.queue_ # <<>>
  /\ room' = mSize
  /\ UNCHANGED <<mode, buf, data, wire, sent, heads, kept, got, out, popped, torn>>

\* A turn of get_data's loop, and the return when it is the last one.
GetDataLoop ==
  /\ room >= 3
  /\ LET t     == GetDataTurn(buf, room)
         taken == Len(t.buf.queue_) < Len(buf.queue_)
     IN  /\ buf' = t.buf
         /\ out' = out \o t.bytes
         /\ popped' = IF taken THEN popped + 1 ELSE popped
         /\ kept' = IF taken THEN kept ELSE [kept EXCEPT ![popped + 1].whole = FALSE]
         /\ room' = IF t.room < 3 \/ t.buf.queue_ = <<>> THEN 0 ELSE t.room
  /\ UNCHANGED <<mode, data, wire, sent, heads, got, torn>>

Next ==
  \/ \E n \in Sizes : PeerSends(n)
  \/ \E n \in Sizes : PutMessageCall(n)
  \/ \E n \in 1 .. Len(wire) : PutDataCall(n)
  \/ \E mSize \in Rooms : GetMessageCall(mSize)
  \/ \E mSize \in Rooms : GetDataCall(mSize)
  \/ PutDataLoop
  \/ GetDataLoop

Spec == Init /\ [][Next]_vars

\* A call that has begun runs on: nothing else can take the thread from it.
Fairness == WF_vars(PutDataLoop) /\ WF_vars(GetDataLoop)

LiveSpec == Spec /\ Fairness

-----------------------------------------------------------------------------
BufferType ==
  [queue_ : Seq(Message), curTarget_ : Message \cup {NULL}, written_ : Nat,
   toSkip_ : Nat, tmpSize_ : Nat \cup {NoSize}]

\* Every variable holds a value of its kind; in particular written_, an
\* unsigned count, is never taken below zero.
TypeOK ==
  /\ mode \in {"local", "send", "receive"}
  /\ buf \in BufferType
  /\ data \in Seq(Byte) /\ wire \in Seq(Byte) /\ room \in Nat
  /\ sent \in Seq(Seq(Byte)) /\ got \in Seq(Seq(Cell)) /\ out \in Seq(Cell)
  /\ kept \in Seq(Entry) /\ heads \in Nat /\ popped \in Nat /\ torn \in BOOLEAN

\* The three limits given to Buffer's constructor are respected at every
\* moment, also by a message that is queued long after its header was read and
\* room for it was checked.
Capacity ==
  /\ Len(buf.queue_) <= MaxNumMessages
  /\ buf.written_ <= QueueSize
  /\ \A i \in DOMAIN buf.queue_ : buf.queue_[i].size_ <= MaxMsgSize

\* Messages leave in the order they were queued, each once and with its size:
\* what was queued is what has left followed by what is still there, and
\* written_ is the total size of what is still there.
QueueIsFifo ==
  /\ Len(kept) = popped + Len(buf.queue_)
  /\ \A i \in DOMAIN buf.queue_ : buf.queue_[i].size_ = kept[popped + i].size
  /\ buf.written_ = Upto(Len(kept)) - Upto(popped)
  /\ mode # "send" => /\ Len(got) = popped
                      /\ \A i \in DOMAIN got : Len(got[i]) = kept[i].size

\* The body of the i-th message queued, as the reader got it or will get it.
BodyAt(i) == IF i <= popped THEN got[i] ELSE buf.queue_[i - popped].body

SizesAgree ==
  \A i \in DOMAIN kept :
    /\ kept[i].frame \in DOMAIN sent
    /\ kept[i].size = Len(sent[kept[i].frame])
    /\ i > 1 => kept[i-1].frame < kept[i].frame

\* As long as no refused frame reaches over the end of a put_data call, the
\* buffer follows the peer's framing through headers and bodies cut anywhere:
\* each message is one of the frames, in order and of the right length, and
\* has the right bytes if its body came in one piece.
FramesFollowed ==
  ~torn =>
    /\ SizesAgree
    /\ \A i \in DOMAIN kept :
         (kept[i].whole /\ (mode = "send" => i > popped)) =>
            BodyAt(i) = sent[kept[i].frame]

\* Where the frame of the i-th message ends in the output of get_data.
FrameEnd(i) == 2 * i + Upto(i)

\* What get_data returns, over all its calls, is the frames of the messages in
\* order with nothing between them; a message that fitted in one call has its
\* bytes.  The count includes the part of the message at the front that is
\* already out.
OutputFramed ==
  mode = "send" =>
    /\ Len(out) = FrameEnd(popped)
         + (IF buf.queue_ # <<>> /\ Head(buf.queue_).offset_ > 0
            THEN 2 + Head(buf.queue_).offset_ ELSE 0)
    /\ \A i \in DOMAIN kept :
         FrameEnd(i-1) + 2 <= Len(out) =>
           SubSeq(out, FrameEnd(i-1) + 1, FrameEnd(i-1) + 2) = HeaderOf(kept[i].size)
    /\ \A i \in 1 .. popped :
         kept[i].whole => SubSeq(out, FrameEnd(i-1) + 3, FrameEnd(i)) = sent[i]

TotalSent ==
  LET total[n \in 0 .. Len(sent)] == IF n = 0 THEN 0 ELSE total[n-1] + Len(sent[n])
  IN  total[Len(sent)]

\* put_data drops only what does not fit: when all the peer sent would fit in
\* the buffer together, every frame whose length was read is queued, or is
\* being filled, and nothing is skipped.
NoNeedlessDrop ==
  (/\ mode = "receive"
   /\ Len(sent) <= MaxNumMessages
   /\ TotalSent <= QueueSize
   /\ \A i \in DOMAIN sent : Len(sent[i]) <= MaxMsgSize)
  => /\ heads = Len(kept) + (IF buf.curTarget_ = NULL THEN 0 ELSE 1)
     /\ buf.toSkip_ = 0 /\ ~torn

\* put_data and get_data return: their `goto more' loops always make progress.
CallsReturn == ~Idle ~> Idle

\* In each of its uses the buffer is a bounded queue of whole messages.
Queue == INSTANCE MessageQueue WITH
  q    <- [i \in DOMAIN buf.queue_ |-> buf.queue_[i].size_],
  used <- buf.written_

IsMessageQueue == Queue!Spec

-----------------------------------------------------------------------------
(* What etwork/buffer.h says, and the code does not do. *)

\* buffer.h: "Buffer will properly deal with receiving half a header, half a
\* message": a message received in pieces has the bytes that were sent.
HalfMessagesReceived ==
  ~torn => \A i \in DOMAIN kept :
             mode = "receive" => BodyAt(i) = sent[kept[i].frame]
=============================================================================

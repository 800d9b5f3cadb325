------------------------------ MODULE EtworkLink ------------------------------
(***************************************************************************)
(* A reliable (TCP) connection from application to application: two Socket *)
(* objects (lib/sockimpl.h, lib/socketbase.cpp), each with a bufIn_, a     *)
(* bufOut_ and the writebuf_ of bytes that send() did not take, and        *)
(* between them the operating systems' stream in each direction.           *)
(*                                                                         *)
(* Each end runs on a thread of its own.  A call of SocketManager::poll    *)
(* makes at most one do_read and one do_write of a socket each time round  *)
(* its loop; the application reads and writes between polls.  No TCP       *)
(* socket is made non-blocking, so that send() returns when it has sent    *)
(* everything; do_write is ready for one that takes less.                  *)
(***************************************************************************)
EXTENDS BufferOps

CONSTANTS
  Client, Server,   \* the two ends
  Sizes,            \* sizes of the messages written at each end
  PipeSize,         \* most bytes under way in one direction
  Blocking,         \* ends whose send() waits: all, as the library is built
  MaxWrites         \* bound: messages written at each end

End == {Client, Server}

ASSUME LinkAssumption ==
  /\ Client # Server
  /\ Sizes \in [End -> SUBSET (0 .. Radix * Radix - 1)]
  /\ Blocking \subseteq End
  /\ PipeSize \in Nat \ {0} /\ MaxWrites \in [End -> Nat]
  /\ QueueSize >= 3       \* the least get_data can work with

Peer(e) == IF e = Client THEN Server ELSE Client

VARIABLES
  status,     \* "open", "closed" (closed_) or "disposed" (deleted)
  bufIn_, bufOut_, writebuf_,
  pipe,       \* pipe[e]: bytes end e has sent and its peer has not received
  gone,       \* what an end's system knows of the other: "no" more than that
              \* it is there, that it closed in order ("fin"), or a "reset"
  \* History:
  written,    \* sizes of the messages write() took
  read_,      \* sizes of the messages read() returned
  taken,      \* bytes get_data took from bufOut_
  given,      \* bytes given to put_data
  dropped     \* bufIn_ had no room for some message that arrived

vars == <<status, bufIn_, bufOut_, writebuf_, pipe, gone, written, read_,
          taken, given, dropped>>
socket == <<status, bufIn_, bufOut_, writebuf_>>
history == <<written, read_, taken, given, dropped>>

Init ==
  /\ status = [e \in End |-> "open"]
  /\ bufIn_ = [e \in End |-> EmptyBuffer]
  /\ bufOut_ = [e \in End |-> EmptyBuffer]
  /\ writebuf_ = [e \in End |-> <<>>]
  /\ pipe = [e \in End |-> <<>>]
  /\ gone = [e \in End |-> "no"]
  /\ written = [e \in End |-> <<>>] /\ read_ = [e \in End |-> <<>>]
  /\ taken = [e \in End |-> <<>>] /\ given = [e \in End |-> <<>>]
  /\ dropped = [e \in End |-> FALSE]

\* The thread of end e is inside send(), and in nothing else.
InSend(e) == e \in Blocking /\ status[e] = "open" /\ writebuf_[e] # <<>>

-----------------------------------------------------------------------------
(* Socket::read and Socket::write.  They look at no flag: a socket whose   *)
(* connection has closed is read, and written, until it is disposed.       *)

Write(e, n) ==
  /\ status[e] # "disposed" /\ ~InSend(e)
  /\ Len(written[e]) < MaxWrites[e]
  /\ Fits(bufOut_[e], n)
  /\ bufOut_' = [bufOut_ EXCEPT ![e] = PutMessage(@, [i \in 1 .. n |-> 0])]
  /\ written' = [written EXCEPT ![e] = Append(@, n)]
  /\ UNCHANGED <<status, bufIn_, writebuf_, pipe, gone, read_, taken, given, dropped>>

\* The application's buffer is large enough for every message.
Read(e) ==
  /\ status[e] # "disposed" /\ ~InSend(e)
  /\ CanGetMessage(bufIn_[e], MaxMsgSize)
  /\ read_' = [read_ EXCEPT ![e] = Append(@, Head(bufIn_[e].queue_).size_)]
  /\ bufIn_' = [bufIn_ EXCEPT ![e] = PopFront(@)]
  /\ UNCHANGED <<status, bufOut_, writebuf_, pipe, gone, written, taken, given, dropped>>

-----------------------------------------------------------------------------
(* The system's side of closing a socket: the peer sees the end of the     *)
(* stream, or a reset if bytes for this end are lost.                      *)
SystemClose(e) ==
  /\ gone' = [gone EXCEPT ![Peer(e)] =
                IF pipe[Peer(e)] = <<>> /\ @ # "reset" THEN "fin" ELSE "reset"]
  /\ pipe' = [pipe EXCEPT ![Peer(e)] = <<>>]

CloseSocket(e) ==
  /\ status' = [status EXCEPT ![e] = "closed"]
  /\ SystemClose(e)

\* Socket::dispose: the buffers go with the object, and what is still in
\* bufOut_ and writebuf_ is never sent.
Dispose(e) ==
  /\ status[e] # "disposed" /\ ~InSend(e)
  /\ status' = [status EXCEPT ![e] = "disposed"]
  /\ bufIn_' = [bufIn_ EXCEPT ![e] = EmptyBuffer]
  /\ bufOut_' = [bufOut_ EXCEPT ![e] = EmptyBuffer]
  /\ writebuf_' = [writebuf_ EXCEPT ![e] = <<>>]
  /\ IF status[e] = "open" THEN SystemClose(e) ELSE UNCHANGED <<gone, pipe>>
  /\ UNCHANGED history

-----------------------------------------------------------------------------
(* Socket::do_read and when SocketManager::poll calls it. *)

\* The condition looks at bufOut_, not at bufIn_.  The subtraction is of
\* unsigned numbers; CreateEtwork lets maxMessageSize exceed queueSize, and
\* then it wraps to a number no queue reaches.
WantsToRead(e) ==
  /\ \/ QueueSize < MaxMsgSize
     \/ bufOut_[e].written_ < QueueSize - MaxMsgSize
  /\ Len(bufOut_[e].queue_) < MaxNumMessages

CanRecv(e) == pipe[Peer(e)] # <<>> \/ gone[e] # "no"

DoReadData(e, n) ==
  /\ gone[e] # "reset"
  /\ bufIn_' = [bufIn_ EXCEPT ![e] = PutData(@, SubSeq(pipe[Peer(e)], 1, n))]
  /\ pipe' = [pipe EXCEPT ![Peer(e)] = SubSeq(@, n + 1, Len(@))]
  /\ given' = [given EXCEPT ![e] = @ \o SubSeq(pipe[Peer(e)], 1, n)]
  /\ dropped' = [dropped EXCEPT
                   ![e] = @ \/ Drops(bufIn_[e], SubSeq(pipe[Peer(e)], 1, n))]
  /\ UNCHANGED <<status, bufOut_, writebuf_, gone, written, read_, taken>>

\* Variant: 0 taken for no news.
DoReadEndOnError(e) ==
  /\ gone[e] = "reset"
  /\ CloseSocket(e)
  /\ UNCHANGED <<bufIn_, bufOut_, writebuf_, history>>

\* recv() failed or returned 0.
DoReadEnd(e) ==
  /\ gone[e] = "reset" \/ pipe[Peer(e)] = <<>>
  /\ CloseSocket(e)
  /\ UNCHANGED <<bufIn_, bufOut_, writebuf_, history>>

DoRead(e) ==
  /\ status[e] = "open" /\ ~InSend(e) /\ CanRecv(e) /\ WantsToRead(e)
  /\ \/ \E n \in 1 .. AtMost(MaxMsgSize, Len(pipe[Peer(e)])) : DoReadData(e, n)
     \/ DoReadEnd(e)

-----------------------------------------------------------------------------
(* Socket::do_write and when SocketManager::poll calls it. *)

\* Variants, here and below, that mistake the bytes send() did not take.
WantsToWriteFresh(e) == bufOut_[e].queue_ # <<>>

WantsToWrite(e) == writebuf_[e] # <<>> \/ bufOut_[e].queue_ # <<>>

FetchOver(e) ==
  IF bufOut_[e].queue_ = <<>>
  THEN [buf |-> bufOut_[e], bytes |-> writebuf_[e], fresh |-> <<>>]
  ELSE LET g == GetData(bufOut_[e], QueueSize)
       IN  [buf |-> g.buf, bytes |-> g.bytes, fresh |-> g.bytes]

\* The bytes to send: what the last send() left, or else fresh from bufOut_.
Fetch(e) ==
  IF writebuf_[e] # <<>>
  THEN [buf |-> bufOut_[e], bytes |-> writebuf_[e], fresh |-> <<>>]
  ELSE LET g == GetData(bufOut_[e], QueueSize)
       IN  [buf |-> g.buf, bytes |-> g.bytes, fresh |-> g.bytes]

UnsentInPlace(bytes, w) == SubSeq(bytes, 1, Len(bytes) - w)

\* What is left of the bytes after send() took w of them: the memmove.
Unsent(bytes, w) == SubSeq(bytes, w + 1, Len(bytes))

\* send() takes w bytes, or none when it would block, and returns; or else it
\* waits, and takes more in further steps.  A peer that has closed answers
\* with a reset.
DoWriteData(e, w) ==
  LET f == Fetch(e)
  IN  /\ gone[e] # "reset"
      /\ w <= Len(f.bytes)
      /\ bufOut_' = [bufOut_ EXCEPT ![e] = f.buf]
      /\ writebuf_' = [writebuf_ EXCEPT ![e] = Unsent(f.bytes, w)]
      /\ taken' = [taken EXCEPT ![e] = @ \o f.fresh]
      /\ IF gone[e] = "fin"
         THEN /\ gone' = [gone EXCEPT ![e] = IF w > 0 THEN "reset" ELSE @]
              /\ UNCHANGED pipe
         ELSE /\ Len(pipe[e]) + w <= PipeSize
              /\ pipe' = [pipe EXCEPT ![e] = @ \o SubSeq(f.bytes, 1, w)]
              /\ UNCHANGED gone
      /\ UNCHANGED <<status, bufIn_, written, read_, given, dropped>>

\* send() failed.
DoWriteFails(e) ==
  LET f == Fetch(e)
  IN  /\ gone[e] = "reset"
      /\ bufOut_' = [bufOut_ EXCEPT ![e] = f.buf]
      /\ writebuf_' = [writebuf_ EXCEPT ![e] = f.bytes]
      /\ taken' = [taken EXCEPT ![e] = @ \o f.fresh]
      /\ CloseSocket(e)
      /\ UNCHANGED <<bufIn_, written, read_, given, dropped>>

DoWriteBlocked(e) == status[e] = "open" /\ WantsToWrite(e) /\ DoWriteData(e, 0)

DoWrite(e) ==
  /\ status[e] = "open" /\ WantsToWrite(e)
  /\ \/ \E w \in 1 .. PipeSize : DoWriteData(e, w)
     \/ DoWriteFails(e)

\* Socket::do_except, with an error on the socket.
DoExcept(e) ==
  /\ status[e] = "open" /\ ~InSend(e) /\ gone[e] = "reset"
  /\ CloseSocket(e)
  /\ UNCHANGED <<bufIn_, bufOut_, writebuf_, history>>

\* The connection is lost: both ends will see errors.
Break ==
  /\ \E e \in End : status[e] = "open"
  /\ gone' = [e \in End |-> "reset"]
  /\ UNCHANGED <<socket, pipe, history>>

Next ==
  \/ \E e \in End : \E n \in Sizes[e] : Write(e, n)
  \/ \E e \in End : Read(e)
  \/ \E e \in End : Dispose(e)
  \/ \E e \in End : DoRead(e)
  \/ \E e \in End : DoWrite(e)
  \/ \E e \in End : DoWriteBlocked(e)
  \/ \E e \in End : DoExcept(e)
  \/ Break

Spec == Init /\ [][Next]_vars

(***************************************************************************)
(* The applications keep polling, and keep reading what has arrived;       *)
(* nothing says that they ever write, dispose, or that the network fails.  *)
(***************************************************************************)
Fairness ==
  \A e \in End : WF_vars(DoRead(e)) /\ WF_vars(DoWrite(e)) /\ WF_vars(Read(e))

LiveSpec == Spec /\ Fairness
-----------------------------------------------------------------------------
TypeOK ==
  /\ status \in [End -> {"open", "closed", "disposed"}]
  /\ gone \in [End -> {"no", "fin", "reset"}]
  /\ dropped \in [End -> BOOLEAN]
  /\ \A e \in End :
       /\ pipe[e] \in Seq(Cell) /\ Len(pipe[e]) <= PipeSize
       /\ writebuf_[e] \in Seq(Cell) /\ Len(writebuf_[e]) <= QueueSize
       /\ written[e] \in Seq(Nat) /\ read_[e] \in Seq(Nat)
       /\ taken[e] \in Seq(Cell) /\ given[e] \in Seq(Cell)

Undisturbed == \A e \in End : status[e] = "open" /\ gone[e] = "no"

\* The bytes taken from a bufOut_ are, in order and each once, those already
\* given to the peer's bufIn_, those under way and those kept in writebuf_,
\* through any number of partial sends and sends that would block.
StreamIntact ==
  Undisturbed =>
    \A e \in End : taken[e] = given[Peer(e)] \o pipe[e] \o writebuf_[e]

SizesIn(queue) == [i \in DOMAIN queue |-> queue[i].size_]

Starts(s, t) == Len(s) <= Len(t) /\ \A i \in DOMAIN s : s[i] = t[i]

\* documentation.h: "each call to write() on a socket will result in exactly
\* one return from read() for as many bytes on the other end".  As long as no
\* message was dropped for want of room, what has arrived is what was written,
\* in order and size by size, also after either end has closed.
DeliveredInOrder ==
  \A e \in End :
    ~dropped[Peer(e)] =>
      Starts(read_[Peer(e)] \o SizesIn(bufIn_[Peer(e)].queue_), written[e])

\* What is still to be read at the other end, and what an end has read, as
\* long as it has lost nothing.
Unread(e) ==
  IF dropped[Peer(e)] THEN <<>>
  ELSE SubSeq(written[e], Len(read_[Peer(e)]) + 1, Len(written[e]))

Heard(e) == IF dropped[e] THEN <<>> ELSE read_[e]

Ways == INSTANCE Connection WITH
          Other <- [e \in End |-> Peer(e)],
          way <- [e \in End |-> Unread(e)], got <- [e \in End |-> Heard(e)],
          lossy <- {e \in End : dropped[e]},
          using <- {e \in End : status[e] # "disposed"}

\* documentation.h: "each call to write() on a socket will result in exactly
\* one return from read() for as many bytes on the other end".  A read returns
\* the oldest message its peer wrote and it has not read; write() and disposal
\* of one end, and the loss of the connection, take none away; and a message is
\* dropped only if more are unread than a bufIn_ may hold.
IsConnection == Ways!Spec

\* When one end closes, so does the other, whatever its buffers hold.
CloseNoticed ==
  \A e \in End : (status[Peer(e)] # "open") ~> (status[e] # "open")

\* Every message written is read at the other end, unless the connection goes
\* down or the reader has lost one for want of room.
EveryWriteIsRead ==
  \A e \in End : \A k \in 1 .. MaxWrites[e] :
    (Len(written[e]) >= k) ~>
      \/ Len(read_[Peer(e)]) >= k
      \/ ~Undisturbed
      \/ dropped[Peer(e)]

\* That holds as long as, from some time on, the output of neither end is
\* backed up, and not both are inside send().
EveryWriteIsReadUnlessBackedUp ==
  (<>[]((\A e \in End : WantsToRead(e)) /\ (\E e \in End : ~InSend(e))))
    => EveryWriteIsRead
=============================================================================

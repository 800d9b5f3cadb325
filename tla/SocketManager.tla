---------------------------- MODULE SocketManager ----------------------------
(***************************************************************************)
(* class SocketManager (lib/socketbase.cpp): the sockets it knows, the     *)
(* connections waiting for accept(), the map from addresses to unreliable  *)
(* sockets, and poll(), from the time-outs it begins with to the           *)
(* notifications it ends with.                                             *)
(*                                                                         *)
(* Everything runs on one thread.  A poll is cut into the handling of one  *)
(* time-out sweep, one select(), one file descriptor or one callback at a  *)
(* time; the application acts when no poll is in progress, and in the      *)
(* callbacks.                                                              *)
(***************************************************************************)
EXTENDS Integers, Sequences, FiniteSets

CONSTANTS
  Sockets,      \* the Socket objects that can be allocated
  Addrs,        \* addresses of remote hosts
  Listening,    \* listening_ in a set of file descriptors
  NULL,         \* no socket
  MaxOut,       \* most messages in the output buffers of a socket
  MaxActives,   \* values of maxActive the application gives to poll()
  MaxRounds     \* bound: times round the loop of a poll

ASSUME ManagerAssumption ==
  /\ IsFiniteSet(Sockets)
  /\ NULL \notin Sockets \cup Addrs /\ Listening \notin Sockets
  /\ MaxOut \in Nat \ {0} /\ MaxRounds \in Nat
  /\ MaxActives \subseteq Nat \ {0}

VARIABLES
  reliable, accepting,    \* settings_: TCP or UDP, server or client
  \* The sockets, field by field:
  life,         \* "free" (not allocated), "open", "closed" or "deleted"
  taken,        \* the flag accepted_: the application has the socket
  notify,       \* a notifier is installed: notify_ is not null
  addr_,
  out,          \* messages in bufOut_
  writebuf_,    \* writebufData_ > 0: bytes that send() has not taken
  \* The manager:
  sockets_, accepted_, socketAddrs_, active_, notify_,
  \* The poll in progress:
  pc,           \* "idle", "select", "read", "write", "except", "notify"; or
                \* "crashed"
  maxActive,
  writeSet,     \* descriptors select() watches for writing in this round
  writeTempSet, \* those it will watch in the next one
  ready,        \* descriptors still to be handled in this phase
  progress,
  rounds,       \* number of this round
  \* History:
  due,          \* sockets the application holds on which something happened
                \* that it has not been told of: data, time-out, end, error
  cut,          \* the same, for a socket with a notifier that was closed
                \* because send() failed
  expired,      \* sockets timed out by this poll and put into active_
  twice         \* addresses connect()ed to while already in socketAddrs_

settings == <<reliable, accepting>>
object == <<life, taken, notify, addr_, out, writebuf_>>
registry == <<sockets_, accepted_, socketAddrs_>>
loop == <<pc, maxActive, writeSet, writeTempSet, ready, progress, rounds>>
vars == <<settings, object, registry, active_, notify_, loop, due, cut,
          expired, twice>>

HasListening == accepting \/ ~reliable

Init ==
  /\ reliable \in BOOLEAN /\ accepting \in BOOLEAN
  /\ life = [s \in Sockets |-> "free"]
  /\ taken = [s \in Sockets |-> FALSE]
  /\ notify = [s \in Sockets |-> FALSE]
  /\ addr_ = [s \in Sockets |-> NULL]
  /\ out = [s \in Sockets |-> 0]
  /\ writebuf_ = [s \in Sockets |-> FALSE]
  /\ sockets_ = {} /\ accepted_ = <<>>
  /\ socketAddrs_ = [a \in Addrs |-> NULL]
  /\ active_ = {} /\ notify_ = {}
  /\ pc = "idle" /\ maxActive = 1 /\ writeSet = {} /\ writeTempSet = {}
  /\ ready = {} /\ progress = TRUE /\ rounds = 0
  /\ due = {} /\ cut = {} /\ expired = {} /\ twice = {}

-----------------------------------------------------------------------------
(* allSet_, as regenerate_sets() leaves it for these sockets_: unreliable  *)
(* sockets all share the listening one.                                    *)
AllSet(socks) ==
  (IF reliable THEN socks ELSE {}) \cup (IF HasListening THEN {Listening} ELSE {})

\* new Socket: the object s for address a.
Allocate(s, a, accepted, messages) ==
  /\ life[s] = "free"
  /\ life' = [life EXCEPT ![s] = "open"]
  /\ addr_' = [addr_ EXCEPT ![s] = a]
  /\ taken' = [taken EXCEPT ![s] = accepted]
  /\ out' = [out EXCEPT ![s] = messages]
  /\ UNCHANGED writebuf_

\* remove_socket() for each of these sockets.  The address goes whatever
\* socket it leads to; the queue of pending sockets is searched for those that
\* are not in sockets_.
RemoveByHandle(gone) ==
  /\ sockets_' = sockets_ \ gone
  /\ accepted_' = IF gone \subseteq sockets_ THEN accepted_
                  ELSE SelectSeq(accepted_, LAMBDA s : s \in sockets_ \/ s \notin gone)
  /\ UNCHANGED socketAddrs_

RemoveSockets(gone) ==
  /\ socketAddrs_' = [a \in Addrs |-> IF \E s \in gone : addr_[s] = a THEN NULL
                                     ELSE socketAddrs_[a]]
  /\ sockets_' = sockets_ \ gone
  /\ accepted_' = IF gone \subseteq sockets_ THEN accepted_
                  ELSE SelectSeq(accepted_, LAMBDA s : s \in sockets_ \/ s \notin gone)

\* close_socket() for each of these sockets, all open.
Close(gone) ==
  /\ life' = [s \in Sockets |-> IF s \in gone THEN "closed" ELSE life[s]]
  /\ RemoveSockets(gone)

\* ~Socket: close_socket(), then the object is gone.
Delete(s) ==
  /\ life' = [life EXCEPT ![s] = "deleted"]
  /\ IF life[s] = "open" THEN RemoveSockets({s}) ELSE UNCHANGED registry

\* A socket goes to its notifier or to the caller of poll().
Insert(socks) ==
  /\ active_' = active_ \cup {s \in socks : ~notify[s]}
  /\ notify_' = notify_ \cup {s \in socks : notify[s]}

-----------------------------------------------------------------------------
(* The application, outside poll(). *)

\* accept( outAccepted, n ): the sockets that have waited longest; a version that
\* takes the newest.
AcceptNewest(n) ==
  LET k == IF n < Len(accepted_) THEN n ELSE Len(accepted_)
      new == {accepted_[i] : i \in Len(accepted_) - k + 1 .. Len(accepted_)}
  IN  /\ pc = "idle" /\ accepted_ # <<>>
      /\ accepted_' = SubSeq(accepted_, 1, Len(accepted_) - k)
      /\ sockets_' = sockets_ \cup new
      /\ taken' = [s \in Sockets |-> taken[s] \/ s \in new]
      /\ UNCHANGED <<settings, life, notify, addr_, out, writebuf_, socketAddrs_,
                     active_, notify_, loop, due, cut, expired, twice>>

Accept(n) ==
  LET k == IF n < Len(accepted_) THEN n ELSE Len(accepted_)
      new == {accepted_[i] : i \in 1 .. k}
  IN  /\ pc = "idle" /\ accepted_ # <<>>
      /\ accepted_' = SubSeq(accepted_, k + 1, Len(accepted_))
      /\ sockets_' = sockets_ \cup new
      /\ taken' = [s \in Sockets |-> taken[s] \/ s \in new]
      /\ UNCHANGED <<settings, life, notify, addr_, out, writebuf_, socketAddrs_,
                     active_, notify_, loop, due, cut, expired, twice>>

\* connect( a ), when it succeeds; an unreliable socket greets its peer with
\* an empty message.
ConnectUnmapped(s, a) ==
  /\ pc = "idle"
  /\ Allocate(s, a, TRUE, IF reliable THEN 0 ELSE 1)
  /\ sockets_' = sockets_ \cup {s}
  /\ UNCHANGED <<settings, notify, accepted_, socketAddrs_, twice, active_,
                 notify_, loop, due, cut, expired>>

Connect(s, a) ==
  /\ pc = "idle"
  /\ Allocate(s, a, TRUE, IF reliable THEN 0 ELSE 1)
  /\ sockets_' = sockets_ \cup {s}
  /\ IF reliable THEN UNCHANGED <<socketAddrs_, twice>>
     ELSE /\ socketAddrs_' = [socketAddrs_ EXCEPT ![a] = s]
          /\ twice' = IF socketAddrs_[a] = NULL THEN twice ELSE twice \cup {a}
  /\ UNCHANGED <<settings, notify, accepted_, active_, notify_, loop, due, cut,
                 expired>>

Held(s) == taken[s] /\ life[s] # "deleted"

Dispose(s) ==
  /\ pc = "idle" /\ Held(s)
  /\ Delete(s)
  /\ due' = due \ {s} /\ cut' = cut \ {s}
  /\ UNCHANGED <<settings, taken, notify, addr_, out, writebuf_, active_, notify_,
                 loop, expired, twice>>

Write(s) ==
  /\ pc = "idle" /\ Held(s) /\ out[s] < MaxOut
  /\ out' = [out EXCEPT ![s] = @ + 1]
  /\ UNCHANGED <<settings, life, taken, notify, addr_, writebuf_, registry,
                 active_, notify_, loop, due, cut, expired, twice>>

SetEtworkSocketNotify(s) ==
  /\ pc = "idle" /\ Held(s)
  /\ notify' = [notify EXCEPT ![s] = ~@]
  /\ UNCHANGED <<settings, life, taken, addr_, out, writebuf_, registry, active_,
                 notify_, loop, due, cut, expired, twice>>

-----------------------------------------------------------------------------
(* The frame of a poll. *)

\* Keepalives: write( "", 0 ), which does nothing when the buffer is full.
KeptAliveUnchecked(quiet) ==
  [s \in Sockets |-> IF s \in quiet THEN out[s] + 1 ELSE out[s]]

KeptAlive(quiet) ==
  [s \in Sockets |-> IF s \in quiet /\ out[s] < MaxOut THEN out[s] + 1 ELSE out[s]]

\* poll( seconds, outActive, max ) begins: active_ is cleared and
\* timeout_sockets() closes the sockets that have been silent for too long,
\* `late', and keeps alive those not written to for long, `quiet'.
Poll(max, late, quiet) ==
  /\ pc = "idle"
  /\ Close(late)
  /\ active_' = {s \in late : ~notify[s]}
  /\ notify_' = {s \in late : notify[s]}
  /\ out' = KeptAlive(quiet)
  /\ due' = due \cup late
  /\ expired' = {s \in late : ~notify[s]}
  /\ pc' = "select" /\ maxActive' = max
  /\ writeSet' = AllSet(sockets_')
  /\ UNCHANGED <<settings, taken, notify, addr_, writebuf_, writeTempSet, ready,
                 progress, rounds, cut, twice>>

\* no_more_actives: active_ is copied to outActive, and then ~NotifyActive runs.
Finish == pc' = "notify" /\ UNCHANGED <<maxActive, writeSet, rounds, ready>>

\* One descriptor has been handled, `rest' are left, and active_ is `act'.
AfterFdBeyond(act, rest) ==
  IF Cardinality(act) > maxActive THEN Finish
  ELSE ready' = rest /\ UNCHANGED <<pc, maxActive, writeSet, rounds>>

AfterFd(act, rest) ==
  IF Cardinality(act) = maxActive THEN Finish
  ELSE ready' = rest /\ UNCHANGED <<pc, maxActive, writeSet, rounds>>

\* One select(): it fails, or it says what can be read.  What can be written
\* and what has an error is settled when the loop gets there; no descriptor
\* becomes known in between.
Select ==
  /\ pc = "select"
  /\ \/ Finish /\ UNCHANGED <<writeTempSet, progress>>
     \/ /\ rounds < MaxRounds /\ AllSet(sockets_) # {}
        /\ pc' = "read"
        /\ ready' \in SUBSET AllSet(sockets_)
        /\ writeTempSet' = {} /\ progress' = TRUE
        /\ rounds' = rounds + 1
        /\ UNCHANGED <<maxActive, writeSet>>
  /\ UNCHANGED <<settings, object, registry, active_, notify_, due, cut,
                 expired, twice>>

\* ~NotifyActive: the callbacks, in the middle of which a socket's owner may
\* dispose it.
Callback(s, disposes) ==
  /\ pc = "notify" /\ s \in notify_
  /\ notify_' = notify_ \ {s}
  /\ IF notify[s] /\ disposes THEN Delete(s) ELSE UNCHANGED <<life, registry>>
  /\ IF notify[s] THEN due' = due \ {s} /\ cut' = cut \ {s}
                  ELSE UNCHANGED <<due, cut>>
  /\ UNCHANGED <<settings, taken, notify, addr_, out, writebuf_, active_, loop,
                 expired, twice>>

PollReturns ==
  /\ pc = "notify" /\ notify_ = {}
  /\ pc' = "idle" /\ maxActive' = 1 /\ writeSet' = {} /\ writeTempSet' = {}
  /\ ready' = {} /\ progress' = TRUE /\ rounds' = 0
  /\ due' = due \ active_ /\ cut' = cut \ active_
  /\ expired' = {}
  /\ UNCHANGED <<settings, object, registry, active_, notify_, twice>>

-----------------------------------------------------------------------------
(* The read loop: the listening socket. *)

\* A new TCP connection.
AcceptConnection(s, a) ==
  /\ pc = "read" /\ reliable /\ Listening \in ready
  /\ Allocate(s, a, FALSE, 0)
  /\ accepted_' = Append(accepted_, s)
  /\ AfterFd(active_, ready \ {Listening})
  /\ UNCHANGED <<settings, notify, sockets_, socketAddrs_, active_, notify_,
                 writeTempSet, progress, due, cut, expired, twice>>

\* ::accept failed, or the drain of the UDP socket has come to its end.
ListeningRead ==
  /\ pc = "read" /\ Listening \in ready
  /\ AfterFd(active_, ready \ {Listening})
  /\ progress' = (progress /\ ~reliable)
  /\ UNCHANGED <<settings, object, registry, active_, notify_, writeTempSet,
                 due, cut, expired, twice>>

\* A datagram from a stranger makes a connection; what it says is dropped.
RecvFromStranger(s, a) ==
  /\ pc = "read" /\ ~reliable /\ Listening \in ready
  /\ socketAddrs_[a] = NULL /\ accepting
  /\ Allocate(s, a, FALSE, 0)
  /\ accepted_' = Append(accepted_, s)
  /\ socketAddrs_' = [socketAddrs_ EXCEPT ![a] = s]
  /\ UNCHANGED <<settings, notify, sockets_, active_, notify_, loop, due, cut,
                 expired, twice>>

\* A datagram for a socket.  One that waits for accept() is not reported.
RecvFromAnyPeer(a) ==
  LET s == socketAddrs_[a]
  IN  /\ pc = "read" /\ ~reliable /\ Listening \in ready
      /\ s # NULL
      /\ Insert({s}) /\ due' = due \cup {s}
      /\ UNCHANGED <<settings, object, registry, loop, cut, expired, twice>>

RecvFromPeer(a) ==
  LET s == socketAddrs_[a]
  IN  /\ pc = "read" /\ ~reliable /\ Listening \in ready
      /\ s # NULL /\ taken[s]
      /\ Insert({s}) /\ due' = due \cup {s}
      /\ UNCHANGED <<settings, object, registry, loop, cut, expired, twice>>

-----------------------------------------------------------------------------
(* The read loop: a TCP socket. *)

\* wants_to_read(), which depends on the output, and wants_to_write().
WantsToRead(s) == out[s] < MaxOut

WantsToWrite(s) == writebuf_[s] \/ out[s] > 0

\* The rest of the turn for s, `ok' if progress is still being made.  What waits
\* for output may be empty messages, keepalives for one, and take no space.
ReadHandled(s, ok) ==
  /\ progress' = ok
  /\ \/ writeTempSet' = writeTempSet
     \/ /\ ok /\ out[s] > 0 /\ s \in sockets_'
        /\ writeTempSet' = writeTempSet \cup {s}
  /\ AfterFd(active_', ready \ {s})
  /\ UNCHANGED <<settings, taken, notify, addr_, out, writebuf_, cut, expired, twice>>

ReadsNothing(s) ==
  /\ pc = "read" /\ s \in ready /\ s \in sockets_
  /\ ~WantsToRead(s)
  /\ UNCHANGED <<life, registry, active_, notify_, due>>
  /\ ReadHandled(s, progress)

\* do_read takes some data, or finds that recv() would block.
ReadsData(s, some) ==
  /\ pc = "read" /\ s \in ready /\ s \in sockets_
  /\ WantsToRead(s)
  /\ Insert({s})
  /\ due' = IF some THEN due \cup {s} ELSE due
  /\ UNCHANGED <<life, registry>>
  /\ ReadHandled(s, progress /\ some)

\* do_read finds the end of the stream, or an error.
ReadsEndUnreported(s, error) ==
  /\ pc = "read" /\ s \in ready /\ s \in sockets_
  /\ WantsToRead(s)
  /\ Close({s})
  /\ UNCHANGED <<active_, notify_>>
  /\ due' = due \cup {s}
  /\ ReadHandled(s, progress /\ ~error)

ReadsEnd(s, error) ==
  /\ pc = "read" /\ s \in ready /\ s \in sockets_
  /\ WantsToRead(s)
  /\ Close({s})
  /\ Insert({s})
  /\ due' = due \cup {s}
  /\ ReadHandled(s, progress /\ ~error)

\* On to the write loop.  In UDP one descriptor stands for all sockets with
\* something to send, and comes last.
ReadLoopEnds ==
  /\ pc = "read" /\ ready = {}
  /\ pc' = "write"
  /\ ready' \in IF reliable THEN SUBSET (writeSet \ {Listening})
                ELSE {{}} \cup (IF Listening \in writeSet
                                THEN {{Listening} \cup {s \in sockets_ : out[s] > 0}}
                                ELSE {})
  /\ UNCHANGED <<settings, object, registry, active_, notify_, maxActive,
                 writeSet, writeTempSet, progress, rounds, due, cut, expired, twice>>

-----------------------------------------------------------------------------
(* The write loop: a TCP socket. *)

\* A descriptor that is ready, but whose socket has been closed in the read
\* loop or has nothing to send.
WritesNothing(s) ==
  /\ pc = "write" /\ reliable /\ s \in ready
  /\ s \in sockets_ => ~WantsToWrite(s)
  /\ AfterFd(active_, ready \ {s})
  /\ UNCHANGED <<settings, object, registry, active_, notify_, writeTempSet,
                 progress, due, cut, expired, twice>>

\* do_write: `taking' messages go from bufOut_ to writebuf_ when that is empty,
\* and send() takes all of writebuf_ or leaves something.
WriteSocket(s, taking, leaves) ==
  /\ pc = "write" /\ reliable /\ s \in ready \cap sockets_
  /\ IF writebuf_[s] THEN taking = 0 ELSE taking \in 1 .. out[s]
  /\ out' = [out EXCEPT ![s] = @ - taking]
  /\ writebuf_' = [writebuf_ EXCEPT ![s] = leaves]
  /\ Insert({s})
  /\ writeTempSet' = IF progress /\ (leaves \/ out[s] > taking)
                     THEN writeTempSet \cup {s} ELSE writeTempSet
  /\ AfterFd(active_', ready \ {s})
  /\ UNCHANGED <<settings, life, taken, notify, addr_, registry, progress, due,
                 cut, expired, twice>>

\* send() fails: the socket is closed and is not put into active_ or notify_.
WriteFails(s) ==
  /\ pc = "write" /\ reliable /\ s \in ready \cap sockets_ /\ WantsToWrite(s)
  /\ Close({s})
  /\ writebuf_' = [writebuf_ EXCEPT ![s] = TRUE]
  /\ out' \in {[out EXCEPT ![s] = @ - taking] :
                 taking \in IF writebuf_[s] THEN {0} ELSE 1 .. out[s]}
  /\ progress' = FALSE
  /\ cut' = IF notify[s] THEN cut \cup {s} ELSE cut
  /\ AfterFd(active_, ready \ {s})
  /\ UNCHANGED <<settings, taken, notify, addr_, active_, notify_, writeTempSet,
                 due, expired, twice>>

-----------------------------------------------------------------------------
(* The write loop: the UDP socket, for all sockets with something to send. *)

\* All messages of s are sent, or one, if that fills active_.
ServeSocket(s) ==
  /\ pc = "write" /\ ~reliable /\ s \in ready \cap sockets_ /\ out[s] > 0
  /\ Insert({s})
  /\ out' = [out EXCEPT ![s] = IF Cardinality(active_') = maxActive THEN @ - 1 ELSE 0]
  /\ ready' = ready \ {s}
  /\ UNCHANGED <<settings, life, taken, notify, addr_, writebuf_, registry, pc,
                 maxActive, writeSet, writeTempSet, progress, rounds, due, cut,
                 expired, twice>>

\* sendto() takes some messages of s and then no more, or it fails; the message
\* at hand has left bufOut_ and is lost.
ServeFails(s, sent, blocked) ==
  /\ pc = "write" /\ ~reliable /\ s \in ready \cap sockets_
  /\ sent < out[s]
  /\ IF sent = 0 THEN UNCHANGED <<active_, notify_>>
     ELSE Insert({s}) /\ Cardinality(active_') # maxActive
  /\ out' = [out EXCEPT ![s] = @ - sent - 1]
  /\ progress' = (progress /\ blocked)
  /\ AfterFd(active_', {})
  /\ UNCHANGED <<settings, life, taken, notify, addr_, writebuf_, registry,
                 writeTempSet, due, cut, expired, twice>>

ListeningWritten ==
  /\ pc = "write" /\ ready = {Listening}
  /\ AfterFd(active_, {})
  /\ UNCHANGED <<settings, object, registry, active_, notify_, writeTempSet,
                 progress, due, cut, expired, twice>>

WriteLoopEnds ==
  /\ pc = "write" /\ ready = {}
  /\ pc' = "except"
  /\ ready' \in SUBSET AllSet(sockets_)
  /\ UNCHANGED <<settings, object, registry, active_, notify_, maxActive,
                 writeSet, writeTempSet, progress, rounds, due, cut, expired, twice>>

-----------------------------------------------------------------------------
(* The loop over the descriptors with an exception, and the end of a round. *)

\* do_except finds no error after all.
ExceptNoError(s) ==
  /\ pc = "except" /\ s \in ready \cap sockets_
  /\ Insert({s})
  /\ AfterFd(active_', ready \ {s})
  /\ UNCHANGED <<settings, object, registry, writeTempSet, progress, due, cut,
                 expired, twice>>

\* do_except closes the socket, which takes it out of sockets_; poll() goes on
\* to use the iterator to its entry there.  What the iterator led to may still
\* be readable, or not.
ExceptError(s) ==
  /\ pc = "except" /\ s \in ready \cap sockets_
  /\ Close({s})
  /\ due' = due \cup {s}
  /\ \/ Insert({s}) /\ AfterFd(active_', ready \ {s})
     \/ /\ pc' = "crashed"
        /\ UNCHANGED <<active_, notify_, ready, maxActive, writeSet, rounds>>
  /\ UNCHANGED <<settings, taken, notify, addr_, out, writebuf_, writeTempSet,
                 progress, cut, expired, twice>>

ListeningExcept ==
  /\ pc = "except" /\ Listening \in ready
  /\ progress' = FALSE
  /\ AfterFd(active_, ready \ {Listening})
  /\ UNCHANGED <<settings, object, registry, active_, notify_, writeTempSet,
                 due, cut, expired, twice>>

\* Again, if there is time left and progress was made; or enough.
RoundEnds ==
  /\ pc = "except" /\ ready = {}
  /\ \/ Finish
     \/ /\ progress /\ rounds < MaxRounds
        /\ pc' = "select" /\ writeSet' = writeTempSet
        /\ UNCHANGED <<ready, maxActive, rounds>>
  /\ UNCHANGED <<settings, object, registry, active_, notify_, writeTempSet,
                 progress, due, cut, expired, twice>>

-----------------------------------------------------------------------------
Application ==
  \/ \E n \in 1 .. Cardinality(Sockets) : Accept(n)
  \/ \E s \in Sockets, a \in Addrs : Connect(s, a)
  \/ \E s \in Sockets : Dispose(s)
  \/ \E s \in Sockets : Write(s)
  \/ \E s \in Sockets : SetEtworkSocketNotify(s)
  \/ \E max \in MaxActives, late \in SUBSET sockets_ :
       \E quiet \in SUBSET (sockets_ \ late) : Poll(max, late, quiet)

Reading ==
  \/ ListeningRead
  \/ \E s \in Sockets, a \in Addrs : AcceptConnection(s, a)
  \/ \E s \in Sockets, a \in Addrs : RecvFromStranger(s, a)
  \/ \E a \in Addrs : RecvFromPeer(a)
  \/ \E s \in Sockets : ReadsNothing(s)
  \/ \E s \in Sockets, some \in BOOLEAN : ReadsData(s, some)
  \/ \E s \in Sockets, error \in BOOLEAN : ReadsEnd(s, error)
  \/ ReadLoopEnds

Writing ==
  \/ \E s \in Sockets : WritesNothing(s)
  \/ \E s \in Sockets, taking \in 0 .. MaxOut, leaves \in BOOLEAN :
       WriteSocket(s, taking, leaves)
  \/ \E s \in Sockets : WriteFails(s)
  \/ \E s \in Sockets : ServeSocket(s)
  \/ \E s \in Sockets, sent \in 0 .. MaxOut - 1, blocked \in BOOLEAN :
       ServeFails(s, sent, blocked)
  \/ ListeningWritten
  \/ WriteLoopEnds

Excepting ==
  \/ \E s \in Sockets : ExceptNoError(s)
  \/ \E s \in Sockets : ExceptError(s)
  \/ ListeningExcept
  \/ RoundEnds

Next ==
  \/ Application
  \/ Select
  \/ Reading
  \/ Writing
  \/ Excepting
  \/ \E s \in Sockets, disposes \in BOOLEAN : Callback(s, disposes)
  \/ PollReturns

Spec == Init /\ [][Next]_vars

-----------------------------------------------------------------------------
(* Properties *)

ObjectsTyped ==
  /\ reliable \in BOOLEAN /\ accepting \in BOOLEAN
  /\ life \in [Sockets -> {"free", "open", "closed", "deleted"}]
  /\ taken \in [Sockets -> BOOLEAN] /\ notify \in [Sockets -> BOOLEAN]
  /\ addr_ \in [Sockets -> Addrs \cup {NULL}]
  /\ out \in [Sockets -> 0 .. MaxOut] /\ writebuf_ \in [Sockets -> BOOLEAN]

RegistryTyped ==
  /\ sockets_ \subseteq Sockets /\ accepted_ \in Seq(Sockets)
  /\ socketAddrs_ \in [Addrs -> Sockets \cup {NULL}]

PollTyped ==
  /\ active_ \subseteq Sockets /\ notify_ \subseteq Sockets
  /\ pc \in {"idle", "select", "read", "write", "except", "notify", "crashed"}
  /\ maxActive \in Nat /\ progress \in BOOLEAN /\ rounds \in 0 .. MaxRounds
  /\ writeSet \cup writeTempSet \cup ready \subseteq Sockets \cup {Listening}
  /\ due \cup cut \cup expired \subseteq Sockets /\ twice \subseteq Addrs

\* Each variable keeps its kind; in particular the buffers of a socket, which
\* the application, the keepalives and connect() fill, never exceed their limit.
TypeOK == ObjectsTyped /\ RegistryTyped /\ PollTyped

\* The manager knows each open socket in exactly one place and no other object:
\* sockets_ has those the application holds, accepted_, without repetition,
\* those that wait for accept(), and every entry of socketAddrs_ is an open
\* socket with that address.  So remove_socket() never misses, and neither a
\* poll nor a datagram reaches a socket that was closed or deleted.
Registered ==
  /\ sockets_ = {s \in Sockets : life[s] = "open" /\ taken[s]}
  /\ {accepted_[i] : i \in 1 .. Len(accepted_)} =
       {s \in Sockets : life[s] = "open" /\ ~taken[s]}
  /\ \A i, j \in 1 .. Len(accepted_) : accepted_[i] = accepted_[j] => i = j
  /\ \A a \in Addrs : socketAddrs_[a] # NULL =>
       life[socketAddrs_[a]] = "open" /\ addr_[socketAddrs_[a]] = a

\* A datagram from the address of an open unreliable socket finds this socket,
\* unless the application connected to an address that had a socket.
Findable ==
  ~reliable =>
    \A s \in Sockets : life[s] = "open" /\ addr_[s] \notin twice =>
      socketAddrs_[addr_[s]] = s

\* What a poll reports exists and is the application's: no socket that waits
\* for accept(), and none that is gone.  A socket is reported in one way, to its
\* notifier if it has one.
ReportsLive ==
  pc \notin {"idle", "crashed"} =>
    /\ \A s \in active_ \cup notify_ : Held(s)
    /\ notify_ = {s \in notify_ : notify[s]}
    /\ active_ \cap {s \in Sockets : notify[s]} = {}

\* For TCP, and as long as the time-outs alone do not fill it, poll() keeps
\* within outActive: the test after each descriptor stops it in time.
MaxActiveKept ==
  reliable /\ pc # "idle" /\ Cardinality(expired) < maxActive =>
    Cardinality(active_) <= maxActive

\* When a poll is over the application has been told of every socket of its own
\* that data came for, that timed out, or whose end or error was seen.
Reported == pc = "idle" => due = {}

Service == INSTANCE SocketService WITH
             free <- {s \in Sockets : life[s] = "free"},
             queue <- accepted_, held <- sockets_, news <- due,
             polling <- pc # "idle"

\* To the application the manager is a SocketService: a socket is handed out
\* once, in the order in which the connections came, and never works again once
\* it has ended, and a poll tells of all that happened.
IsSocketService == Service!Spec

\* notify.h: "notify() will also be called when the socket is closed".
ClosedNotified == pc = "idle" => cut = {}
=============================================================================

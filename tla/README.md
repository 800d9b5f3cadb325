# Verification of etwork

TLA+ models of etwork, a small C++ networking library (framed messages over
TCP or UDP, one thread, `select()`), with the runs that model-check them and
the proofs that hold for every size. Paths below are those of the repository,
with `lib/` for `src/lib/`, and so on.

## The system

| component | state | operations | models |
|---|---|---|---|
| `Buffer` (`lib/buffer.cpp`) | `queue_`, `curTarget_`, `written_`, `toSkip_`, `tmpSize_` | `put_data`, `put_message`, `get_data`, `get_message` | `BufferOps`, `EtworkBuffer` |
| `Socket` (`lib/sockimpl.h`, `lib/socketbase.cpp` 794-915) | `bufIn_`, `bufOut_`, `writebuf_`, `closed_`, `accepted_`, `notify_` | `read`, `write`, `dispose`; `do_read`, `do_write`, `do_except` from `poll()` | `EtworkLink` (two ends of one TCP connection), `SocketManager` (many sockets) |
| `SocketManager` (`lib/socketbase.cpp` 1-790) | `sockets_`, `accepted_`, `socketAddrs_`, `active_`, `notify_`, descriptor sets | `CreateEtwork`, `open`, `poll`, `accept`, `connect`, `dispose` | `SocketManager` (one manager at work), `Lifecycle` (how managers and sockets come and go) |
| `ChatHost` (`chatserver/chathost.cpp`) | `clients_`, `namedClients_`, each client's phase | `open`, `poll`, the service functions of each phase | `ChatHost` |
| `ChatUser` (`chatclient/chatclient.cpp`) | logged in or not, timers | `open`, `poll`, `sendText` | `ChatSession` (users and host together) |
| `MarshalManager` (`lib/marshal.cpp` 560-700) | `toResolve_`, `stringMarshallers_`, `intMarshallers_` | `setMarshaller`, `startup`, lookups | `MarshalManager` |
| marshallers and `Block` (`lib/marshal.cpp`, `lib/block.cpp`) | ranges and widths; a cursor | `marshal`, `demarshal`, `seek`, `read`, `write`, `<<`, `>>` | `Marshallers`, `TypeMarshal` |
| errors (`lib/errors.cpp`) | `error_`, `text_`; `gErrorNotify` | copies, assignments, `c_str`, `setText`; `wsa_error_from` and its like | `ErrorText`, `EtworkErrors`, `Lifecycle` |
| `Locker` (`etwork/locker.h`) | a critical section | enter, leave | `Lifecycle` |
| `Timer`, dialogs, tester | | | not modelled |

How they interact. The application calls `poll()`; that closes sockets that
have timed out, queues keepalives, calls `select()`, and then goes through the
readable, the writable and the exceptional descriptors. A readable TCP socket
passes what `recv()` gives to `bufIn_.put_data`; a writable one moves
`bufOut_.get_data` into `writebuf_` and sends from there. A UDP datagram is
looked up in `socketAddrs_`, or makes a socket that waits for `accept()`. What
had activity goes to the caller in `outActive`, or to its `INotify` from the
destructor of `NotifyActive` when `poll()` returns. `read()` and `write()` are
`bufIn_.get_message` and `bufOut_.put_message`. The chat programs use only
this interface.

A manager is used by one thread; threads with managers of their own share
`gethostLock`, the answer of `gethostbyname()` and the global notifier. What makes
the code hard is that TCP cuts the stream anywhere and takes part of a send; that
a connection ends between any two steps; that sockets close inside the loops of `poll()` which hold sets of
descriptors, iterators and pointers; that callbacks re-enter the library;
that system calls fail half-way; and that every queue is bounded.

What makes each component correct: a `Buffer` is a bounded first-in first-out
queue of whole messages, whatever the fragments; a connection loses, repeats
and reorders nothing and does not stand still; the manager knows each open
socket once and no closed one, reports what happened to the sockets it has
handed out, and stays within `outActive`; the chat host's table of names agrees
with its clients; marshalled values come back; every descriptor and every error
text has one owner; a failure is told to whoever wants to hear of it, and blames
what failed.

## Modules

`BufferOps.tla` has `Buffer`'s operations as functions from a buffer to a
buffer, one operator per block of `put_data` and `get_data`; a turn of the
`goto more` loop is `PutDataTurn` or `GetDataTurn`. `FillTarget`, `CopyIn`
(line 162) and `CopyOut` (line 208) copy where the code does, at the start of
the message. `Junk` stands for uninitialised memory.

`EtworkBuffer.tla` is one buffer in one of its three uses: `local` (messages in,
messages out), `send` (`bufOut_`) and `receive` (`bufIn_`). A call of
`put_data` or `get_data` is one action to start it and one per turn, with the
data of each turn cut anywhere. `MessageQueue.tla` is the abstract
specification, a bounded queue of message sizes, with `used` for the bytes;
`EtworkBuffer` implements it with the mapping `q <- sizes in queue_`,
`used <- written_` (`IsMessageQueue`).

`EtworkLink.tla` composes `BufferOps` twice on each side into a TCP connection.
`pipe[e]` holds the bytes `e` has sent and the peer has not received, and
`PipeSize` bounds it; `gone[e]` says how the system's side of `e` ended.
Every `send()` may take any part of `writebuf_` or none. An end in `Blocking` is
one whose `send()` waits until all is sent, as a TCP socket's may, for only the
UDP socket is made non-blocking: while `InSend`, its thread does nothing else. `read_`, `written`,
`taken`, `given` and `dropped` are history: `dropped[e]` is set when `put_data`
refuses a message for want of room in the `bufIn_` of `e`, which nobody is told of.
`Connection.tla` is its abstract specification: in each direction a queue of whole
messages, and nothing of bytes, buffers, partial sends or the ways a connection
ends. An end may `Lose` messages only if more of them, or more bytes, are unread than
its buffer may hold; of its direction nothing is promised from then on. `EtworkLink`
implements it (`IsConnection`), whatever the limits and however late the reader, with
the mapping `way[e] <-` what `e` has written and its peer has not read, `got[e] <-`
what `e` has read, `lossy <-` the ends that have `dropped`.

`SocketManager.tla` is `SocketManager` with all its sockets. The contents of
messages are left out (the link has them); `out[s]` counts `bufOut_` and
`writebuf_[s]` says whether some bytes wait there. `pc` is the place in
`poll()`: `select`, then the loops `read`, `write` and `except` over the
descriptors in `ready`, then `notify` for `~NotifyActive`. Each descriptor
handled is an action, ending with the test for a full `active_` (`AfterFd`).
For UDP one descriptor, `Listening`, stands for all sockets, as in the code;
each datagram received, and each socket served by `handle_listening_write`, is
an action of its own. A callback may dispose its own socket; its other calls
(`write`, `accept`, `connect`) have the same effect as between polls and are
made there. `SetEtworkSocketNotify` is only called between polls, as `notify.h`
demands. `due`, `cut`, `expired` and `twice` are history. `ExceptError` has the
undefined outcome of lines 367-371, where the iterator was erased by
`close_socket()`: the socket is reported, or the program crashes.
`SocketService.tla` is the abstract specification, what the application sees:
sockets wait in a queue, are `held` from `accept()` or `connect()` until they end or
are disposed and never again, and `news` is what it still has to be told before
`poll()` returns. Descriptors, rounds, the three loops, `active_` and `notify_` are
hidden. `SocketManager` implements it (`IsSocketService`) with `free <-` the unused
sockets, `queue <- accepted_`, `held <- sockets_`, `news <- due` and `polling <-`
whether `pc` is inside `poll()`; a program that has crashed there never leaves it.

`ChatHost.tla` is the chat server. Its `poll()` is cut into one message read,
one client dropped or one newcomer taken in at a time; `pc` is the place in
`poll()`, `serving` the client whose service function runs and which of the two
it is (a client that logs in stays in `serviceDiscovered` to the end of that
call). Clients are places in memory, so that a pointer left in `namedClients_`
may point to nothing (`Dangling`: the program goes on or crashes) or to another
client. The manager below is what `SocketManager` promises: sockets that wait,
their messages, and whether they are closed; its `poll()` may also fail
(`PollFails`), and then the host exits. `output` is what the last step
wrote, `shown` the list in the server's window (`chatserver.cpp`).

`ChatSession.tla` extends it with `ChatUser`s over UDP. One datagram is on the
way at a time, and is lost when another is sent; the first of a connection only
makes a socket, as `handle_listening_read` does. `HostStep` is a step of
`ChatHost` whose output becomes a datagram; `Composed` leaves out what the other
side of the composition rules out, and the host's `poll()` does not fail in a session.
Over TCP the session would add only
`EtworkLink`'s order, so it is not modelled again.

`Marshallers.tla` has the marshallers of integers, floats, strings and so on as
records, and what they write and accept as functions on bytes, of any width
(`ByteBits`, `IntBytes`, `LongBytes`). `FullShift` is `1ULL << 64`, which the
language leaves open: 0 is what the 32-bit build computes and what the tester
relies on. Floats are their multiples of a unit. `TypeMarshal.tla` is a struct
of members, nested, over a `Block`: a call takes one step per member, with the
recursion on `stack`; between calls the block is filled, moved, read and written.

`Lifecycle.tla` has several managers, each with its thread, from `CreateEtwork()`
to `dispose()`. A call is cut at its system calls, each of which may fail; `pc[m]`
is the next one. Descriptors are a small set, so that the system gives a number
out again after `closesocket()`; `listening_`, `at` (the local variable of
`connect()`) and `s_` keep them. What a `poll()` does to sockets is `Arrives` and
`CloseSocket`, whose details `SocketManager` has. `failure` is the call that
returned 0 or -1 in the last step, at which place, with whom it told and what; sockets
that waited
for `accept()` when their manager was disposed are `abandoned`.
A manager is disposed after its sockets: `dispose()` only warns when some are left,
and what they do later is undefined. A system call fails with any of the codes that
the documentation of Windows Sockets lists for it (`SocketErrors`, `BindErrors`,
`LookupErrors`, `ConnectErrors`), or with `"another"`, which stands for all that
`GetWsaError()` does not know. `EtworkErrors.tla` is the table of `GetWsaError()` and
the choice of the notifier; of an error it has the option, not the severity or the
area.

`ErrorText.tla` is `EtworkError` as an owner of memory: objects are places,
`heap` the blocks of `strdup()`. `spoilt` marks the two cases in which the code
cannot be right, an integer assigned over an error with a text and a text used
after it was freed.

`MarshalManager.tla` is the registry: one action per member looked up, with
`resolve()` inside `resolve()` on `stack`, for `startup()` and for the
lookups after it. A type stands for its marshaller too, and its number for
the place of its name in the order of the map. `Unwind` is an exception on its
way out.

The code is modelled as in a release build: assertions do not stop it. `send`,
`recv`, `select`, `accept` and the network are external and may do all that
their documentation allows. All models but `Lifecycle` are of one thread.

## Runs

| run | shows | states |
|---|---|---|
| `buffer_and_types` | of the buffer: `FramesFollowed`, `OutputFramed`, `NoNeedlessDrop`, `CallsReturn`, refinement of `MessageQueue`; of the registry: `OnePlace`, `Complete`, `StartupTells`, `ResolvingReturns` | 532 thousand |
| `link` | `StreamIntact`, `DeliveredInOrder`, `CloseNoticed`, `EveryWriteIsReadUnlessBackedUp`, refinement of `Connection` | 20 thousand |
| `manager` | `Registered`, `Findable`, `ReportsLive`, `MaxActiveKept`, `Reported`, refinement of `SocketService` | 2.6 million |
| `errors` | of the life cycle: `DescriptorsOwned`, `FailureHeard`, `ConnectsWhereAsked`, `CallsReturn`; of the texts: `OwnedOnce`, `TextKept` | 367 thousand |
| `chat_host` | `NameOwned`, `SocketOwned`, `ServesItsClients`, `ListShown` | 2.0 million |
| `chat_session` | `TableAgrees`, `LoggedInTruly`, `LogsIn`, `GoneForgotten` | 93 thousand |
| `type_marshal` | `Rewinds`, `EnoughRoom`, `ComesBack` | 2.1 million |
| `half_message` | violated: a body received in two pieces has the wrong bytes | |
| `closed_notified` | violated: a socket closed by a failed `send()` is not notified | |
| `host_survives` | violated: dropping a client that never logged in crashes the host | |
| `own_notifier` | violated: `CreateEtwork()` fails without a word to the notifier in its settings | |
| `round_trip` | violated: an int whose range begins below zero comes back as another value | |

`buffer_and_types` and `errors` each check two models in one run. The two share no
state: the variable `part`, chosen in the first state, says which of them a behaviour
is about, and the other rests in its initial state (`MCBufferAndTypes.tla`,
`MCErrors.tla`). Their properties are those of the two models, and hold in the half
that rests for no other reason than that nothing happens there; the mutants break each
of them in its own half.

`TypeOK` is also an invariant of `manager`, `chat_host` and `type_marshal`.
`Capacity` and `QueueIsFifo` of the buffer, `FoundById` of the registry and the other
type invariants are proved (below) for all sizes; the runs do not repeat them.

Bounds. *Buffer*: `MaxMsgSize` 3, `QueueSize` 5, two messages, bytes of radix 3
so that both length bytes matter (a frame of 3 needs the high byte), frames of
0, 3 and 4 (empty, largest, too large), up to three frames: enough for each
limit to be hit first, for a refused frame between accepted ones, and for every
cut of headers and bodies. *Link*: messages of 0 and 2 bytes one way and a
keepalive the other way, a pipe of two bytes so that every send can be partial
and every frame be received in pieces; the `send()` of one end waits, the other's
does not. `QueueSize` is 3 and a message has 2 bytes, so that a reader who is late by
one message loses the next (`dropped` is reached, for bytes); refusals by the number of
messages are not reached, and are covered by the proof. *Lifecycle*: two managers, one with a notifier, two sockets and two
descriptors, so that they run out and numbers are used again, two hosts; a call
keeps a socket in reserve (`Spare`). *Error text*: two objects and three blocks,
one more than they need, so that what one frees the other may get, and two codes of which
one has no name; the proofs are for any number. *Manager*: two sockets, two addresses, two queued
messages, `maxActive` 1 or 2, two rounds of `poll()`, so that two sockets can
compete for a slot and for an address and a descriptor can become stale in a
second round; sockets and addresses are symmetric. An object is not reused
after it is deleted, so a behaviour ends when both have been used; hence
`CHECK_DEADLOCK FALSE` (also for buffer and link, where the peers stop sending; `errors`
has no such end, and deadlock is checked).
*Chat host*: two clients, three connections, so that the host can be full and an
object be used again; two names of which one begins with the other, and the
empty one; two messages wait at a time, in one connection or in two, so that a
login can meet a logout, a text or another login in one poll. *Session*: two
users who want the same name, one of whom only comes and goes. *Type marshal*:
bytes of two bits, ints of two bytes, longs of three, a block of seven bytes in
which each record just fits or just does not; four structs, one inside another and
one whose range does not begin at 0, with every kind of member, legal and illegal
values, and blocks filled with noise. *Marshal manager*: every way in which three types can have up to two
members of each other, itself included, any ids from {0, 1, 2}, registered in
any order, twice or not at all. A chat host that has crashed stops, and after
`startup()` there may be nothing to look up: `CHECK_DEADLOCK FALSE`.

Fairness. `LiveSpec` of the buffer: a call that has begun goes on, for there is
one thread. `LiveSpec` of the link: both applications keep polling and reading
(`WF` of `DoRead`, `DoWrite`, `Read`); nothing is assumed of writing, of the
network failing, or of a send that would block. The manager has no fairness,
and no liveness property. `LiveSpec` of the session: the host keeps polling
(`WF`), for a timer drives it; the sweep of `poll()` drops a silent client
sooner or later, a user that is not logged in sends its login again and again,
and a datagram sent again and again arrives now and then (`SF`, for losses
disable these steps between two attempts). `LogsIn` is for a user that is alone:
with another who keeps its name the right answer is no. Both liveness properties
end at a crash of the host (`host_survives`). `LiveSpec` of the marshal manager:
a call that has begun goes on. `LiveSpec` of the life cycle: a
thread in a call goes on (`WF` of `Steps`), and one that waits for the lock gets
it if it is free again and again (`SF`), which a critical section gives.

`EveryWriteIsReadUnlessBackedUp` has its condition because the code needs it: an
end whose output is full stops reading (`lib/sockimpl.h:113` tests `bufOut_`, where
`bufIn_` seems to be meant), so two of them, or two inside a `send()` that waits,
stand still for ever. `wants_to_read()` does not look at the room in `bufIn_`, and
`put_data` drops what has none: `DeliveredInOrder` is about what is read until then,
`EveryWriteIsReadUnlessBackedUp` ends at it, and `IsConnection` says that it happens only
to a reader that has left more unread than its limits allow. With the default limits
(1400, 4000, 50) one `recv()` can bring that many, for small messages. `MaxActiveKept` is for TCP and for polls
whose time-outs leave room, `Findable` for addresses connected to once, and
`FramesFollowed` until a refused frame reaches over the end of a `put_data`
call (see below). `TableAgrees` is for peers that are `ChatUser`s: others can
log in a second time with a prefix of their name and leave an entry behind
(`chathost.cpp:448`), which is why `NameOwned` is one-way. `ComesBack`
is for ints whose range begins at 0 (finding 5). `FailureHeard` has three parts: when a
system call of `open()` or `connect()` fails, the notifier of the manager hears of it;
when there is a global notifier, no failed call goes unheard; and an error that blames an
address, a port or a peer comes from a step that used it, whatever code the system
gave. What fails before the first system call goes to the global notifier only
(finding 4). `TextKept` leaves out `spoilt` errors and their copies. `FoundById` is for ids used once: the manager
does not notice when two types share one, although `marshal.h:340` says that
"the system will detect and abort if duplicates are found".

## Findings

1. `put_data` ignores `offset_` (`lib/buffer.cpp:162`; `get_data` likewise at
   208): a message whose body comes in two pieces is garbage (`half_message`).
2. A failed `do_write` closes the socket without a notification
   (`lib/socketbase.cpp:311`; `closed_notified`).
3. A client that never logged in cannot be dropped (`chathost.cpp:245`;
   `host_survives`).
4. When `CreateEtwork()` refuses its settings, or `WSAStartup()` fails, or the port is 0
   (`lib/socketbase.cpp:936`, 954, 964, 54), the error is reported with no manager, and
   the notifier in the settings, which `errors.h:102` promises it to, hears nothing; for
   wrong sizes the global one is told `EO_no_error`, where `errors.h:141` has
   `EO_invalid_parameters` for this (`own_notifier`).
5. `IntMarshaller::demarshal()` adds `min_` (`lib/marshal.cpp:83`), but `marshal()` does
   not subtract it: an int whose range does not begin at 0 comes back as another value,
   or is refused, where `marshal.h:152` has `assert( s1 == s2 )` (`round_trip`).

Each is a run that TLC refutes, with the line of the documentation it
contradicts, in `PROJECT.json`. More things were met while modelling, and
are why the properties above have conditions: `toSkip_` is ignored by the next
call of `put_data`, so framing is lost after a refused frame that spans two calls
(`lib/buffer.cpp:120`); `active_.size() == maxActive` is tested after a whole
descriptor and for equality, so more than `maxActive` sockets can be reported
(`lib/socketbase.cpp:284`); `remove_socket()` erases the address of another socket
when two share one (`lib/socketbase.cpp:515`). The `id_` of a marshaller that is
resolved inside another stays 0 (`lib/marshal.cpp:654`), unlike what
`marshal.h:274` says of `id()`. `EtworkError::operator=( int )` keeps the text of
the old code, and assigning an error to itself reads freed memory
(`lib/errors.cpp:234`); `option_str()` has no name for `EO_internal_error`
(`lib/errors.cpp:308`). `SocketManager::dispose()` leaves sockets that wait for
`accept()` with their descriptors (`lib/socketbase.cpp:485`), which
`DescriptorsOwned` admits by name. `poll()` takes the microseconds of `select()`
from `seconds` (`lib/socketbase.cpp:214`). Port 0 is refused, where `etwork.h:63` says
"If 0, choose any random port", and codes that make a call fail are reported as
`ES_warning`, by `errors.h:114` an error "worked around by library"
(`lib/errors.cpp:41`, 43). Messages dropped for want of room in `bufIn_` contradict
"each call to write() on a socket will result in exactly one return from read()" in
`documentation.h`, which has no other condition than the connection's life.

## Proofs

`EtworkBufferProofs.tla` proves for all limits, radixes, sizes and cuts:
`TypeOK`, `Capacity`, `QueueIsFifo`, that `EtworkBuffer` implements
`MessageQueue`, and `FramesFollowed`, `OutputFramed` and `NoNeedlessDrop`.
`Capacity` is not inductive: room is checked when a header
arrives and used when the last byte does. The invariant (`BufferOK`) reserves
that room for `curTarget_` in between; `Totals` has `written_` as the
difference of two running totals, so that it never passes below zero.

The other three relate the buffer to the frames of the whole stream (`FollowInv`). There
is a stream of all the peer's frames, with the place where each ends (`IsStream`),
whose rest is what the call and the wire still hold (`Placed`); `Point` says where
in a frame the fields of the buffer stand, `Past` which frames are done with, and
`FramesOK` which frame each message is. `OutOK` is what `get_data` has returned so
far: lengths (`HeadersOut`), and bodies where they were copied out in one piece
(`BodiesOut`). `NoNeedlessDrop` needs that nothing was refused up to now (`AllKept`),
then the next frame fits, too (`NextFits`). Turns of the `goto more` loops are
shown to move along the stream once for any buffer, stream and data, and the
actions use that.

`SocketManagerProofs.tla` proves for every finite set of sockets, all addresses
and bounds: `TypeOK`, `Registered`, `ReportsLive`, `Reported`, `Findable` and
`MaxActiveKept`. `Registered` and `ReportsLive` hold each other up: a callback
may dispose its socket, and `remove_socket` looks for it in `sockets_` only
because nothing that waits for `accept()` is ever reported; and what `poll()`
reports is live because it is found in `sockets_` and in `socketAddrs_`.
`StepOnRegistry` reduces all actions to four ways of changing the registry, and
each property is then shown for these four. `Reported` needs `ReportsDue`:
while a poll runs, what is due is in `active_` or `notify_`. `MaxActiveKept`
needs `RoomLeft`: between two descriptors there is room for one more.
`ManagerIsService` is the refinement of `SocketService`: the actions are eight
things the application can notice, or nothing (`StepIsServiceStep`). It rests on the
invariants above: a socket that ends is in `held` because only live ones are handled
(`Registered`), and `poll()` may return only with `news` empty (`Reported`).

`EtworkLinkProofs.tla` proves for all limits, sizes, and ways in which TCP cuts the
stream: `StreamIntact` and `DeliveredInOrder`. `Offset` says where each frame begins
in the stream of the messages written; `Framed` is a queue whose rest continues the
stream, and `Parsed` a `bufIn_` that has made of a prefix of it the right messages.
`GetDataFrames` and `PutDataParses` say that a whole call of `get_data` or
`put_data`, with all turns of its loop, keeps them. `StreamInv` follows the bytes of each
direction from the queue to the peer; it is needed because `StreamIntact` says
nothing of where in a frame `get_data` has stopped. `ReceptionInv` adds to it what the receiver has
made of them: the messages read, those queued and the one it has a part of are the first
that were written. They hold until `bufIn_` refuses a message, for any limits and any reader, with no
assumption on the room. `LinkIsConnection` is the refinement of `Connection`. What
is on its way is written as what the peer has not read; that a `read()` takes the
oldest of these, and that there is one, is `DeliveredInOrder`, and `RestRead` that
taking it leaves the tail. A refusal is a step `Lose`: where `put_data` refuses a
message, those queued and that one are among the unread, in this order and in one
piece (`Crowded`), and are too many or too large together. All else that moves bytes is a stutter
(`OthersStutter`).

`ChatProofs.tla` proves all five invariants of the chat host for any clients,
connections, names and prefixes. `ServesItsClients` comes first, with the order
of the parts of `poll()` (`Phases`): it says who may be deleted. `StepOnClients`
then reduces all actions to four things that can happen to the clients that are
there: nothing, one gets a name or loses it, one is dropped, one is taken in;
`SocketOwned` and `NameOwned` are each shown for these four. `TypeOK` needs that
there is room for a newcomer until it is taken in (`Room`), and that the table is
finite (`FiniteTable`); `ListShown` that as long as `generation_` is what it was
the list is right (`ListKnown`).

For the session it proves `TableAgrees` and `LoggedInTruly`, for any users and names,
and whatever the network loses or delays. `SessionUsesHost` shows that a session is a
behaviour of the host, so that the invariants above hold in it. The invariant of the
session says for each user what may be under way: only its own name, and a
welcome only when the host has let it in; `TableAgrees` needs that, for it fails with
a peer that logs in under two names.

`MarshalManagerProofs.tla` proves for any number of types, however they contain
each other: `TablesTyped`, `OnePlace`, `FoundById`, `Complete` and `StartupTells`. Each
running `resolve()` has found the members before its place (`Passed`), and a type
carries its own id on its way (`OwnIds`). For the sizes, `Sized` is what a running
`resolve()` has added up so far, `FoundSizes` what is found. `StartupTells` has two
halves: the order in which types are found is one without cycles (`InOrder`), and
when `startup()` succeeds none is lost (`NoneLost`); when it aborts, any such order
would put a type before itself, for it was asked for by the calls below it (`Asked`).

`TypeMarshalProofs.tla` proves for all widths, types, values and blocks: `TypeOK`,
`Rewinds`, `EnoughRoom` and `ComesBack`. `CodeComesBack` is the arithmetic: digits
written most significant first are read again. `RoundTrip` is one member: what
`demarshal()` makes of what `marshal()` wrote. `CallInv` describes the stack of a call
(`Nested`: each struct is the next member of the one around it, and begins no earlier);
`Rewinds` is not inductive without it, for a failure seeks back to what the bottom of the stack
remembers. `RoomInv` has the room that the structs around the cursor still leave
(`Roomy`); that `MaxSizeOf` is defined at all needs types that do not contain
themselves, which `TypeMarshalAssumption` says with a rank. `BackInv` says where the last
record lies in the block (`Laid`) and that a call that reads it has come just
so far through its members (`Resumed`); that both calls go the same way through a
type (`Along`) is shown once, for the way without cursors.

`LifecycleProofs.tla` proves for any managers, threads, sockets and descriptors:
`TypeOK`, `DescriptorsOwned`, `ConnectsWhereAsked` and `FailureHeard`. What may keep
a descriptor is a holder; holders and open descriptors are one to one (`Owned`),
and every action lets one holder drop what it has, lets one that has nothing take
a free descriptor, or hands one over. That the taker has nothing needs the places
of calls (`Stages`) and that unused sockets have no descriptor (`Kept`). For the
addresses, who is between look-up and copy has the lock (`Locked`). For `FailureHeard`,
`StageNamed` goes through the codes of each system call and what the table makes of
them.

`ErrorTextProofs.tla` proves for any objects, blocks and options: `TextsTyped`,
`OwnedOnce` and `TextKept`. Every action changes one object and at most the block
it had and the one it gets (`Gets`), which keeps ownership one to one; `TextKept`
needs that an object without a text has not been given one (`GivenThere`).

The assumptions are those stated with the constants: `BufferAssumption`,
`ClientAssumption` and `LinkAssumption` (limits that are numbers, bytes, two different
ends), `ChatAssumption` and `SessionAssumption` (finitely many clients, distinct model
values, datagrams that are not `Nothing`), the two `ManagerAssumption`s,
`LifecycleAssumption`, `TextAssumption`, `MarshallersAssumption` (a `long` is wider
than an `int`) and `TypeMarshalAssumption` (finitely many types, none a part of
itself, members that a constructor accepts, values that the member's C++ type
has).

Induction over data is proved from the well-foundedness of the numbers, with the
property as a set (`Induction`) or the recursive function as one of its values
(`Recursion`, `RecursionStays`); the theorems of the library that take an operator are
not used. The provers know nothing of `^`, so powers of two are the function `TwoTo`.

Only model-checked: liveness (`CallsReturn` of the buffer and of the life cycle,
`ResolvingReturns`, `CloseNoticed`, `EveryWriteIsReadUnlessBackedUp`, `LogsIn`, `GoneForgotten`).
Liveness under fairness and `ENABLED` are out of the prover's reach. Every invariant
of a passing run is proved, and so are the three refinements.

## Not modelled

`change_queuing_space` (sizes of system buffers), the macros that build the
description of a struct and the layout of structs in memory, `poll()`'s check of its
arguments, the severity, area and wording of errors, `Timer`, the dialogs of both chat programs, the tester. Time is not
modelled: any socket may time out, or need a keepalive, at any poll. Socket ids
that wrap after 2^32 connections are left out: a socket is its id (`lib/socketbase.cpp:597` looks for a free id in
`sockets_` only). A sender fast enough to keep `poll()` in its UDP loop (651) is left
out, and what a chat user loses when the connection ends before it has read its
last messages (`chatclient.cpp:138`). A callback
that disposes another socket than its own is left out: the interface does not
say what it means.

## Plan

All components that have state worth modelling are modelled. What is left, in
this order:

1. A chat session over `SocketService` instead of `ChatHost`'s own account of sockets
   that wait, deliver and close, so that one chain of refinements leads from the
   programs down to `SocketManager`.
2. An abstract `Connection` that also ends, with `CloseNoticed` as its liveness
   property, shared by the link and the chat session.

------------------------------- MODULE ChatHost -------------------------------
(***************************************************************************)
(* class ChatHost (chatserver/chathost.cpp): the clients of a chat server, *)
(* the table of their names, and poll(), which reads what they sent, drops *)
(* those that left, says so to the others, and takes in newcomers.         *)
(*                                                                         *)
(* The host runs on one thread.  A poll is cut into one message, one       *)
(* client to drop or one newcomer at a time; the network acts between      *)
(* polls, for it reaches the host only through the poll of the manager     *)
(* that each poll begins with.                                             *)
(***************************************************************************)
EXTENDS Naturals, Sequences, FiniteSets

CONSTANTS
  Clients,      \* the places in memory that a CChatClient can have
  Sockets,      \* the connections of the manager
  Names,        \* the names one can have, but for the empty one
  NoName,       \* the empty name
  Prefixes,     \* <<m, n>>: the name n begins with m
  Reliable,     \* TCP or UDP
  MaxClients,   \* most clients the host takes (99)
  MaxWaiting,   \* bound: messages that wait in all sockets together
  NULL

AllNames == Names \cup {NoName}

\* A client in one of its two service functions.
Services == [client : Clients, which : {"discovered", "known"}]

ASSUME ChatAssumption ==
  /\ IsFiniteSet(Clients) /\ NULL \notin Clients \cup Sockets \cup Services
  /\ NoName \notin Names
  /\ Prefixes \subseteq AllNames \X AllNames
  /\ \A n \in AllNames : <<n, n>> \in Prefixes /\ <<NoName, n>> \in Prefixes
  /\ MaxClients \in Nat \ {0} /\ MaxClients <= Cardinality(Clients)
  /\ MaxWaiting \in Nat /\ Reliable \in BOOLEAN

VARIABLES
  \* The manager's sockets:
  waiting,      \* those that wait for accept()
  inbox,        \* what read() will return from each
  closed,       \* what closed() returns
  output,       \* what the last step wrote to each
  \* The clients, field by field, and the host:
  name, service_, socket_,
  clients_, namedClients_,
  bumped,       \* generation_ # lastGeneration_ (chatserver.cpp)
  shown,        \* the clients in the list of users (chatserver.cpp)
  \* The poll in progress:
  pc,           \* "idle", "poll", "kill", "accept", "crashed" or "exited"
  ready,        \* clients still to be served
  serving,      \* the client in a service function, and which one; or NULL
  heard,        \* those whose lastReceive is the time of this poll
  tokill,
  left          \* length of toBroadcast

network == <<waiting, inbox, closed>>
object == <<name, service_, socket_>>
loop == <<ready, serving, heard, tokill, left>>
vars == <<network, output, object, clients_, namedClients_, bumped,
          shown, pc, loop>>

\* The messages clients send.  One that the host does not know is treated as
\* a "logout".
Messages == [type : {"login"}, name : AllNames]
              \cup [type : {"keepalive", "text", "logout"}]

\* What the host writes: a line of chat, the answers to a login, a keepalive.
Replies == {"text", "accepted", "nologin", "keepalive"}

Silence == [s \in Sockets |-> <<>>]

Live == clients_ \cup IF serving = NULL THEN {} ELSE {serving.client}
Owned == {socket_[c] : c \in Live}

-----------------------------------------------------------------------------
Init ==
  /\ waiting = {} /\ inbox = Silence /\ closed = [s \in Sockets |-> FALSE]
  /\ output = Silence
  /\ name = [c \in Clients |-> NoName]
  /\ service_ = [c \in Clients |-> "discovered"]
  /\ socket_ = [c \in Clients |-> NULL]
  /\ clients_ = {} /\ namedClients_ = <<>>
  /\ bumped = FALSE /\ shown = {}
  /\ pc = "idle"
  /\ ready = {} /\ serving = NULL /\ heard = {} /\ tokill = {} /\ left = 0

(***************************************************************************)
(* The network.  A reliable socket is not read before it is accepted.      *)
(***************************************************************************)
NetworkTurn ==
  /\ pc = "idle"
  /\ output' = Silence
  /\ UNCHANGED <<object, clients_, namedClients_, bumped, shown, pc,
                 loop>>

Connect(s) ==
  /\ s \notin waiting \cup Owned
  /\ waiting' = waiting \cup {s}
  /\ UNCHANGED <<inbox, closed>>
  /\ NetworkTurn

Arrive(s, m) ==
  /\ s \in Owned \/ (s \in waiting /\ ~Reliable)
  /\ ~closed[s]
  /\ Cardinality(UNION {{r} \X DOMAIN inbox[r] : r \in Sockets}) < MaxWaiting
  /\ inbox' = [inbox EXCEPT ![s] = Append(@, m)]
  /\ UNCHANGED <<waiting, closed>>
  /\ NetworkTurn

Close(s) ==
  /\ s \in Owned /\ ~closed[s]
  /\ closed' = [closed EXCEPT ![s] = TRUE]
  /\ UNCHANGED <<waiting, inbox>>
  /\ NetworkTurn

(***************************************************************************)
(* broadcastText(): a line for every entry of the table of names.  An      *)
(* entry may point to an object that was deleted: then the program goes on *)
(* as if it were there, or crashes.                                        *)
(***************************************************************************)
Lines(table, s) ==
  [i \in 1 .. Cardinality({n \in DOMAIN table : socket_[table[n]] = s})
     |-> "text"]

Broadcast(table) == [s \in Sockets |-> Lines(table, s)]

Dangling(table) == {n \in DOMAIN table : table[n] \notin Live}

After(table, next) == {next} \cup IF Dangling(table) = {} THEN {} ELSE {"crashed"}

\* The destructor of a client, or of a socket that gets no client.
Dispose(s) ==
  /\ waiting' = waiting \ {s}
  /\ inbox' = [inbox EXCEPT ![s] = <<>>]
  /\ closed' = [closed EXCEPT ![s] = FALSE]

\* The constructor and the destructor of a client.
NewWithoutSocket(c, s) ==
  /\ name' = [name EXCEPT ![c] = NoName]
  /\ service_' = [service_ EXCEPT ![c] = "discovered"]
  /\ UNCHANGED socket_

NewUnnamed(c, s) ==
  /\ name' = [name EXCEPT ![c] = NULL]
  /\ service_' = [service_ EXCEPT ![c] = "discovered"]
  /\ socket_' = [socket_ EXCEPT ![c] = s]

New(c, s) ==
  /\ name' = [name EXCEPT ![c] = NoName]
  /\ service_' = [service_ EXCEPT ![c] = "discovered"]
  /\ socket_' = [socket_ EXCEPT ![c] = s]

Delete(c) ==
  /\ Dispose(socket_[c])
  /\ name' = [name EXCEPT ![c] = NoName]
  /\ service_' = [service_ EXCEPT ![c] = "discovered"]
  /\ socket_' = [socket_ EXCEPT ![c] = NULL]

(***************************************************************************)
(* The service functions read one message after the other.  The one a      *)
(* client had when it was called runs to its end, whatever service_ is by  *)
(* then.                                                                   *)
(***************************************************************************)
InService(c) ==
  pc # "crashed" /\ serving # NULL /\ serving.client = c
Serving(c, which) == InService(c) /\ serving.which = which

Received(c, types) ==
  /\ inbox[socket_[c]] # <<>>
  /\ Head(inbox[socket_[c]]).type \in types

Take(c) ==
  /\ inbox' = [inbox EXCEPT ![socket_[c]] = Tail(@)]
  /\ heard' = heard \cup {c}
  /\ UNCHANGED <<waiting, closed>>

\* The loop goes on with the next message.
TakesAndGoesOn(c) ==
  /\ Take(c)
  /\ UNCHANGED <<socket_, clients_, shown, ready, serving, tokill, left>>

\* It returns false, and the client is dropped at the end of the poll.
TakesAndFailsAtOnce(c) ==
  /\ Take(c)
  /\ serving' = NULL
  /\ tokill' = tokill \cup {c} /\ clients_' = clients_ \ {c}
  /\ UNCHANGED <<socket_, shown, ready, left>>

TakesAndFails(c) ==
  /\ Take(c)
  /\ serving' = NULL
  /\ tokill' = tokill \cup {c}
  /\ UNCHANGED <<socket_, clients_, shown, ready, left>>

ReadKeepalive(c) ==
  /\ InService(c)
  /\ Received(c, {"keepalive"})
  /\ TakesAndGoesOn(c)
  /\ output' = Silence
  /\ UNCHANGED <<name, service_, namedClients_, bumped, pc>>

\* MsgLogout, or a command the host does not know: a client is dropped later,
\* a newcomer at once.
ReadLogout(c) ==
  /\ InService(c)
  /\ Received(c, {"logout"})
  /\ \/ /\ pc = "poll" /\ TakesAndFails(c)
        /\ UNCHANGED <<name, service_>>
     \/ /\ pc = "accept" /\ Delete(c)
        /\ serving' = NULL
        /\ UNCHANGED <<clients_, shown, ready, heard, tokill, left>>
  /\ output' = Silence
  /\ UNCHANGED <<namedClients_, bumped, pc>>

(***************************************************************************)
(* MsgLogin.  validateName() looks the name up; one that is new is entered *)
(* and announced.                                                          *)
(***************************************************************************)
Login(c) == Head(inbox[socket_[c]]).name

NameTaken(c, n) == n \in DOMAIN namedClients_ /\ namedClients_[n] # c

Entered(c, n) ==
  [m \in DOMAIN namedClients_ \cup {n} |->
     IF m \in DOMAIN namedClients_ THEN namedClients_[m] ELSE c]

RefuseKeepingName(c) ==
  /\ name' = [name EXCEPT ![c] = Login(c)]
  /\ output' = [Silence EXCEPT ![socket_[c]] = <<"nologin">>]
  /\ UNCHANGED <<service_, namedClients_, bumped, pc>>

Refuse(c) ==
  /\ name' = [name EXCEPT ![c] = NoName]
  /\ output' = [Silence EXCEPT ![socket_[c]] = <<"nologin">>]
  /\ UNCHANGED <<service_, namedClients_, bumped, pc>>

Admit(c, n) ==
  LET isNew == n \notin DOMAIN namedClients_
      joined == IF isNew THEN Broadcast(Entered(c, n)) ELSE Silence
  IN  /\ ~NameTaken(c, n)
      /\ name' = [name EXCEPT ![c] = n]
      /\ service_' = [service_ EXCEPT ![c] = "known"]
      /\ namedClients_' = Entered(c, n)
      /\ output' = [joined EXCEPT ![socket_[c]] = Append(@, "accepted")]
      /\ pc' \in IF isNew THEN After(Entered(c, n), pc) ELSE {pc}

\* In serviceDiscovered().
ReadLogin(c) ==
  /\ Serving(c, "discovered") /\ Received(c, {"login"})
  /\ TakesAndGoesOn(c)
  /\ \/ NameTaken(c, Login(c)) /\ Refuse(c)
     \/ Admit(c, Login(c)) /\ bumped' = TRUE

ReadLoginAgainInSilence(c) ==
  /\ Serving(c, "known") /\ Received(c, {"login"})
  /\ <<Login(c), name[c]>> \in Prefixes
  /\ TakesAndGoesOn(c)
  /\ output' = Silence
  /\ UNCHANGED <<name, service_, namedClients_, bumped, pc>>

\* In serviceKnown(): accepted again, or kicked for another name.
ReadLoginAgain(c) ==
  /\ Serving(c, "known") /\ Received(c, {"login"})
  /\ <<Login(c), name[c]>> \in Prefixes
  /\ \/ NameTaken(c, Login(c)) /\ Refuse(c) /\ TakesAndFails(c)
     \/ /\ Admit(c, Login(c)) /\ TakesAndGoesOn(c)
        /\ bumped' = (bumped \/ Login(c) \notin DOMAIN namedClients_)

ReadOtherName(c) ==
  /\ Serving(c, "known") /\ Received(c, {"login"})
  /\ <<Login(c), name[c]>> \notin Prefixes
  /\ TakesAndFails(c)
  /\ output' = Silence
  /\ UNCHANGED <<name, service_, namedClients_, bumped, pc>>

\* MsgTextToServer: a NAK in serviceDiscovered(), a line for all in
\* serviceKnown().
ReadText(c) ==
  /\ InService(c) /\ Received(c, {"text"})
  /\ TakesAndGoesOn(c)
  /\ \/ /\ Serving(c, "discovered")
        /\ output' = [Silence EXCEPT ![socket_[c]] = <<"nologin">>]
        /\ UNCHANGED pc
     \/ /\ Serving(c, "known")
        /\ output' = Broadcast(namedClients_)
        /\ pc' \in After(namedClients_, pc)
  /\ UNCHANGED <<name, service_, namedClients_, bumped>>

\* No message is left; a newcomer, whose socket is open, joins the others.
ServiceEnds(c) ==
  /\ InService(c)
  /\ inbox[socket_[c]] = <<>>
  /\ serving' = NULL
  /\ \/ /\ pc = "poll"
        /\ tokill' = IF closed[socket_[c]] THEN tokill \cup {c} ELSE tokill
        /\ UNCHANGED clients_
     \/ /\ pc = "accept"
        /\ clients_' = clients_ \cup {c}
        /\ UNCHANGED tokill
  /\ output' = Silence
  /\ UNCHANGED <<network, object, namedClients_, bumped, shown, pc,
                 ready, heard, left>>

(***************************************************************************)
(* poll()                                                                  *)
(***************************************************************************)
\* The poll of the manager reports r: all that have sent something, and
\* others on which something else happened.
Poll(r) ==
  /\ pc = "idle" /\ pc' = "poll"
  /\ {c \in clients_ : inbox[socket_[c]] # <<>>} \subseteq r
  /\ ready' = r
  /\ output' = Silence
  /\ UNCHANGED <<network, object, clients_, namedClients_, bumped,
                 shown, serving, heard, tokill, left>>

\* It reports nothing and returns -1, because select() has failed: the host exits.
PollFails ==
  /\ pc = "idle" /\ pc' = "exited"
  /\ output' = Silence
  /\ UNCHANGED <<network, object, clients_, namedClients_, bumped, shown,
                 ready, serving, heard, tokill, left>>

Serve(c) ==
  /\ pc = "poll" /\ serving = NULL
  /\ c \in ready
  /\ ready' = ready \ {c}
  /\ serving' = [client |-> c, which |-> service_[c]]
  /\ output' = Silence
  /\ UNCHANGED <<network, object, clients_, namedClients_, bumped,
                 shown, pc, heard, tokill, left>>

\* Lines 233-235.
BumpedBySweep(dropped) == bumped \/ dropped # tokill

Bumped(dropped) == bumped \/ dropped # {}

DroppedIfKnown(old, gone) ==
  {c \in tokill \cup old \cup gone : service_[c] = "known"}

Dropped(old, gone) == tokill \cup old \cup gone

\* Lines 220-235: old clients have been silent for a minute, and the quiet
\* ones are due for a keepalive, which is tried if they are still there.
Sweep(old, quiet) ==
  /\ pc = "poll" /\ serving = NULL /\ ready = {} /\ pc' = "kill"
  /\ LET gone == {c \in quiet : closed[socket_[c]]}
     IN  /\ tokill' = Dropped(old, gone)
         /\ output' = [s \in Sockets |->
                         IF \E c \in quiet \ gone : socket_[c] = s
                           THEN <<"keepalive">> ELSE <<>>]
  /\ bumped' = Bumped(tokill')
  /\ UNCHANGED <<network, object, clients_, namedClients_, shown,
                 ready, serving, heard, left>>

NothingErased(c) == namedClients_

Erased(c) == [n \in DOMAIN namedClients_ \ {name[c]} |-> namedClients_[n]]

\* Lines 238-250.  To erase a name that is not there is to crash.
Kill(c) ==
  /\ pc = "kill" /\ c \in tokill
  /\ output' = Silence
  /\ tokill' = tokill \ {c}
  /\ \/ /\ name[c] \notin DOMAIN namedClients_
        /\ pc' = "crashed"
        /\ UNCHANGED <<network, object, clients_, namedClients_, left>>
     \/ /\ name[c] \in DOMAIN namedClients_
        /\ namedClients_' = Erased(c)
        /\ Delete(c)
        /\ clients_' = clients_ \ {c}
        /\ left' = left + 1
        /\ UNCHANGED pc
  /\ UNCHANGED <<bumped, shown, ready, serving, heard>>

\* Lines 252-262: the others are told, and accept() is called.
BroadcastLeft ==
  /\ pc = "kill" /\ tokill = {}
  /\ IF left = 0
       THEN output' = Silence /\ pc' = "accept"
       ELSE /\ pc' \in After(namedClients_, "accept")
            /\ output' = [s \in Sockets |->
                 [i \in 1 .. left * Len(Lines(namedClients_, s)) |-> "text"]]
  /\ left' = 0
  /\ UNCHANGED <<network, object, clients_, namedClients_, bumped,
                 shown, ready, serving, heard, tokill>>

Full == Cardinality(clients_) >= MaxClients

\* Lines 266-292: a newcomer gets an object, or is sent away.
Newcomer(s) ==
  /\ pc = "accept" /\ serving = NULL
  /\ s \in waiting
  /\ bumped' = TRUE
  /\ output' = Silence
  /\ \/ /\ Full
        /\ Dispose(s)
        /\ UNCHANGED <<object, serving>>
     \/ /\ ~Full
        /\ \E c \in Clients \ clients_ :
             New(c, s) /\ serving' = [client |-> c, which |-> "discovered"]
        /\ waiting' = waiting \ {s}
        /\ UNCHANGED <<inbox, closed>>
  /\ UNCHANGED <<clients_, namedClients_, shown, pc, ready, heard,
                 tokill, left>>

\* The poll returns, and the user interface makes its list again if the
\* generation has changed, or (late) if ten seconds have passed.
PollEnds(late) ==
  /\ pc = "accept" /\ serving = NULL /\ waiting = {} /\ pc' = "idle"
  /\ shown' = IF bumped \/ late THEN clients_ ELSE shown
  /\ bumped' = FALSE /\ heard' = {}
  /\ output' = Silence
  /\ UNCHANGED <<network, object, clients_, namedClients_, ready,
                 serving, tokill, left>>

-----------------------------------------------------------------------------
Network ==
  \E s \in Sockets :
    \/ Connect(s)
    \/ \E m \in Messages : Arrive(s, m)
    \/ Close(s)

Service ==
  \E c \in Clients :
    \/ ReadKeepalive(c) \/ ReadLogout(c) \/ ReadText(c)
    \/ ReadLogin(c) \/ ReadLoginAgain(c) \/ ReadOtherName(c)
    \/ ServiceEnds(c)

Host ==
  \/ \E r \in SUBSET clients_ : Poll(r)
  \/ \E c \in Clients : Serve(c) \/ Kill(c)
  \/ Service
  \/ \E old \in SUBSET (clients_ \ heard) :
       \E quiet \in SUBSET (clients_ \ old) : Sweep(old, quiet)
  \/ BroadcastLeft
  \/ \E s \in Sockets : Newcomer(s)
  \/ \E late \in BOOLEAN : PollEnds(late)

Next == Network \/ Host \/ PollFails

Spec == Init /\ [][Next]_vars

-----------------------------------------------------------------------------
(***************************************************************************)
(* Properties                                                              *)
(***************************************************************************)
NetworkTyped ==
  /\ waiting \subseteq Sockets
  /\ inbox \in [Sockets -> Seq(Messages)] /\ closed \in [Sockets -> BOOLEAN]
  /\ output \in [Sockets -> Seq(Replies)]

ObjectsTyped ==
  /\ name \in [Clients -> AllNames]
  /\ service_ \in [Clients -> {"discovered", "known"}]
  /\ socket_ \in [Clients -> Sockets \cup {NULL}]

HostTyped ==
  /\ clients_ \subseteq Clients /\ Cardinality(clients_) <= MaxClients
  /\ DOMAIN namedClients_ \subseteq AllNames
  /\ \A n \in DOMAIN namedClients_ : namedClients_[n] \in Clients
  /\ bumped \in BOOLEAN /\ shown \subseteq Clients

PollTyped ==
  /\ pc \in {"idle", "poll", "kill", "accept", "crashed", "exited"}
  /\ ready \subseteq Clients /\ heard \subseteq Clients /\ tokill \subseteq Clients
  /\ serving \in {NULL} \cup Services
  /\ left \in Nat

\* The type invariant: the state has the shape the declarations give it, and
\* never more than MaxClients clients, however many arrive in one poll.
TypeOK == NetworkTyped /\ ObjectsTyped /\ HostTyped /\ PollTyped

\* A name belongs to one client: who shows a name is the one the table has
\* for it (namedClients_, validateName()), though one client can log in
\* several times, under several names, before and after it is accepted, and
\* leave entries behind that point to memory another client is given.
NameOwned ==
  \A c \in Live :
    name[c] # NoName =>
      name[c] \in DOMAIN namedClients_ /\ namedClients_[name[c]] = c

\* Each client has a connection of its own, that does not wait for accept()
\* any more: no two clients read from one socket, and the client that is
\* dropped disposes nobody else's (~CChatClient).
SocketOwned ==
  /\ \A c \in Live : socket_[c] \in Sockets \ waiting
  /\ \A c, d \in Live : socket_[c] = socket_[d] => c = d

\* What a poll goes through exists: the clients still to be served and those
\* to be dropped are in clients_, where poll() looks for them without a test
\* (lines 207 and 249); a newcomer in its service function is not.
ServesItsClients ==
  /\ ready \cup tokill \subseteq clients_
  /\ serving # NULL /\ pc = "poll" => serving.client \in clients_
  /\ serving # NULL /\ pc = "accept" => serving.client \notin clients_

\* Kicking a client that does not log in leaves the host running, for "it is
\* possible to receive a logout" from one (chathost.cpp 398-402).
HostSurvives == pc # "crashed"

\* The user interface, which makes its list again when the generation has
\* changed, never shows a list without a client that is there, or with one
\* that is not, between two polls (generation_, chatserver.cpp 128).
ListShown == pc = "idle" => shown = clients_

=============================================================================

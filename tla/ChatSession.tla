----------------------------- MODULE ChatSession -----------------------------
(***************************************************************************)
(* class ChatUser (chatclient/chatclient.cpp) and ChatHost together, over  *)
(* UDP: each user has one connection, and the network loses and delays     *)
(* what both sides send.                                                   *)
(*                                                                         *)
(* One datagram is on the way at a time (a bound): it stays, arrives, or   *)
(* is lost to the next one.  The users send between the polls of the host. *)
(* One that is gone does not come back, but what it sent may still arrive. *)
(***************************************************************************)
EXTENDS ChatHost

CONSTANTS
  NameOf,       \* name_ of each user
  Talkers,      \* bound: users that do more than log in and leave
  Nothing       \* no datagram

Users == Sockets

Datagrams == [u : Users, up : Messages] \cup [u : Users, down : Replies]

ASSUME SessionAssumption ==
  /\ ~Reliable
  /\ NameOf \in [Users -> Names] /\ Talkers \subseteq Users
  /\ Nothing \notin Datagrams

VARIABLES
  user,         \* "out" (not yet there), "in" or "gone"
  loggedIn_,
  air,          \* the datagram on the way, from or to user air.u
  admitted      \* history: present users the host has let in

session == <<user, loggedIn_, air, admitted>>
allVars == <<vars, session>>

LoginOf(u) == [type |-> "login", name |-> NameOf[u]]
Of(type) == [type |-> type]

\* The host has let u in.
Known(u) ==
  \E c \in Live :
    socket_[c] = u /\ service_[c] = "known" /\ name[c] = NameOf[u]

SessionInit ==
  /\ Init
  /\ user = [u \in Users |-> "out"] /\ loggedIn_ = [u \in Users |-> FALSE]
  /\ air = Nothing /\ admitted = {}

(***************************************************************************)
(* The user.                                                               *)
(***************************************************************************)
UserTurn(u, state) == pc = "idle" /\ user[u] = state /\ UNCHANGED vars

Send(u, m) == air' = [u |-> u, up |-> m]

\* open(): the empty datagram of connect(), and the login.
Open(u) ==
  /\ UserTurn(u, "out")
  /\ user' = [user EXCEPT ![u] = "in"]
  /\ Send(u, Of("keepalive")) \/ Send(u, LoginOf(u))
  /\ UNCHANGED <<loggedIn_, admitted>>

\* poll(), after ten idle seconds.
Retry(u) ==
  /\ UserTurn(u, "in") /\ ~loggedIn_[u]
  /\ Send(u, LoginOf(u))
  /\ UNCHANGED <<user, loggedIn_, admitted>>

SendKeepalive(u) ==
  /\ u \in Talkers
  /\ UserTurn(u, "in") /\ loggedIn_[u]
  /\ Send(u, Of("keepalive"))
  /\ UNCHANGED <<user, loggedIn_, admitted>>

\* sendText() does not ask whether the user is logged in.
Say(u) ==
  /\ u \in Talkers
  /\ UserTurn(u, "in")
  /\ Send(u, Of("text"))
  /\ UNCHANGED <<user, loggedIn_, admitted>>

LoggedInByAny(reply) == reply # "keepalive"

\* poll(), for a message that has arrived.
LoggedInBy(reply) == reply \in {"text", "accepted"}

Read(u) ==
  /\ user[u] = "in"
  /\ \E reply \in Replies :
       /\ air = [u |-> u, down |-> reply]
       /\ loggedIn_' = [loggedIn_ EXCEPT ![u] = @ \/ LoggedInBy(reply)]
  /\ air' = Nothing
  /\ UNCHANGED <<vars, user, admitted>>

\* The user quits, or its socket times out and poll() returns false.
Leave(u) ==
  /\ UserTurn(u, "in")
  /\ user' = [user EXCEPT ![u] = "gone"]
  /\ loggedIn_' = [loggedIn_ EXCEPT ![u] = FALSE]
  /\ admitted' = admitted \ {u}
  /\ UNCHANGED air

(***************************************************************************)
(* The network.  The first datagram of a connection makes a socket at the  *)
(* host, and what it says is lost (socketbase.cpp 661-675).                *)
(***************************************************************************)
ArrivesFirst(u) ==
  /\ \E m \in Messages : air = [u |-> u, up |-> m]
  /\ Connect(u)
  /\ air' = Nothing
  /\ UNCHANGED <<user, loggedIn_, admitted>>

Arrives(u) ==
  /\ \E m \in Messages : air = [u |-> u, up |-> m] /\ Arrive(u, m)
  /\ air' = Nothing
  /\ UNCHANGED <<user, loggedIn_, admitted>>

\* The host's SocketManager closes a socket that has been silent for 20
\* seconds.
TimesOut(u) == Close(u) /\ UNCHANGED session

\* What the composition leaves of the host's choices.  The manager reports
\* sockets with messages and closed ones; only a closed one, or one whose user
\* is gone, is silent for a minute; the keepalives of the host, which users
\* ignore, are left out; of free objects, which are all alike, a newcomer gets
\* the first.
Composed ==
  /\ pc = "idle" =>
       \A c \in ready' : inbox[socket_[c]] # <<>> \/ closed[socket_[c]]
  /\ pc = "poll" /\ pc' = "kill" =>
       /\ \A c \in tokill' \ tokill :
            closed[socket_[c]] \/ user[socket_[c]] = "gone"
       /\ output' = Silence
  /\ pc = "accept" /\ serving = NULL /\ serving' # NULL =>
       serving'.client = CHOOSE c \in Clients \ clients_ : TRUE

\* A step of the host, and one of the datagrams it sends.
HostStep ==
  /\ Host
  /\ Composed
  /\ LET sent == {[u |-> u, down |-> reply] : u \in Users, reply \in Replies}
         now == {d \in sent : \E i \in DOMAIN output'[d.u] : output'[d.u][i] = d.down}
     IN  air' \in IF now = {} THEN {air} ELSE now
  /\ admitted' = admitted \cup {u \in Users : user[u] = "in" /\ Known(u)'}
  /\ UNCHANGED <<user, loggedIn_>>

-----------------------------------------------------------------------------
UserStep(u) ==
  \/ Open(u) \/ Retry(u) \/ SendKeepalive(u) \/ Say(u) \/ Read(u) \/ Leave(u)

SessionNext ==
  \/ \E u \in Users :
       UserStep(u) \/ ArrivesFirst(u) \/ Arrives(u) \/ TimesOut(u)
  \/ HostStep

SessionSpec == SessionInit /\ [][SessionNext]_allVars

(***************************************************************************)
(* Fairness.  Programs that run poll again and again, and ten idle seconds *)
(* pass now and then.  A datagram that is sent again and again arrives now *)
(* and then.  A user that is gone sends no more, and a closed socket       *)
(* receives nothing: the host finds their client silent for a minute.      *)
(***************************************************************************)
Alone(u) == user[u] = "in" /\ \A v \in Users \ {u} : user[v] = "gone"

Forgotten(u) == \A c \in Live : socket_[c] # u

ReceivesLogin(u) ==
  /\ air = [u |-> u, up |-> LoginOf(u)]
  /\ ArrivesFirst(u) \/ Arrives(u)

ReadsSuccess(u) == Read(u) /\ air.down \in {"accepted", "text"}

SweepsSilent(u) ==
  /\ HostStep
  /\ pc = "poll" /\ (user[u] = "gone" \/ closed[u])
  /\ \E c \in tokill' : socket_[c] = u

Fairness ==
  /\ WF_allVars(HostStep)
  /\ \A u \in Users : SF_allVars(SweepsSilent(u))
  /\ \A u \in Talkers : /\ SF_allVars(Retry(u) /\ inbox = Silence)
                        /\ SF_allVars(ReceivesLogin(u))
                        /\ SF_allVars(ReadsSuccess(u))

LiveSpec == SessionSpec /\ Fairness

-----------------------------------------------------------------------------
(***************************************************************************)
(* Properties                                                              *)
(***************************************************************************)
Crashed == pc = "crashed"

\* The table of names is the list of clients: each entry belongs to a client
\* that is there and shows that name, when all peers are ChatUsers.  (With
\* others it is not: a second login leaves an entry behind, ReadLoginAgain.)
TableAgrees ==
  /\ user \in [Users -> {"out", "in", "gone"}]
  /\ air \in {Nothing} \cup Datagrams
  /\ \A n \in DOMAIN namedClients_ :
       namedClients_[n] \in Live /\ name[namedClients_[n]] = n

\* Who believes to be logged in has been let in: the host sends text only to
\* those (chatclient.cpp 157-158), however late what it sent arrives.
LoggedInTruly == \A u \in Users : loggedIn_[u] => u \in admitted

\* A user who keeps asking is let in and learns of it, although others had
\* the name before and have left without a word (chatclient.cpp 176-181).
LogsIn ==
  \A u \in Talkers : Alone(u) ~> (loggedIn_[u] \/ user[u] = "gone" \/ Crashed)

\* The host forgets a user that is gone, and gives its name away.
GoneForgotten ==
  \A u \in Users : user[u] = "gone" ~> (Forgotten(u) \/ Crashed)

=============================================================================

----------------------------- MODULE Lifecycle -----------------------------
(***************************************************************************)
(* How socket managers and their sockets come and go (lib/socketbase.cpp): *)
(* CreateEtwork() and SocketManager::open(), connect(), accept() and       *)
(* dispose(), with every system call that may fail on the way, the         *)
(* descriptors they open, and who hears of the failures.                   *)
(*                                                                         *)
(* Each manager is used by a thread of its own, as etwork.h allows; they   *)
(* share gethostLock, the result of gethostbyname(), gErrorNotify and      *)
(* wsOpen.  A call is cut at its system calls.                             *)
(***************************************************************************)
EXTENDS EtworkErrors, Naturals, Sequences, FiniteSets

CONSTANTS
  Managers,   \* SocketManagers, and their threads
  Sockets,    \* Socket objects
  Fds,        \* descriptors of the system
  Hosts,      \* names of remote hosts; each is its own address
  Notifying,  \* managers whose settings have a notify
  NULL

ASSUME LifecycleAssumption ==
  /\ NULL \notin Managers \cup Sockets \cup Fds \cup Hosts
  /\ Notifying \subseteq Managers

VARIABLES
  gErrorNotify,   \* a global notifier is set
  wsOpen,
  gethostLock,    \* the thread that has entered the critical section, or NULL
  hostent,        \* the static result of gethostbyname()
  open,           \* descriptors in use
  \* For each manager:
  pc,             \* "none" (there is no manager), "idle" (between calls), or
                  \* the next system call of the call that runs
  settings_,      \* reliable, accepting, and whether the port is 0
  listening_,
  sockets_, accepted_,
  closed,         \* closed sockets the application still holds
  at,             \* descriptor the call works on
  address,        \* the host connect() was asked for
  addr,           \* the address it has found
  \* For each socket:
  s_,
  \* History:
  abandoned,      \* sockets whose manager is gone
  failure         \* if a call returned 0 or -1 in the last step: whose, during
                  \* which step of it, and who was told what

globals == <<gErrorNotify, wsOpen, gethostLock, hostent>>
manager == <<settings_, listening_>>
registry == <<sockets_, accepted_, closed, s_, abandoned>>
call == <<at, address, addr>>
vars == <<globals, open, pc, manager, registry, call, failure>>

\* The port matters to those that accept.
Settings ==
  {st \in [reliable : BOOLEAN, accepting : BOOLEAN, port0 : BOOLEAN] :
     st.port0 => st.accepting}

NoSettings == [reliable |-> TRUE, accepting |-> FALSE, port0 |-> FALSE]

Init ==
  /\ gErrorNotify \in BOOLEAN
  /\ wsOpen = FALSE /\ gethostLock = NULL /\ hostent = NULL
  /\ open = {}
  /\ pc = [m \in Managers |-> "none"]
  /\ settings_ = [m \in Managers |-> NoSettings]
  /\ listening_ = [m \in Managers |-> NULL]
  /\ sockets_ = [m \in Managers |-> {}]
  /\ accepted_ = [m \in Managers |-> {}]
  /\ closed = [m \in Managers |-> {}]
  /\ at = [m \in Managers |-> NULL]
  /\ address = [m \in Managers |-> NULL]
  /\ addr = [m \in Managers |-> NULL]
  /\ s_ = [s \in Sockets |-> NULL]
  /\ abandoned = {} /\ failure = NULL

-----------------------------------------------------------------------------
(* How a step of a call ends. *)

Goto(m, place) == pc' = [pc EXCEPT ![m] = place]

\* The call goes on.
GoOn(m, place) == Goto(m, place) /\ failure' = NULL

\* What a call keeps on the stack is gone when it returns.
Forgets(m) ==
  /\ at' = [at EXCEPT ![m] = NULL]
  /\ address' = [address EXCEPT ![m] = NULL]
  /\ addr' = [addr EXCEPT ![m] = NULL]

\* connect() returns -1 after debug_sock_error(), which blames the manager.
ConnectReturns(m, errs) ==
  /\ \E err \in errs :
       failure' = [by |-> m, during |-> pc[m],
                   told |-> ErrorFrom(m \in Notifying, gErrorNotify, GetWsaError(err))]
  /\ Goto(m, "idle")
  /\ Forgets(m)

\* CreateEtwork() deletes the manager and returns 0.
NoManager(m, told) ==
  /\ failure' = [by |-> m, during |-> pc[m], told |-> told]
  /\ Goto(m, "none")
  /\ settings_' = [settings_ EXCEPT ![m] = NoSettings]

\* After an error open() reports, which blames the manager:
OpenReturns(m, errs) ==
  \E err \in errs :
    NoManager(m, ErrorFrom(m \in Notifying, gErrorNotify, GetWsaError(err)))

-----------------------------------------------------------------------------
(* What the documentation of Windows Sockets says a call may fail with. *)

\* Any call: the library is not there, or is busy with a blocking call, the
\* network is down, or a code that GetWsaError() does not know.
AnyErrors == {"WSANOTINITIALISED", "WSAENETDOWN", "WSAEINPROGRESS", "another"}

\* ::socket()
SocketErrors ==
  AnyErrors \cup {"WSAEAFNOSUPPORT", "WSAEMFILE", "WSAENOBUFS", "WSAEPROTONOSUPPORT",
                  "WSAEPROTOTYPE", "WSAESOCKTNOSUPPORT", "WSAEINVAL"}

\* ::setsockopt(), ::bind(), ::listen() and ::ioctlsocket()
BindErrors ==
  AnyErrors \cup {"WSAEFAULT", "WSAEINVAL", "WSAENOPROTOOPT", "WSAENETRESET", "WSAENOTCONN",
                  "WSAENOTSOCK", "WSAEACCES", "WSAEADDRINUSE", "WSAEADDRNOTAVAIL",
                  "WSAENOBUFS", "WSAEISCONN", "WSAEMFILE", "WSAEOPNOTSUPP"}

\* gethostbyname()
LookupErrors ==
  AnyErrors \cup {"WSAHOST_NOT_FOUND", "WSATRY_AGAIN", "WSANO_RECOVERY", "WSANO_DATA",
                  "WSAEFAULT", "WSAEINTR"}

\* ::connect()
ConnectErrors ==
  AnyErrors \cup {"WSAEADDRINUSE", "WSAEINTR", "WSAEALREADY", "WSAEADDRNOTAVAIL",
                  "WSAEAFNOSUPPORT", "WSAECONNREFUSED", "WSAEFAULT", "WSAEINVAL",
                  "WSAEISCONN", "WSAENETUNREACH", "WSAEHOSTUNREACH", "WSAENOBUFS",
                  "WSAENOTSOCK", "WSAETIMEDOUT", "WSAEWOULDBLOCK", "WSAEACCES"}

-----------------------------------------------------------------------------
(* CreateEtwork() *)

\* The settings pass the checks that come before open().
CreateEtwork(m, settings) ==
  /\ pc[m] = "none"
  /\ settings_' = [settings_ EXCEPT ![m] = settings]
  /\ GoOn(m, "startup")
  /\ UNCHANGED <<globals, open, listening_, registry, call>>

\* A version too new, by etwork_error_from( 0, 0, ... ); sizes too large, by
\* etwork_log().
WrongSettings(m, err) ==
  /\ pc[m] = "none"
  /\ NoManager(m, InfoFromNobody(gErrorNotify, err))
  /\ UNCHANGED <<globals, open, listening_, registry, call>>

WrongVersion == "EO_unsupported_version"
WrongSizes == "EO_no_error"

\* WSAStartup(), for the first manager; then open() as far as ::socket().
WSAStartup(m) ==
  /\ pc[m] = "startup"
  /\ wsOpen' = TRUE
  /\ LET st == settings_[m]
     IN  IF st.port0
         THEN NoManager(m, InfoFromNobody(gErrorNotify, "EO_invalid_parameters"))
         ELSE /\ GoOn(m, IF st.accepting \/ ~st.reliable THEN "listen" ELSE "idle")
              /\ UNCHANGED settings_
  /\ UNCHANGED <<gErrorNotify, gethostLock, hostent, open, listening_, registry, call>>

WSAStartupFails(m) ==
  /\ pc[m] = "startup" /\ ~wsOpen
  /\ NoManager(m, InfoFromNobody(gErrorNotify, WrongVersion))
  /\ UNCHANGED <<globals, open, listening_, registry, call>>

\* open(): the listening socket.
Socket(m) ==
  /\ pc[m] = "listen"
  /\ \E fd \in Fds \ open :
       open' = open \cup {fd} /\ listening_' = [listening_ EXCEPT ![m] = fd]
  /\ GoOn(m, "bind")
  /\ UNCHANGED <<globals, settings_, registry, call>>

SocketFails(m) ==
  /\ pc[m] = "listen"
  /\ OpenReturns(m, SocketErrors)
  /\ UNCHANGED <<globals, open, listening_, registry, call>>

\* setsockopt(), bind(), and listen() or ioctlsocket(): the manager is ready.
\* What change_queuing_space() reports then is no failure of the call.
Bind(m) ==
  /\ pc[m] = "bind"
  /\ GoOn(m, "idle")
  /\ UNCHANGED <<globals, open, manager, registry, call>>

\* One of them fails: the label `failure'.
BindFails(m) ==
  /\ pc[m] = "bind"
  /\ OpenReturns(m, BindErrors)
  /\ open' = open \ {listening_[m]}
  /\ listening_' = [listening_ EXCEPT ![m] = NULL]
  /\ UNCHANGED <<globals, registry, call>>

-----------------------------------------------------------------------------
(* connect() *)

Unused(s) ==
  s \notin abandoned /\ \A m \in Managers : s \notin sockets_[m] \cup accepted_[m] \cup closed[m]

Calling == {m \in Managers : pc[m] \notin {"none", "idle"}}

\* The bound on sockets: one is kept for each call that may need it.
Spare == Cardinality({s \in Sockets : Unused(s)}) > Cardinality(Calling)

Connect(m, host) ==
  /\ pc[m] = "idle" /\ Spare
  /\ address' = [address EXCEPT ![m] = host]
  /\ GoOn(m, "lock")
  /\ UNCHANGED <<globals, open, manager, registry, at, addr>>

\* Locker ghl( gethostLock ); a version without it.
LockNothing(m) ==
  /\ pc[m] = "lock"
  /\ GoOn(m, "lookup")
  /\ UNCHANGED <<globals, open, manager, registry, call>>

Lock(m) ==
  /\ pc[m] = "lock" /\ gethostLock = NULL
  /\ gethostLock' = m
  /\ GoOn(m, "lookup")
  /\ UNCHANGED <<gErrorNotify, wsOpen, hostent, open, manager, registry, call>>

\* gethostbyname() puts what it finds where the last call, of any thread, put it.
Gethostbyname(m) ==
  /\ pc[m] = "lookup"
  /\ hostent' = address[m]
  /\ GoOn(m, "copy")
  /\ UNCHANGED <<gErrorNotify, wsOpen, gethostLock, open, manager, registry, call>>

\* It fails: the error is reported inside the critical section, which the
\* return from connect() leaves; a version that returns without leaving.
LookupFailsLocked(m) ==
  /\ pc[m] = "lookup"
  /\ ConnectReturns(m, LookupErrors)
  /\ UNCHANGED <<globals, open, manager, registry>>

LookupFails(m) ==
  /\ pc[m] = "lookup"
  /\ ConnectReturns(m, LookupErrors)
  /\ gethostLock' = NULL
  /\ UNCHANGED <<gErrorNotify, wsOpen, hostent, open, manager, registry>>

CopyAddress(m) ==
  /\ pc[m] = "copy"
  /\ addr' = [addr EXCEPT ![m] = hostent]
  /\ gethostLock' = NULL
  /\ GoOn(m, IF settings_[m].reliable THEN "socket" ELSE "object")
  /\ UNCHANGED <<gErrorNotify, wsOpen, hostent, open, manager, registry, at, address>>

\* A TCP socket.
ConnectSocket(m) ==
  /\ pc[m] = "socket"
  /\ \E fd \in Fds \ open :
       open' = open \cup {fd} /\ at' = [at EXCEPT ![m] = fd]
  /\ GoOn(m, "connect")
  /\ UNCHANGED <<globals, manager, registry, address, addr>>

ConnectSocketFails(m) ==
  /\ pc[m] = "socket"
  /\ ConnectReturns(m, SocketErrors)
  /\ UNCHANGED <<globals, open, manager, registry>>

\* ::connect(), then setsockopt(), whose failure is reported and no more.
Connected(m) ==
  /\ pc[m] = "connect"
  /\ GoOn(m, "object")
  /\ UNCHANGED <<globals, open, manager, registry, call>>

ConnectFails(m) ==
  /\ pc[m] = "connect"
  /\ ConnectReturns(m, ConnectErrors)
  /\ open' = open \ {at[m]}
  /\ UNCHANGED <<globals, manager, registry>>

\* new Socket( this, s, addr ): an unreliable one has no descriptor of its own.
NewSocket(m, s) ==
  /\ pc[m] = "object" /\ Unused(s)
  /\ s_' = [s_ EXCEPT ![s] = at[m]]
  /\ sockets_' = [sockets_ EXCEPT ![m] = @ \cup {s}]
  /\ GoOn(m, "idle") /\ Forgets(m)
  /\ UNCHANGED <<globals, open, manager, accepted_, closed, abandoned>>

-----------------------------------------------------------------------------
(* The life of a socket, and the end. *)

\* handle_listening_read(): a connection comes in during a poll.
Arrives(m, s) ==
  /\ pc[m] = "idle" /\ settings_[m].accepting /\ Unused(s) /\ Spare /\ failure' = NULL
  /\ accepted_' = [accepted_ EXCEPT ![m] = @ \cup {s}]
  /\ IF settings_[m].reliable
     THEN \E fd \in Fds \ open : open' = open \cup {fd} /\ s_' = [s_ EXCEPT ![s] = fd]
     ELSE s_' = [s_ EXCEPT ![s] = NULL] /\ UNCHANGED open
  /\ UNCHANGED <<globals, pc, manager, sockets_, closed, abandoned, call>>

\* accept() takes the front of the queue.
Accept(m, s) ==
  /\ pc[m] = "idle" /\ s \in accepted_[m] /\ failure' = NULL
  /\ accepted_' = [accepted_ EXCEPT ![m] = @ \ {s}]
  /\ sockets_' = [sockets_ EXCEPT ![m] = @ \cup {s}]
  /\ UNCHANGED <<globals, open, pc, manager, closed, s_, abandoned, call>>

\* close_socket(): a time-out, the end of the stream or an error in a poll; a
\* version that leaves s_ as it was.
CloseSocketTwice(m, s) ==
  /\ pc[m] = "idle" /\ s \in sockets_[m] /\ failure' = NULL
  /\ sockets_' = [sockets_ EXCEPT ![m] = @ \ {s}]
  /\ closed' = [closed EXCEPT ![m] = @ \cup {s}]
  /\ open' = open \ {s_[s]}
  /\ UNCHANGED <<globals, pc, manager, accepted_, s_, abandoned, call>>

CloseSocket(m, s) ==
  /\ pc[m] = "idle" /\ s \in sockets_[m] /\ failure' = NULL
  /\ sockets_' = [sockets_ EXCEPT ![m] = @ \ {s}]
  /\ closed' = [closed EXCEPT ![m] = @ \cup {s}]
  /\ open' = open \ {s_[s]}
  /\ s_' = [s_ EXCEPT ![s] = NULL]
  /\ UNCHANGED <<globals, pc, manager, accepted_, abandoned, call>>

\* dispose() of a socket; close_socket() does nothing the second time.
DisposeSocket(m, s) ==
  /\ pc[m] = "idle" /\ s \in sockets_[m] \cup closed[m] /\ failure' = NULL
  /\ sockets_' = [sockets_ EXCEPT ![m] = @ \ {s}]
  /\ closed' = [closed EXCEPT ![m] = @ \ {s}]
  /\ open' = open \ {s_[s]}
  /\ s_' = [s_ EXCEPT ![s] = NULL]
  /\ UNCHANGED <<globals, pc, manager, accepted_, abandoned, call>>

\* dispose() of the manager, when the application has disposed its sockets.
Dispose(m) ==
  /\ pc[m] = "idle" /\ sockets_[m] \cup closed[m] = {}
  /\ open' = open \ {listening_[m]}
  /\ listening_' = [listening_ EXCEPT ![m] = NULL]
  /\ accepted_' = [accepted_ EXCEPT ![m] = {}]
  /\ abandoned' = abandoned \cup accepted_[m]
  /\ GoOn(m, "none")
  /\ settings_' = [settings_ EXCEPT ![m] = NoSettings]
  /\ UNCHANGED <<globals, sockets_, closed, s_, call>>

-----------------------------------------------------------------------------
\* What the thread of m does by itself once it has called.
Steps(m) ==
  \/ WSAStartup(m) \/ WSAStartupFails(m)
  \/ Socket(m) \/ SocketFails(m) \/ Bind(m) \/ BindFails(m)
  \/ Gethostbyname(m) \/ LookupFails(m) \/ CopyAddress(m)
  \/ ConnectSocket(m) \/ ConnectSocketFails(m) \/ Connected(m) \/ ConnectFails(m)
  \/ \E s \in Sockets : NewSocket(m, s)

Application(m) ==
  \/ \E settings \in Settings : CreateEtwork(m, settings)
  \/ \E err \in {WrongVersion, WrongSizes} : WrongSettings(m, err)
  \/ \E host \in Hosts : Connect(m, host)
  \/ \E s \in Sockets :
       Arrives(m, s) \/ Accept(m, s) \/ CloseSocket(m, s) \/ DisposeSocket(m, s)
  \/ Dispose(m)

Next ==
  \E m \in Managers : Application(m) \/ Lock(m) \/ Steps(m)

Spec == Init /\ [][Next]_vars

\* A thread that is in a call goes on, and gets the lock if it is free again
\* and again.
Fairness == \A m \in Managers : WF_vars(Steps(m)) /\ SF_vars(Lock(m))

LiveSpec == Spec /\ Fairness

-----------------------------------------------------------------------------
(* Properties *)

\* The variables have their types, and a socket is in one place.
TypeOK ==
  /\ gErrorNotify \in BOOLEAN /\ wsOpen \in BOOLEAN
  /\ gethostLock \in Managers \cup {NULL} /\ hostent \in Hosts \cup {NULL}
  /\ open \subseteq Fds
  /\ pc \in [Managers -> {"none", "idle", "startup", "listen", "bind", "lock", "lookup",
                          "copy", "socket", "connect", "object"}]
  /\ settings_ \in [Managers -> Settings]
  /\ {listening_, at} \subseteq [Managers -> Fds \cup {NULL}]
  /\ {sockets_, accepted_, closed} \subseteq [Managers -> SUBSET Sockets]
  /\ {address, addr} \subseteq [Managers -> Hosts \cup {NULL}]
  /\ s_ \in [Sockets -> Fds \cup {NULL}] /\ abandoned \subseteq Sockets
  /\ \A m \in Managers :
       /\ sockets_[m] \cap accepted_[m] = {}
       /\ (sockets_[m] \cup accepted_[m]) \cap (closed[m] \cup abandoned) = {}

\* Where a descriptor is kept: as the listening one of a manager, by a call that
\* works on it, or by a socket.
Owners(fd) ==
  {<<"listening", m>> : m \in {n \in Managers : listening_[n] = fd}}
    \cup {<<"call", m>> : m \in {n \in Managers : at[n] = fd}}
    \cup {<<"socket", s>> : s \in {t \in Sockets : s_[t] = fd}}

\* Whatever fails on the way, every open descriptor is kept in exactly one
\* place, and every descriptor that is kept is open: none leaks, none is closed
\* twice, and no close hits a connection that got the same number later.  Only
\* the owner may be one that nobody can reach any more, a socket that waited
\* for accept() when its manager was disposed.
DescriptorsOwned ==
  \A fd \in Fds :
    /\ fd \in open <=> Owners(fd) # {}
    /\ \A x, y \in Owners(fd) : x = y
    /\ \A s \in Sockets :
         s_[s] = fd => s \in abandoned \cup UNION {sockets_[m] \cup accepted_[m] : m \in Managers}

\* Where an option may come from that says what is at fault, by its comment in
\* errors.h 144-148: the address, the port or the peer.
OptionFrom ==
  [EO_bad_address |-> {"lookup", "connect"}, EO_already_in_use |-> {"bind", "connect"},
   EO_peer_refused |-> {"connect"}, EO_peer_timeout |-> {"connect"}]

\* When a system call has failed, and open() or connect() with it, the notifier
\* of the manager hears of it, or else the global one; and of whatever made a
\* call return 0 or -1 the global one hears if nobody else does.  What is said
\* to be at fault was asked for by the step that failed.
FailureHeard ==
  failure # NULL =>
    LET told == failure.told
    IN  /\ failure.during \notin {"none", "startup"} /\ failure.by \in Notifying =>
             told.to = "own"
        /\ gErrorNotify => told.to # "nobody"
        /\ told.option \in DOMAIN OptionFrom =>
             failure.during \in OptionFrom[told.option]

\* What errors.h says (20-22, 102-103): who assigns EtworkSettings::notify and
\* then calls CreateEtwork() gets the errors of that instance.
OwnNotifierHears ==
  failure # NULL /\ failure.by \in Notifying => failure.told.to = "own"

\* connect() goes where it was asked to, although the answer of gethostbyname()
\* lies in one place for all threads.
ConnectsWhereAsked ==
  \A m \in Managers :
    pc[m] \in {"socket", "connect", "object"} => addr[m] = address[m]

\* Every call returns, whatever fails in it and in other threads.
CallsReturn == \A m \in Managers : m \in Calling ~> m \notin Calling

=============================================================================

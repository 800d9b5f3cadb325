--------------------------- MODULE LifecycleProofs ---------------------------
(***************************************************************************)
(* Proofs about Lifecycle for any managers, threads, sockets, descriptors  *)
(* and hosts.                                                              *)
(*                                                                         *)
(* For the descriptors, what keeps one is a holder, and each action lets   *)
(* one holder drop what it has, lets one that has nothing take a free      *)
(* descriptor, or hands one over.  For the addresses, the thread between   *)
(* look-up and copy has the lock.                                          *)
(***************************************************************************)
EXTENDS Lifecycle, TLAPS

Holders == ({"listening", "call"} \X Managers) \cup ({"socket"} \X Sockets)

Holding ==
  [h \in Holders |-> IF h[1] = "listening" THEN listening_[h[2]]
                     ELSE IF h[1] = "call" THEN at[h[2]] ELSE s_[h[2]]]

\* Holders and open descriptors belong together one to one.
Owned ==
  \A fd \in Fds :
    /\ fd \in open <=> \E h \in Holders : Holding[h] = fd
    /\ \A g, h \in Holders : Holding[g] = fd /\ Holding[h] = fd => g = h

\* Only sockets that are in use have a descriptor.
Kept ==
  \A s \in Sockets : s_[s] # NULL =>
    \/ s \in abandoned
    \/ \E m \in Managers : s \in sockets_[m] \cup accepted_[m]

\* A call has a descriptor from ::socket() on, a manager that listens too.
Stages ==
  \A m \in Managers :
    /\ at[m] # NULL => pc[m] \in {"connect", "object"}
    /\ listening_[m] # NULL => pc[m] \notin {"none", "startup", "listen"}

\* No two managers have the same socket.
Apart ==
  \A m, n \in Managers : m # n =>
    (sockets_[m] \cup accepted_[m] \cup closed[m])
      \cap (sockets_[n] \cup accepted_[n] \cup closed[n]) = {}

\* Between gethostbyname() and the copy of its result nobody else calls it.
Locked ==
  \A m \in Managers :
    /\ pc[m] \in {"lookup", "copy"} => gethostLock = m
    /\ pc[m] = "copy" => hostent = address[m]

Inv == TypeOK /\ Apart /\ Stages /\ Owned /\ Kept /\ Locked /\ ConnectsWhereAsked

-----------------------------------------------------------------------------
(* Types *)

LEMMA NoSettingsOK == NoSettings \in Settings
  BY DEF NoSettings, Settings

LEMMA InitTypes == Init => TypeOK /\ Apart /\ Stages
<1> SUFFICES ASSUME Init PROVE TypeOK /\ Apart /\ Stages
  OBVIOUS
<1>1. TypeOK
  BY NoSettingsOK DEF Init, TypeOK
<1>2. Apart /\ Stages
  BY DEF Init, Apart, Stages
<1> QED
  BY <1>1, <1>2

LEMMA NextTypes ==
  ASSUME TypeOK, Apart, Stages, [Next]_vars
  PROVE  TypeOK' /\ Apart' /\ Stages'
<1> USE LifecycleAssumption, NoSettingsOK
    DEF TypeOK, Apart, Stages, Goto, GoOn, Forgets, ConnectReturns, NoManager, OpenReturns,
        globals, manager, registry, call
<1>1. CASE UNCHANGED vars
  BY <1>1 DEF vars
<1>2. ASSUME NEW m \in Managers, Steps(m)
      PROVE  TypeOK' /\ Apart' /\ Stages'
  <2>1. CASE WSAStartup(m)
    <3>1. CASE settings_[m].port0
      BY <2>1, <3>1 DEF WSAStartup
    <3>2. CASE ~settings_[m].port0
      BY <2>1, <3>2 DEF WSAStartup
    <3> QED
      BY <3>1, <3>2
  <2>2. CASE WSAStartupFails(m) \/ SocketFails(m)
    <3>1. CASE WSAStartupFails(m)
      BY <3>1 DEF WSAStartupFails
    <3>2. CASE SocketFails(m)
      BY <3>2 DEF SocketFails
    <3> QED
      BY <2>2, <3>1, <3>2
  <2>3. CASE Socket(m)
    BY <2>3 DEF Socket
  <2>4. CASE Bind(m)
    BY <2>4 DEF Bind
  <2>5. CASE BindFails(m)
    BY <2>5 DEF BindFails
  <2>6. CASE Gethostbyname(m)
    BY <2>6 DEF Gethostbyname
  <2>7. CASE LookupFails(m)
    BY <2>7 DEF LookupFails
  <2>8. CASE CopyAddress(m)
    BY <2>8 DEF CopyAddress
  <2>9. CASE ConnectSocket(m)
    BY <2>9 DEF ConnectSocket
  <2>10. CASE ConnectSocketFails(m)
    BY <2>10 DEF ConnectSocketFails
  <2>11. CASE Connected(m)
    BY <2>11 DEF Connected
  <2>12. CASE ConnectFails(m)
    BY <2>12 DEF ConnectFails
  <2>13. ASSUME NEW s \in Sockets, NewSocket(m, s)
         PROVE  TypeOK' /\ Apart' /\ Stages'
    BY <2>13 DEF NewSocket, Unused
  <2> QED
    BY <1>2, <2>1, <2>2, <2>3, <2>4, <2>5, <2>6, <2>7, <2>8, <2>9, <2>10, <2>11, <2>12,
       <2>13
    DEF Steps
<1>3. ASSUME NEW m \in Managers, Application(m)
      PROVE  TypeOK' /\ Apart' /\ Stages'
  <2>1. ASSUME NEW settings \in Settings, CreateEtwork(m, settings)
        PROVE  TypeOK' /\ Apart' /\ Stages'
    BY <2>1 DEF CreateEtwork
  <2>2. ASSUME NEW err, WrongSettings(m, err)
        PROVE  TypeOK' /\ Apart' /\ Stages'
    BY <2>2 DEF WrongSettings
  <2>3. ASSUME NEW host \in Hosts, Connect(m, host)
        PROVE  TypeOK' /\ Apart' /\ Stages'
    BY <2>3 DEF Connect
  <2>4. ASSUME NEW s \in Sockets, Arrives(m, s)
        PROVE  TypeOK' /\ Apart' /\ Stages'
    BY <2>4 DEF Arrives, Unused
  <2>5. ASSUME NEW s \in Sockets, Accept(m, s)
        PROVE  TypeOK' /\ Apart' /\ Stages'
    BY <2>5 DEF Accept
  <2>6. ASSUME NEW s \in Sockets, CloseSocket(m, s)
        PROVE  TypeOK' /\ Apart' /\ Stages'
    BY <2>6 DEF CloseSocket
  <2>7. ASSUME NEW s \in Sockets, DisposeSocket(m, s)
        PROVE  TypeOK' /\ Apart' /\ Stages'
    BY <2>7 DEF DisposeSocket
  <2>8. CASE Dispose(m)
    BY <2>8 DEF Dispose
  <2> QED
    BY <1>3, <2>1, <2>2, <2>3, <2>4, <2>5, <2>6, <2>7, <2>8 DEF Application
<1>4. ASSUME NEW m \in Managers, Lock(m)
      PROVE  TypeOK' /\ Apart' /\ Stages'
  BY <1>4 DEF Lock
<1> QED
  BY <1>1, <1>2, <1>3, <1>4 DEF Next

-----------------------------------------------------------------------------
(* Descriptors *)

\* The holder h drops what it has and takes v, or nothing; the others are as
\* before.
Takes(h, v) ==
  /\ \A g \in Holders : Holding'[g] = IF g = h THEN v ELSE Holding[g]
  /\ \/ v = NULL /\ open' = open \ {Holding[h]}
     \/ v \in Fds \ open /\ Holding[h] = NULL /\ open' = open \cup {v}

LEMMA TakesKeepsOwned ==
  ASSUME Owned, open \subseteq Fds, NEW h \in Holders, NEW v, Takes(h, v)
  PROVE  Owned'
<1>1. /\ Holding'[h] = v
      /\ \A g \in Holders \ {h} : Holding'[g] = Holding[g]
  BY DEF Takes
<1> SUFFICES ASSUME NEW fd \in Fds
             PROVE  /\ fd \in open' <=> \E g \in Holders : Holding'[g] = fd
                    /\ \A g, k \in Holders : Holding'[g] = fd /\ Holding'[k] = fd => g = k
  BY DEF Owned
<1>2. fd # NULL
  BY LifecycleAssumption
<1>3. CASE v = NULL
  BY <1>1, <1>2, <1>3 DEF Takes, Owned
<1>4. CASE v # NULL /\ fd = v
  BY <1>1, <1>2, <1>4 DEF Takes, Owned
<1>5. CASE v # NULL /\ fd # v
  BY <1>1, <1>2, <1>5 DEF Takes, Owned
<1> QED
  BY <1>3, <1>4, <1>5

LEMMA HolderKinds ==
  /\ \A m \in Managers :
       /\ <<"listening", m>> \in Holders /\ Holding[<<"listening", m>>] = listening_[m]
       /\ <<"call", m>> \in Holders /\ Holding[<<"call", m>>] = at[m]
  /\ \A s \in Sockets :
       <<"socket", s>> \in Holders /\ Holding[<<"socket", s>>] = s_[s]
  /\ \A h \in Holders :
       \/ \E m \in Managers : h = <<"listening", m>> \/ h = <<"call", m>>
       \/ \E s \in Sockets : h = <<"socket", s>>
  BY DEF Holders, Holding

\* The same after a step.
LEMMA HolderKindsNext ==
  /\ \A m \in Managers :
       /\ Holding'[<<"listening", m>>] = listening_'[m]
       /\ Holding'[<<"call", m>>] = at'[m]
  /\ \A s \in Sockets : Holding'[<<"socket", s>>] = s_'[s]
  BY DEF Holders, Holding

\* Which holder an assignment to one of the three variables changes.
LEMMA ListeningChanges ==
  ASSUME TypeOK, NEW v, NEW m \in Managers, listening_' = [listening_ EXCEPT ![m] = v],
         UNCHANGED <<at, s_>>, NEW g \in Holders
  PROVE  Holding'[g] = IF g = <<"listening", m>> THEN v ELSE Holding[g]
<1>1. ASSUME NEW k \in Managers, g = <<"listening", k>>
      PROVE  Holding'[g] = IF g = <<"listening", m>> THEN v ELSE Holding[g]
  <2>1. Holding[g] = listening_[k] /\ Holding'[g] = listening_'[k]
    BY <1>1, HolderKinds, HolderKindsNext
  <2>2. g = <<"listening", m>> <=> k = m
    BY <1>1
  <2> QED
    BY <2>1, <2>2 DEF TypeOK
<1>2. ASSUME NEW k \in Managers, g = <<"call", k>>
      PROVE  Holding'[g] = IF g = <<"listening", m>> THEN v ELSE Holding[g]
  <2>1. Holding[g] = at[k] /\ Holding'[g] = at'[k]
    BY <1>2, HolderKinds, HolderKindsNext
  <2>2. g # <<"listening", m>>
    BY <1>2
  <2> QED
    BY <2>1, <2>2
<1>3. ASSUME NEW k \in Sockets, g = <<"socket", k>>
      PROVE  Holding'[g] = IF g = <<"listening", m>> THEN v ELSE Holding[g]
  <2>1. Holding[g] = s_[k] /\ Holding'[g] = s_'[k]
    BY <1>3, HolderKinds, HolderKindsNext
  <2>2. g # <<"listening", m>>
    BY <1>3
  <2> QED
    BY <2>1, <2>2
<1> QED
  BY <1>1, <1>2, <1>3, HolderKinds

LEMMA CallChanges ==
  ASSUME TypeOK, NEW v, NEW m \in Managers, at' = [at EXCEPT ![m] = v],
         UNCHANGED <<listening_, s_>>, NEW g \in Holders
  PROVE  Holding'[g] = IF g = <<"call", m>> THEN v ELSE Holding[g]
<1>1. ASSUME NEW k \in Managers, g = <<"listening", k>>
      PROVE  Holding'[g] = IF g = <<"call", m>> THEN v ELSE Holding[g]
  <2>1. Holding[g] = listening_[k] /\ Holding'[g] = listening_'[k]
    BY <1>1, HolderKinds, HolderKindsNext
  <2>2. g # <<"call", m>>
    BY <1>1
  <2> QED
    BY <2>1, <2>2
<1>2. ASSUME NEW k \in Managers, g = <<"call", k>>
      PROVE  Holding'[g] = IF g = <<"call", m>> THEN v ELSE Holding[g]
  <2>1. Holding[g] = at[k] /\ Holding'[g] = at'[k]
    BY <1>2, HolderKinds, HolderKindsNext
  <2>2. g = <<"call", m>> <=> k = m
    BY <1>2
  <2> QED
    BY <2>1, <2>2 DEF TypeOK
<1>3. ASSUME NEW k \in Sockets, g = <<"socket", k>>
      PROVE  Holding'[g] = IF g = <<"call", m>> THEN v ELSE Holding[g]
  <2>1. Holding[g] = s_[k] /\ Holding'[g] = s_'[k]
    BY <1>3, HolderKinds, HolderKindsNext
  <2>2. g # <<"call", m>>
    BY <1>3
  <2> QED
    BY <2>1, <2>2
<1> QED
  BY <1>1, <1>2, <1>3, HolderKinds

LEMMA SocketChanges ==
  ASSUME TypeOK, NEW v, NEW s \in Sockets, s_' = [s_ EXCEPT ![s] = v],
         UNCHANGED <<listening_, at>>, NEW g \in Holders
  PROVE  Holding'[g] = IF g = <<"socket", s>> THEN v ELSE Holding[g]
<1>1. ASSUME NEW k \in Managers, g = <<"listening", k>>
      PROVE  Holding'[g] = IF g = <<"socket", s>> THEN v ELSE Holding[g]
  <2>1. Holding[g] = listening_[k] /\ Holding'[g] = listening_'[k]
    BY <1>1, HolderKinds, HolderKindsNext
  <2>2. g # <<"socket", s>>
    BY <1>1
  <2> QED
    BY <2>1, <2>2
<1>2. ASSUME NEW k \in Managers, g = <<"call", k>>
      PROVE  Holding'[g] = IF g = <<"socket", s>> THEN v ELSE Holding[g]
  <2>1. Holding[g] = at[k] /\ Holding'[g] = at'[k]
    BY <1>2, HolderKinds, HolderKindsNext
  <2>2. g # <<"socket", s>>
    BY <1>2
  <2> QED
    BY <2>1, <2>2
<1>3. ASSUME NEW k \in Sockets, g = <<"socket", k>>
      PROVE  Holding'[g] = IF g = <<"socket", s>> THEN v ELSE Holding[g]
  <2>1. Holding[g] = s_[k] /\ Holding'[g] = s_'[k]
    BY <1>3, HolderKinds, HolderKindsNext
  <2>2. g = <<"socket", s>> <=> k = s
    BY <1>3
  <2> QED
    BY <2>1, <2>2 DEF TypeOK
<1> QED
  BY <1>1, <1>2, <1>3, HolderKinds

LEMMA HandedOver ==
  ASSUME TypeOK, Owned, NEW m \in Managers, NEW s \in Sockets, s_[s] = NULL,
         s_' = [s_ EXCEPT ![s] = at[m]], at' = [at EXCEPT ![m] = NULL],
         UNCHANGED <<open, listening_>>
  PROVE  Owned'
<1> DEFINE from == <<"call", m>>
           to == <<"socket", s>>
<1>1. from \in Holders /\ to \in Holders /\ from # to
  BY HolderKinds
<1>2. /\ Holding'[from] = NULL /\ Holding[to] = NULL
      /\ Holding'[to] = Holding[from]
  <2>1. Holding[from] = at[m] /\ Holding[to] = s_[s]
    BY HolderKinds
  <2>2. Holding'[from] = at'[m] /\ Holding'[to] = s_'[s]
    BY HolderKindsNext
  <2>3. at'[m] = NULL /\ s_'[s] = at[m]
    BY DEF TypeOK
  <2> QED
    BY <2>1, <2>2, <2>3
<1>3. ASSUME NEW g \in Holders, g # from, g # to
      PROVE  Holding'[g] = Holding[g]
  <2>1. ASSUME NEW k \in Managers, g = <<"listening", k>>
        PROVE  Holding'[g] = Holding[g]
    BY <2>1, HolderKinds, HolderKindsNext
  <2>2. ASSUME NEW k \in Managers, g = <<"call", k>>
        PROVE  Holding'[g] = Holding[g]
    <3>1. k # m
      BY <1>3, <2>2
    <3>2. Holding[g] = at[k] /\ Holding'[g] = at'[k]
      BY <2>2, HolderKinds, HolderKindsNext
    <3> QED
      BY <3>1, <3>2 DEF TypeOK
  <2>3. ASSUME NEW k \in Sockets, g = <<"socket", k>>
        PROVE  Holding'[g] = Holding[g]
    <3>1. k # s
      BY <1>3, <2>3
    <3>2. Holding[g] = s_[k] /\ Holding'[g] = s_'[k]
      BY <2>3, HolderKinds, HolderKindsNext
    <3> QED
      BY <3>1, <3>2 DEF TypeOK
  <2> QED
    BY <2>1, <2>2, <2>3, HolderKinds
<1> HIDE DEF from, to
<1> SUFFICES ASSUME NEW fd \in Fds
             PROVE  /\ fd \in open' <=> \E g \in Holders : Holding'[g] = fd
                    /\ \A g, h \in Holders : Holding'[g] = fd /\ Holding'[h] = fd => g = h
  BY DEF Owned
<1>4. fd # NULL
  BY LifecycleAssumption
<1>5. CASE Holding[from] = fd
  BY <1>1, <1>2, <1>3, <1>4, <1>5 DEF Owned
<1>6. CASE Holding[from] # fd
  BY <1>1, <1>2, <1>3, <1>4, <1>6 DEF Owned
<1> QED
  BY <1>5, <1>6

LEMMA NothingChanges ==
  ASSUME Owned, UNCHANGED <<open, listening_, at, s_>>
  PROVE  Owned'
<1>1. Holding' = Holding
  BY DEF Holding
<1> QED
  BY <1>1 DEF Owned

\* A socket that is not in use has no descriptor to lose.
LEMMA UnusedHoldsNothing ==
  ASSUME Kept, NEW s \in Sockets, Unused(s)
  PROVE  s_[s] = NULL
  BY DEF Kept, Unused

LEMMA InitOwned == Init => Owned /\ Kept
<1> SUFFICES ASSUME Init PROVE Owned /\ Kept
  OBVIOUS
<1>1. \A h \in Holders : Holding[h] = NULL
  BY DEF Init, Holders, Holding
<1>2. Owned
  BY <1>1, LifecycleAssumption DEF Init, Owned
<1>3. Kept
  BY DEF Init, Kept
<1> QED
  BY <1>2, <1>3

\* A call that fails before ::socket() forgets what it has not got.
LEMMA ForgetsNothing ==
  ASSUME TypeOK, Stages, Owned, NEW m \in Managers, pc[m] \notin {"connect", "object"},
         Forgets(m), UNCHANGED <<open, listening_, s_>>
  PROVE  Owned'
<1>1. at' = at
  BY DEF Forgets, Stages, TypeOK
<1> QED
  BY <1>1, NothingChanges

LEMMA NextOwned ==
  ASSUME TypeOK, Stages, Owned, Kept, [Next]_vars
  PROVE  Owned'
<1> open \subseteq Fds
  BY DEF TypeOK
<1> USE DEF globals, manager, registry, call
<1>1. CASE UNCHANGED vars
  BY <1>1, NothingChanges DEF vars
<1>2. ASSUME NEW m \in Managers, Steps(m)
      PROVE  Owned'
  <2>1. CASE \/ WSAStartup(m) \/ WSAStartupFails(m) \/ SocketFails(m) \/ Bind(m)
             \/ Gethostbyname(m) \/ CopyAddress(m) \/ Connected(m)
    <3>1. UNCHANGED <<open, listening_, at, s_>>
      BY <2>1
      DEF WSAStartup, WSAStartupFails, SocketFails, Bind, Gethostbyname, CopyAddress, Connected
    <3> QED
      BY <3>1, NothingChanges
  <2>2. CASE Socket(m)
    <3>1. PICK fd \in Fds \ open : open' = open \cup {fd}
                                   /\ listening_' = [listening_ EXCEPT ![m] = fd]
      BY <2>2 DEF Socket
    <3>2. listening_[m] = NULL
      BY <2>2 DEF Socket, Stages
    <3>3. UNCHANGED <<at, s_>>
      BY <2>2 DEF Socket
    <3>4. Takes(<<"listening", m>>, fd)
      BY <3>1, <3>2, <3>3, ListeningChanges, HolderKinds DEF Takes
    <3> QED
      BY <3>4, TakesKeepsOwned, HolderKinds
  <2>3. CASE BindFails(m)
    <3>1. /\ listening_' = [listening_ EXCEPT ![m] = NULL]
          /\ open' = open \ {listening_[m]} /\ UNCHANGED <<at, s_>>
      BY <2>3 DEF BindFails
    <3>2. Takes(<<"listening", m>>, NULL)
      BY <3>1, ListeningChanges, HolderKinds DEF Takes
    <3> QED
      BY <3>2, TakesKeepsOwned, HolderKinds
  <2>4. CASE LookupFails(m) \/ ConnectSocketFails(m)
    <3>1. /\ pc[m] \notin {"connect", "object"}
          /\ Forgets(m) /\ UNCHANGED <<open, listening_, s_>>
      BY <2>4 DEF LookupFails, ConnectSocketFails, ConnectReturns
    <3> QED
      BY <3>1, ForgetsNothing
  <2>5. CASE ConnectSocket(m)
    <3>1. PICK fd \in Fds \ open : open' = open \cup {fd} /\ at' = [at EXCEPT ![m] = fd]
      BY <2>5 DEF ConnectSocket
    <3>2. at[m] = NULL /\ UNCHANGED <<listening_, s_>>
      BY <2>5 DEF ConnectSocket, Stages
    <3>3. Takes(<<"call", m>>, fd)
      BY <3>1, <3>2, CallChanges, HolderKinds DEF Takes
    <3> QED
      BY <3>3, TakesKeepsOwned, HolderKinds
  <2>6. CASE ConnectFails(m)
    <3>1. /\ at' = [at EXCEPT ![m] = NULL]
          /\ open' = open \ {at[m]} /\ UNCHANGED <<listening_, s_>>
      BY <2>6 DEF ConnectFails, ConnectReturns, Forgets
    <3>2. Takes(<<"call", m>>, NULL)
      BY <3>1, CallChanges, HolderKinds DEF Takes
    <3> QED
      BY <3>2, TakesKeepsOwned, HolderKinds
  <2>7. ASSUME NEW s \in Sockets, NewSocket(m, s)
        PROVE  Owned'
    <3>1. s_[s] = NULL
      BY <2>7, UnusedHoldsNothing DEF NewSocket
    <3> QED
      BY <2>7, <3>1, HandedOver DEF NewSocket, Forgets
  <2> QED
    BY <1>2, <2>1, <2>2, <2>3, <2>4, <2>5, <2>6, <2>7 DEF Steps
<1>3. ASSUME NEW m \in Managers, Application(m)
      PROVE  Owned'
  <2>1. ASSUME \/ \E settings \in Settings : CreateEtwork(m, settings)
               \/ \E err \in {WrongVersion, WrongSizes} : WrongSettings(m, err)
               \/ \E host \in Hosts : Connect(m, host)
               \/ \E s \in Sockets : Accept(m, s)
        PROVE  Owned'
    <3>1. UNCHANGED <<open, listening_, at, s_>>
      BY <2>1 DEF CreateEtwork, WrongSettings, Connect, Accept
    <3> QED
      BY <3>1, NothingChanges
  <2>2. ASSUME NEW s \in Sockets, Arrives(m, s)
        PROVE  Owned'
    <3>1. s_[s] = NULL /\ UNCHANGED <<listening_, at>>
      BY <2>2, UnusedHoldsNothing DEF Arrives
    <3>2. CASE settings_[m].reliable
      <4>1. PICK fd \in Fds \ open : open' = open \cup {fd} /\ s_' = [s_ EXCEPT ![s] = fd]
        BY <2>2, <3>2 DEF Arrives
      <4>2. Takes(<<"socket", s>>, fd)
        BY <3>1, <4>1, SocketChanges, HolderKinds DEF Takes
      <4> QED
        BY <4>2, TakesKeepsOwned, HolderKinds
    <3>3. CASE ~settings_[m].reliable
      <4>1. s_' = s_ /\ open' = open
        BY <2>2, <3>1, <3>3 DEF Arrives, TypeOK
      <4> QED
        BY <3>1, <4>1, NothingChanges
    <3> QED
      BY <3>2, <3>3
  <2>3. ASSUME NEW s \in Sockets, CloseSocket(m, s) \/ DisposeSocket(m, s)
        PROVE  Owned'
    <3>1. /\ s_' = [s_ EXCEPT ![s] = NULL]
          /\ open' = open \ {s_[s]} /\ UNCHANGED <<listening_, at>>
      BY <2>3 DEF CloseSocket, DisposeSocket
    <3>2. Takes(<<"socket", s>>, NULL)
      BY <3>1, SocketChanges, HolderKinds DEF Takes
    <3> QED
      BY <3>2, TakesKeepsOwned, HolderKinds
  <2>4. CASE Dispose(m)
    <3>1. /\ listening_' = [listening_ EXCEPT ![m] = NULL]
          /\ open' = open \ {listening_[m]} /\ UNCHANGED <<at, s_>>
      BY <2>4 DEF Dispose
    <3>2. Takes(<<"listening", m>>, NULL)
      BY <3>1, ListeningChanges, HolderKinds DEF Takes
    <3> QED
      BY <3>2, TakesKeepsOwned, HolderKinds
  <2> QED
    BY <1>3, <2>1, <2>2, <2>3, <2>4 DEF Application
<1>4. ASSUME NEW m \in Managers, Lock(m)
      PROVE  Owned'
  BY <1>4, NothingChanges DEF Lock
<1> QED
  BY <1>1, <1>2, <1>3, <1>4 DEF Next

LEMMA NextKept ==
  ASSUME TypeOK, Kept, [Next]_vars
  PROVE  Kept'
<1> USE DEF TypeOK, Kept, registry
<1>1. CASE UNCHANGED registry
  BY <1>1
<1>2. ASSUME NEW m \in Managers, NEW s \in Sockets,
             NewSocket(m, s) \/ Arrives(m, s) \/ CloseSocket(m, s)
      PROVE  Kept'
  BY <1>2 DEF NewSocket, Arrives, CloseSocket
<1>3. ASSUME NEW m \in Managers, NEW s \in Sockets, Accept(m, s) \/ DisposeSocket(m, s)
      PROVE  Kept'
  BY <1>3 DEF Accept, DisposeSocket
<1>4. ASSUME NEW m \in Managers, Dispose(m)
      PROVE  Kept'
  BY <1>4 DEF Dispose
<1>5. ASSUME NEW m \in Managers, Lock(m)
      PROVE  UNCHANGED registry
  BY <1>5 DEF Lock
<1>6. ASSUME NEW m \in Managers, Steps(m), \A s \in Sockets : ~NewSocket(m, s)
      PROVE  UNCHANGED registry
  BY <1>6
  DEF Steps, WSAStartup, WSAStartupFails, Socket, SocketFails, Bind, BindFails, Gethostbyname,
      LookupFails, CopyAddress, ConnectSocket, ConnectSocketFails, Connected, ConnectFails
<1>7. ASSUME NEW m \in Managers,
             \/ \E settings \in Settings : CreateEtwork(m, settings)
             \/ \E err \in {WrongVersion, WrongSizes} : WrongSettings(m, err)
             \/ \E host \in Hosts : Connect(m, host)
      PROVE  UNCHANGED registry
  BY <1>7 DEF CreateEtwork, WrongSettings, Connect
<1>8. ASSUME NEW m \in Managers, Application(m)
      PROVE  Kept'
  BY <1>1, <1>2, <1>3, <1>4, <1>7, <1>8 DEF Application
<1>9. ASSUME NEW m \in Managers, Steps(m)
      PROVE  Kept'
  BY <1>1, <1>2, <1>6, <1>9
<1>10. CASE UNCHANGED vars
  BY <1>1, <1>10 DEF vars
<1> QED
  BY <1>1, <1>5, <1>8, <1>9, <1>10 DEF Next

-----------------------------------------------------------------------------
(* Addresses *)

\* The thread that has the lock is the only one between lookup and copy, so
\* that what it copies is the answer to its own question.
LEMMA NextLocked ==
  ASSUME TypeOK, Locked, ConnectsWhereAsked, [Next]_vars
  PROVE  Locked' /\ ConnectsWhereAsked'
<1> USE LifecycleAssumption
    DEF TypeOK, Locked, ConnectsWhereAsked, Goto, GoOn, Forgets, ConnectReturns, NoManager,
        OpenReturns, globals, manager, registry, call
<1>1. CASE UNCHANGED vars
  BY <1>1 DEF vars
<1>2. ASSUME NEW m \in Managers, Steps(m)
      PROVE  Locked' /\ ConnectsWhereAsked'
  <2>1. CASE WSAStartup(m) \/ WSAStartupFails(m) \/ Socket(m) \/ SocketFails(m)
    BY <2>1 DEF WSAStartup, WSAStartupFails, Socket, SocketFails
  <2>2. CASE Bind(m) \/ BindFails(m)
    BY <2>2 DEF Bind, BindFails
  <2>3. CASE Gethostbyname(m)
    BY <2>3 DEF Gethostbyname
  <2>4. CASE LookupFails(m)
    BY <2>4 DEF LookupFails
  <2>5. CASE CopyAddress(m)
    BY <2>5 DEF CopyAddress
  <2>6. CASE ConnectSocket(m) \/ ConnectSocketFails(m)
    BY <2>6 DEF ConnectSocket, ConnectSocketFails
  <2>7. CASE Connected(m) \/ ConnectFails(m)
    BY <2>7 DEF Connected, ConnectFails
  <2>8. ASSUME NEW s \in Sockets, NewSocket(m, s)
        PROVE  Locked' /\ ConnectsWhereAsked'
    BY <2>8 DEF NewSocket
  <2> QED
    BY <1>2, <2>1, <2>2, <2>3, <2>4, <2>5, <2>6, <2>7, <2>8 DEF Steps
<1>3. ASSUME NEW m \in Managers, Application(m)
      PROVE  Locked' /\ ConnectsWhereAsked'
  <2>1. ASSUME NEW settings \in Settings, CreateEtwork(m, settings)
        PROVE  Locked' /\ ConnectsWhereAsked'
    BY <2>1 DEF CreateEtwork
  <2>2. ASSUME NEW err, WrongSettings(m, err)
        PROVE  Locked' /\ ConnectsWhereAsked'
    BY <2>2 DEF WrongSettings
  <2>3. ASSUME NEW host \in Hosts, Connect(m, host)
        PROVE  Locked' /\ ConnectsWhereAsked'
    BY <2>3 DEF Connect
  <2>4. ASSUME NEW s \in Sockets,
               Arrives(m, s) \/ Accept(m, s) \/ CloseSocket(m, s) \/ DisposeSocket(m, s)
        PROVE  Locked' /\ ConnectsWhereAsked'
    <3>1. UNCHANGED <<globals, pc, call>>
      BY <2>4 DEF Arrives, Accept, CloseSocket, DisposeSocket
    <3> QED
      BY <3>1
  <2>5. CASE Dispose(m)
    BY <2>5 DEF Dispose
  <2> QED
    BY <1>3, <2>1, <2>2, <2>3, <2>4, <2>5 DEF Application
<1>4. ASSUME NEW m \in Managers, Lock(m)
      PROVE  Locked' /\ ConnectsWhereAsked'
  BY <1>4 DEF Lock
<1> QED
  BY <1>1, <1>2, <1>3, <1>4 DEF Next

-----------------------------------------------------------------------------
LEMMA InitInv == Init => Inv
<1>1. Init => Locked /\ ConnectsWhereAsked
  BY DEF Init, Locked, ConnectsWhereAsked
<1> QED
  BY <1>1, InitTypes, InitOwned DEF Inv

LEMMA NextInv == Inv /\ [Next]_vars => Inv'
  BY NextTypes, NextOwned, NextKept, NextLocked DEF Inv

LEMMA Invariance == Spec => []Inv
  BY InitInv, NextInv, PTL DEF Spec

\* The variables have their types and a socket is in one place, for any number
\* of managers.
THEOREM TypeCorrect == Spec => []TypeOK
<1>1. Inv => TypeOK
  BY DEF Inv
<1> QED
  BY <1>1, Invariance, PTL

\* Whatever system calls fail in open() and connect(), and however sockets are
\* closed and disposed, no descriptor leaks and none is closed twice.
THEOREM DescriptorsOwnedHolds == Spec => []DescriptorsOwned
<1>1. Inv => DescriptorsOwned
  <2> SUFFICES ASSUME Inv, NEW fd \in Fds
               PROVE  /\ fd \in open <=> Owners(fd) # {}
                      /\ \A x, y \in Owners(fd) : x = y
                      /\ \A s \in Sockets : s_[s] = fd =>
                           s \in abandoned
                                 \cup UNION {sockets_[m] \cup accepted_[m] : m \in Managers}
    BY DEF DescriptorsOwned
  <2>1. Owners(fd) = {h \in Holders : Holding[h] = fd}
    <3>1. ASSUME NEW x \in Owners(fd)
          PROVE  x \in Holders /\ Holding[x] = fd
      BY HolderKinds DEF Owners
    <3>2. ASSUME NEW h \in Holders, Holding[h] = fd
          PROVE  h \in Owners(fd)
      <4>1. ASSUME NEW m \in Managers, h = <<"listening", m>>
            PROVE  h \in Owners(fd)
        BY <3>2, <4>1, HolderKinds DEF Owners
      <4>2. ASSUME NEW m \in Managers, h = <<"call", m>>
            PROVE  h \in Owners(fd)
        BY <3>2, <4>2, HolderKinds DEF Owners
      <4>3. ASSUME NEW s \in Sockets, h = <<"socket", s>>
            PROVE  h \in Owners(fd)
        BY <3>2, <4>3, HolderKinds DEF Owners
      <4> QED
        BY <4>1, <4>2, <4>3, HolderKinds
    <3> QED
      BY <3>1, <3>2
  <2>2. fd # NULL
    BY LifecycleAssumption
  <2>3. (fd \in open <=> Owners(fd) # {}) /\ \A x, y \in Owners(fd) : x = y
    BY <2>1 DEF Inv, Owned
  <2>4. ASSUME NEW s \in Sockets, s_[s] = fd
        PROVE  s \in abandoned \cup UNION {sockets_[m] \cup accepted_[m] : m \in Managers}
    BY <2>2, <2>4 DEF Inv, Kept
  <2> QED
    BY <2>3, <2>4
<1> QED
  BY <1>1, Invariance, PTL

\* gethostLock makes every connect() go where it was asked to, for any number
\* of threads.
THEOREM ConnectsWhereAskedHolds == Spec => []ConnectsWhereAsked
<1>1. Inv => ConnectsWhereAsked
  BY DEF Inv
<1> QED
  BY <1>1, Invariance, PTL

-----------------------------------------------------------------------------
(* Errors *)

\* What GetWsaError() makes of the codes that only some system calls fail with.
LEMMA OptionsFound ==
  ASSUME NEW err, NEW option \in DOMAIN OptionFrom, GetWsaError(err) = option
  PROVE  err \in WsaOptions[option]
<1>1. "EO_unknown_error" \notin DOMAIN OptionFrom
  BY DEF OptionFrom
<1>2. \E o \in DOMAIN WsaOptions : err \in WsaOptions[o]
  BY <1>1 DEF GetWsaError
<1> QED
  BY <1>2 DEF GetWsaError

\* Each system call fails only with what its documentation lists, so what is
\* said to be at fault is what its step works on.
LEMMA StageNamed ==
  ASSUME NEW during, NEW errs, NEW err \in errs,
         \/ during \in {"listen", "socket"} /\ errs = SocketErrors
         \/ during = "bind" /\ errs = BindErrors
         \/ during = "lookup" /\ errs = LookupErrors
         \/ during = "connect" /\ errs = ConnectErrors,
         GetWsaError(err) \in DOMAIN OptionFrom
  PROVE  during \in OptionFrom[GetWsaError(err)]
<1>1. /\ OptionFrom["EO_bad_address"] = {"lookup", "connect"}
      /\ OptionFrom["EO_already_in_use"] = {"bind", "connect"}
      /\ OptionFrom["EO_peer_refused"] = {"connect"}
      /\ OptionFrom["EO_peer_timeout"] = {"connect"}
      /\ DOMAIN OptionFrom = {"EO_bad_address", "EO_already_in_use", "EO_peer_refused",
                              "EO_peer_timeout"}
  BY DEF OptionFrom
<1>2. /\ WsaOptions["EO_bad_address"] =
           {"WSAENETUNREACH", "WSAEHOSTUNREACH", "WSAHOST_NOT_FOUND", "WSATRY_AGAIN",
            "WSANO_RECOVERY", "WSANO_DATA"}
      /\ WsaOptions["EO_already_in_use"] = {"WSAEACCES", "WSAEADDRINUSE"}
      /\ WsaOptions["EO_peer_refused"] = {"WSAECONNREFUSED"}
      /\ WsaOptions["EO_peer_timeout"] = {"WSAECONNABORTED", "WSAETIMEDOUT", "WSAEHOSTDOWN"}
  BY DEF WsaOptions
<1>3. err \in WsaOptions[GetWsaError(err)]
  BY OptionsFound
<1>4. CASE during = "connect"
  BY <1>4, <1>1
<1>5. CASE during \in {"listen", "socket"} /\ errs = SocketErrors
  BY <1>5, <1>1, <1>2, <1>3 DEF SocketErrors, AnyErrors
<1>6. CASE during = "bind" /\ errs = BindErrors
  BY <1>6, <1>1, <1>2, <1>3 DEF BindErrors, AnyErrors
<1>7. CASE during = "lookup" /\ errs = LookupErrors
  BY <1>7, <1>1, <1>2, <1>3 DEF LookupErrors, AnyErrors
<1> QED
  BY <1>4, <1>5, <1>6, <1>7

\* A failed system call is reported as the fault of the manager.
LEMMA SystemCallHeard ==
  ASSUME NEW m \in Managers, NEW errs, NEW err \in errs,
         \/ pc[m] \in {"listen", "socket"} /\ errs = SocketErrors
         \/ pc[m] = "bind" /\ errs = BindErrors
         \/ pc[m] = "lookup" /\ errs = LookupErrors
         \/ pc[m] = "connect" /\ errs = ConnectErrors,
         failure' = [by |-> m, during |-> pc[m],
                     told |-> ErrorFrom(m \in Notifying, gErrorNotify, GetWsaError(err))],
         gErrorNotify' = gErrorNotify
  PROVE  FailureHeard'
<1>1. /\ failure'.by = m /\ failure'.during = pc[m]
      /\ failure'.told.option = GetWsaError(err)
      /\ failure'.told.to = Hearer(m \in Notifying, gErrorNotify)
  BY DEF ErrorFrom
<1>2. m \in Notifying => failure'.told.to = "own"
  BY <1>1 DEF Hearer
<1>3. gErrorNotify' => failure'.told.to # "nobody"
  BY <1>1 DEF Hearer
<1>4. failure'.told.option \in DOMAIN OptionFrom =>
        failure'.during \in OptionFrom[failure'.told.option]
  BY <1>1, StageNamed
<1> QED
  BY <1>1, <1>2, <1>3, <1>4 DEF FailureHeard

\* What fails before the first system call is nobody's fault.
LEMMA SettingsHeard ==
  ASSUME NEW m \in Managers, pc[m] \in {"none", "startup"},
         NEW err \in {"EO_unsupported_version", "EO_no_error", "EO_invalid_parameters"},
         NoManager(m, InfoFromNobody(gErrorNotify, err)),
         gErrorNotify' = gErrorNotify
  PROVE  FailureHeard'
<1>1. /\ failure'.by = m /\ failure'.during = pc[m]
      /\ failure'.told.option = err
      /\ failure'.told.to = Hearer(FALSE, gErrorNotify)
  BY DEF NoManager, InfoFromNobody
<1>2. gErrorNotify' => failure'.told.to # "nobody"
  BY <1>1 DEF Hearer
<1>3. failure'.told.option \notin DOMAIN OptionFrom
  BY <1>1 DEF OptionFrom
<1> QED
  BY <1>1, <1>2, <1>3 DEF FailureHeard

LEMMA FailureStep ==
  ASSUME FailureHeard, gErrorNotify \in BOOLEAN, [Next]_vars
  PROVE  FailureHeard'
<1>1. CASE UNCHANGED vars
  BY <1>1 DEF vars, globals, FailureHeard
<1>2. CASE failure' = NULL
  BY <1>2 DEF FailureHeard
<1>3. ASSUME NEW m \in Managers, Steps(m)
      PROVE  FailureHeard'
  <2> gErrorNotify' = gErrorNotify
    BY <1>3
    DEF Steps, WSAStartup, WSAStartupFails, Socket, SocketFails, Bind, BindFails, Gethostbyname,
        LookupFails, CopyAddress, ConnectSocket, ConnectSocketFails, Connected, ConnectFails,
        NewSocket, globals
  <2>1. CASE WSAStartup(m)
    BY <2>1, <1>2, SettingsHeard DEF WSAStartup, GoOn
  <2>2. CASE WSAStartupFails(m)
    BY <2>2, SettingsHeard DEF WSAStartupFails, WrongVersion
  <2>3. CASE SocketFails(m)
    BY <2>3, SystemCallHeard DEF SocketFails, OpenReturns, NoManager
  <2>4. CASE BindFails(m)
    BY <2>4, SystemCallHeard DEF BindFails, OpenReturns, NoManager
  <2>5. CASE LookupFails(m)
    BY <2>5, SystemCallHeard DEF LookupFails, ConnectReturns
  <2>6. CASE ConnectSocketFails(m)
    BY <2>6, SystemCallHeard DEF ConnectSocketFails, ConnectReturns
  <2>7. CASE ConnectFails(m)
    BY <2>7, SystemCallHeard DEF ConnectFails, ConnectReturns
  <2>8. CASE \/ Socket(m) \/ Bind(m) \/ Gethostbyname(m) \/ CopyAddress(m) \/ ConnectSocket(m)
             \/ Connected(m) \/ \E s \in Sockets : NewSocket(m, s)
    BY <2>8, <1>2
    DEF Socket, Bind, Gethostbyname, CopyAddress, ConnectSocket, Connected, NewSocket, GoOn
  <2> QED
    BY <1>3, <2>1, <2>2, <2>3, <2>4, <2>5, <2>6, <2>7, <2>8 DEF Steps
<1>4. ASSUME NEW m \in Managers, Application(m)
      PROVE  FailureHeard'
  <2>1. ASSUME NEW err \in {WrongVersion, WrongSizes}, WrongSettings(m, err)
        PROVE  FailureHeard'
    BY <2>1, SettingsHeard DEF WrongSettings, WrongVersion, WrongSizes, globals
  <2>2. ASSUME \/ \E settings \in Settings : CreateEtwork(m, settings)
               \/ \E host \in Hosts : Connect(m, host)
               \/ Dispose(m)
        PROVE  FailureHeard'
    BY <2>2, <1>2 DEF CreateEtwork, Connect, Dispose, GoOn
  <2>3. ASSUME NEW s \in Sockets,
               Arrives(m, s) \/ Accept(m, s) \/ CloseSocket(m, s) \/ DisposeSocket(m, s)
        PROVE  FailureHeard'
    BY <2>3, <1>2 DEF Arrives, Accept, CloseSocket, DisposeSocket
  <2> QED
    BY <1>4, <2>1, <2>2, <2>3 DEF Application
<1>5. ASSUME NEW m \in Managers, Lock(m)
      PROVE  FailureHeard'
  BY <1>5, <1>2 DEF Lock, GoOn
<1> QED
  BY <1>1, <1>3, <1>4, <1>5 DEF Next

\* A manager's own notifier hears of every system call that makes open() or
\* connect() fail; the global one hears of every failed call nobody else hears
\* of; and an address, a port or a peer is blamed only by the step that used it.
THEOREM FailureHeardHolds == Spec => []FailureHeard
<1>1. Init => FailureHeard
  BY DEF Init, FailureHeard
<1>2. TypeOK /\ FailureHeard /\ [Next]_vars => FailureHeard'
  BY FailureStep DEF TypeOK
<1> QED
  BY <1>1, <1>2, TypeCorrect, PTL DEF Spec
=============================================================================

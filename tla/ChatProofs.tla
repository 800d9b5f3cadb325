----------------------------- MODULE ChatProofs -----------------------------
(***************************************************************************)
(* Proofs about ChatHost for any number of clients, connections and names, *)
(* whatever the clients send; and, at the end, about ChatSession, where    *)
(* the clients are users whose programs keep to the protocol.              *)
(*                                                                         *)
(* ServesItsClients comes first: which client a service function works     *)
(* for, and where it is listed, decides what may be deleted.  SocketOwned  *)
(* and NameOwned rest on it, each by itself.                               *)
(***************************************************************************)
EXTENDS ChatSession, TLAPS, FiniteSetTheorems, SequenceTheorems

\* The parts of poll() come in order: nobody is served while clients are
\* dropped; a newcomer is in its first service function, and there is room
\* for it; whoever is dropped or taken in has raised generation_.
Phases ==
  /\ pc \in {"idle", "poll", "kill", "accept", "crashed", "exited"}
  /\ serving # NULL => pc \in {"poll", "accept", "crashed"}
  /\ pc \in {"kill", "accept"} => ready = {}
  /\ pc = "kill" /\ tokill # {} => bumped
  /\ pc = "accept" /\ serving # NULL =>
       serving.which = "discovered" /\ bumped

-----------------------------------------------------------------------------
LEMMA InitLoop == ASSUME Init PROVE Phases /\ ServesItsClients
  BY DEF Init, Phases, ServesItsClients

LEMMA NextLoop ==
  ASSUME Phases, ServesItsClients, [Next]_vars
  PROVE  Phases' /\ ServesItsClients'
<1> USE ChatAssumption DEF Phases, ServesItsClients
<1>1. ASSUME Network
      PROVE  Phases' /\ ServesItsClients'
  BY <1>1 DEF Network, Connect, Arrive, Close, NetworkTurn, loop
<1>2. ASSUME NEW r \in SUBSET clients_, Poll(r)
      PROVE  Phases' /\ ServesItsClients'
  BY <1>2 DEF Poll
<1>3. ASSUME NEW c \in Clients, Serve(c)
      PROVE  Phases' /\ ServesItsClients'
  BY <1>3 DEF Serve
<1>4. ASSUME NEW c \in Clients, Kill(c)
      PROVE  Phases' /\ ServesItsClients'
  BY <1>4 DEF Kill
<1>5. ASSUME Service
      PROVE  Phases' /\ ServesItsClients'
  <2>1. ASSUME NEW d \in Clients, TakesAndGoesOn(d), InService(d), pc' \in {pc, "crashed"},
               bumped => bumped'
        PROVE  Phases' /\ ServesItsClients'
    BY <2>1 DEF TakesAndGoesOn, Take
  <2>2. ASSUME NEW d \in Clients, TakesAndFails(d), InService(d), pc = "poll", pc' = pc,
               bumped => bumped'
        PROVE  Phases' /\ ServesItsClients'
    BY <2>2 DEF TakesAndFails, Take, InService
  <2>3. ASSUME NEW d \in Clients, ReadKeepalive(d) PROVE Phases' /\ ServesItsClients'
    BY <2>1, <2>3 DEF ReadKeepalive
  <2>4. ASSUME NEW d \in Clients, ReadLogout(d) PROVE Phases' /\ ServesItsClients'
    <3>1. CASE pc = "poll"
      BY <2>2, <2>4, <3>1 DEF ReadLogout
    <3>2. CASE pc = "accept"
      BY <2>4, <3>2 DEF ReadLogout, Delete
    <3> QED
      BY <2>4, <3>1, <3>2 DEF ReadLogout
  <2>5. ASSUME NEW d \in Clients, ReadText(d) PROVE Phases' /\ ServesItsClients'
    BY <2>1, <2>5 DEF ReadText, After
  <2>6. ASSUME NEW d \in Clients, ReadLogin(d) PROVE Phases' /\ ServesItsClients'
    BY <2>1, <2>6 DEF ReadLogin, Refuse, Admit, After, Serving
  <2>7. ASSUME NEW d \in Clients, ReadLoginAgain(d) PROVE Phases' /\ ServesItsClients'
    <3>1. pc = "poll" /\ InService(d)
      BY <2>7 DEF ReadLoginAgain, Serving, InService
    <3>2. CASE Refuse(d) /\ TakesAndFails(d)
      BY <2>2, <3>1, <3>2 DEF Refuse
    <3>3. CASE Admit(d, Login(d)) /\ TakesAndGoesOn(d) /\ (bumped => bumped')
      BY <2>1, <3>1, <3>3 DEF Admit, After
    <3> QED
      BY <2>7, <3>2, <3>3 DEF ReadLoginAgain
  <2>8. ASSUME NEW d \in Clients, ReadOtherName(d) PROVE Phases' /\ ServesItsClients'
    <3>1. pc = "poll" /\ InService(d)
      BY <2>8 DEF ReadOtherName, Serving, InService
    <3> QED
      BY <2>2, <2>8, <3>1 DEF ReadOtherName
  <2>9. ASSUME NEW d \in Clients, ServiceEnds(d) PROVE Phases' /\ ServesItsClients'
    BY <2>9 DEF ServiceEnds, InService
  <2> QED
    BY <1>5, <2>3, <2>4, <2>5, <2>6, <2>7, <2>8, <2>9 DEF Service
<1>6. ASSUME NEW old \in SUBSET (clients_ \ heard), NEW quiet \in SUBSET (clients_ \ old),
             Sweep(old, quiet)
      PROVE  Phases' /\ ServesItsClients'
  BY <1>6 DEF Sweep, Dropped, Bumped
<1>7. ASSUME BroadcastLeft
      PROVE  Phases' /\ ServesItsClients'
  BY <1>7 DEF BroadcastLeft, After
<1>8. ASSUME NEW s \in Sockets, Newcomer(s)
      PROVE  Phases' /\ ServesItsClients'
  BY <1>8 DEF Newcomer
<1>9. ASSUME NEW late \in BOOLEAN, PollEnds(late)
      PROVE  Phases' /\ ServesItsClients'
  BY <1>9 DEF PollEnds
<1>10. CASE UNCHANGED vars
  BY <1>10 DEF vars, loop
<1>11. CASE PollFails
  BY <1>11 DEF PollFails, loop
<1> QED
  BY <1>1, <1>2, <1>3, <1>4, <1>5, <1>6, <1>7, <1>8, <1>9, <1>10, <1>11 DEF Next, Host

-----------------------------------------------------------------------------
(* What a step does to the clients that are there. *)

Shape ==
  /\ name \in [Clients -> AllNames]
  /\ socket_ \in [Clients -> Sockets \cup {NULL}]
  /\ waiting \subseteq Sockets /\ Live \subseteq Clients

KeepsClients ==
  /\ Live' \subseteq Live
  /\ UNCHANGED <<name, socket_, namedClients_>>
  /\ waiting' \subseteq waiting \cup (Sockets \ Owned)

\* One that logs in gets the name n, or none.
Renames(c, n) ==
  /\ Live' \subseteq Live /\ UNCHANGED <<socket_, waiting>>
  /\ name' = [name EXCEPT ![c] = n]
  /\ \/ n = NoName /\ UNCHANGED namedClients_
     \/ ~NameTaken(c, n) /\ namedClients_' = Entered(c, n)

Drops(c) ==
  /\ Delete(c) /\ Live' = Live \ {c}
  /\ UNCHANGED namedClients_ \/ namedClients_' = Erased(c)

TakesIn(c, s) ==
  /\ New(c, s) /\ Live' = Live \cup {c}
  /\ waiting' = waiting \ {s}
  /\ UNCHANGED namedClients_

ChangesClients ==
  \/ KeepsClients
  \/ \E c \in Live, n \in AllNames : Renames(c, n)
  \/ \E c \in Live : Drops(c)
  \/ \E c \in Clients \ Live, s \in waiting : TakesIn(c, s)

LEMMA StepOnClients ==
  ASSUME Shape,
         inbox \in [Sockets -> Seq(Messages)], SocketOwned,
         Phases, ServesItsClients, [Next]_vars
  PROVE  ChangesClients
<1> USE ChatAssumption
<1>1. ASSUME Network
      PROVE  ChangesClients
  <2>1. UNCHANGED <<name, socket_, namedClients_, clients_, serving>>
    BY <1>1 DEF Network, Connect, Arrive, Close, NetworkTurn, loop, object
  <2>2. waiting' \subseteq waiting \cup (Sockets \ Owned)
    <3>1. ASSUME NEW s \in Sockets, Connect(s)
          PROVE  waiting' \subseteq waiting \cup (Sockets \ Owned)
      BY <3>1 DEF Connect
    <3>2. ASSUME NEW s \in Sockets, NEW m \in Messages, Arrive(s, m)
          PROVE  UNCHANGED waiting
      BY <3>2 DEF Arrive
    <3>3. ASSUME NEW s \in Sockets, Close(s)
          PROVE  UNCHANGED waiting
      BY <3>3 DEF Close
    <3> QED
      BY <1>1, <3>1, <3>2, <3>3 DEF Network
  <2> QED
    BY <2>1, <2>2 DEF ChangesClients, KeepsClients, Live
<1>2. ASSUME NEW r \in SUBSET clients_, Poll(r)
      PROVE  ChangesClients
  BY <1>2 DEF Poll, network, object, ChangesClients, KeepsClients, Live
<1>3. ASSUME NEW c \in Clients, Serve(c)
      PROVE  ChangesClients
  BY <1>3 DEF Serve, network, object, ChangesClients, KeepsClients, Live, ServesItsClients
<1>4. ASSUME NEW c \in Clients, Kill(c)
      PROVE  ChangesClients
  <2>1. serving = NULL /\ c \in Live /\ UNCHANGED serving
    BY <1>4 DEF Kill, Phases, ServesItsClients, Live
  <2>2. CASE pc' = "crashed"
    BY <1>4, <2>1, <2>2 DEF Kill, network, object, ChangesClients, KeepsClients, Live
  <2>3. CASE pc' = pc
    BY <1>4, <2>1, <2>3 DEF Kill, ChangesClients, Drops, Live
  <2> QED
    BY <1>4, <2>2, <2>3 DEF Kill
<1>5. ASSUME Service
      PROVE  ChangesClients
  <2>1. ASSUME NEW d \in Clients, TakesAndGoesOn(d) \/ TakesAndFails(d), InService(d)
        PROVE  /\ d \in Live /\ Live' \subseteq Live
               /\ UNCHANGED <<waiting, socket_>>
    BY <2>1 DEF TakesAndGoesOn, TakesAndFails, Take, InService, Live
  <2>2. ASSUME NEW d \in Clients, TakesAndGoesOn(d) \/ TakesAndFails(d), InService(d),
               UNCHANGED <<name, namedClients_>>
        PROVE  ChangesClients
    BY <2>1, <2>2 DEF ChangesClients, KeepsClients
  <2>3. ASSUME NEW d \in Clients, Received(d, {"login"}), InService(d)
        PROVE  Login(d) \in AllNames
    <3>1. socket_[d] \in Sockets
      BY <2>3 DEF InService, Live, SocketOwned
    <3>2. Head(inbox[socket_[d]]) \in Messages
      BY <2>3, <3>1, HeadTailProperties DEF Received
    <3> QED
      BY <2>3, <3>2 DEF Received, Login, Messages
  <2>4. ASSUME NEW d \in Clients, TakesAndGoesOn(d) \/ TakesAndFails(d), InService(d),
               Refuse(d) \/ (Received(d, {"login"}) /\ Admit(d, Login(d)))
        PROVE  ChangesClients
    <3>1. CASE Refuse(d)
      BY <2>1, <2>4, <3>1 DEF Refuse, ChangesClients, Renames, AllNames
    <3>2. CASE Received(d, {"login"}) /\ Admit(d, Login(d))
      BY <2>1, <2>3, <2>4, <3>2 DEF Admit, ChangesClients, Renames
    <3> QED
      BY <2>4, <3>1, <3>2
  <2>5. ASSUME NEW d \in Clients, ReadKeepalive(d) PROVE ChangesClients
    BY <2>2, <2>5 DEF ReadKeepalive
  <2>6. ASSUME NEW d \in Clients, ReadLogout(d) PROVE ChangesClients
    <3>1. CASE pc = "poll"
      BY <2>2, <2>6, <3>1 DEF ReadLogout
    <3>2. CASE pc = "accept"
      BY <2>6, <3>2 DEF ReadLogout, ChangesClients, Drops, InService, Live, ServesItsClients
    <3> QED
      BY <2>6, <3>1, <3>2 DEF ReadLogout
  <2>7. ASSUME NEW d \in Clients, ReadText(d) PROVE ChangesClients
    BY <2>2, <2>7 DEF ReadText
  <2>8. ASSUME NEW d \in Clients, ReadLogin(d) PROVE ChangesClients
    BY <2>4, <2>8 DEF ReadLogin, Serving
  <2>9. ASSUME NEW d \in Clients, ReadLoginAgain(d) PROVE ChangesClients
    BY <2>4, <2>9 DEF ReadLoginAgain, Serving
  <2>10. ASSUME NEW d \in Clients, ReadOtherName(d) PROVE ChangesClients
    BY <2>2, <2>10 DEF ReadOtherName, Serving
  <2>11. ASSUME NEW d \in Clients, ServiceEnds(d) PROVE ChangesClients
    BY <2>11 DEF ServiceEnds, InService, Live, network, object, ChangesClients, KeepsClients
  <2> QED
    BY <1>5, <2>5, <2>6, <2>7, <2>8, <2>9, <2>10, <2>11 DEF Service
<1>6. ASSUME NEW old \in SUBSET (clients_ \ heard), NEW quiet \in SUBSET (clients_ \ old),
             Sweep(old, quiet)
      PROVE  ChangesClients
  BY <1>6 DEF Sweep, network, object, ChangesClients, KeepsClients, Live
<1>7. ASSUME BroadcastLeft
      PROVE  ChangesClients
  BY <1>7 DEF BroadcastLeft, network, object, ChangesClients, KeepsClients, Live
<1>8. ASSUME NEW s \in Sockets, Newcomer(s)
      PROVE  ChangesClients
  <2>1. CASE Full
    BY <1>8, <2>1 DEF Newcomer, Dispose, object, ChangesClients, KeepsClients, Live
  <2>2. CASE ~Full
    <3>1. PICK c \in Clients \ clients_ :
            New(c, s) /\ serving' = [client |-> c, which |-> "discovered"]
      BY <1>8, <2>2 DEF Newcomer
    <3>2. Live = clients_ /\ Live' = clients_ \cup {c}
      BY <1>8, <3>1, serving' \in Services DEF Newcomer, Live, Services
    <3> QED
      BY <1>8, <2>2, <3>1, <3>2 DEF Newcomer, ChangesClients, TakesIn
  <2> QED
    BY <2>1, <2>2
<1>9. ASSUME NEW late \in BOOLEAN, PollEnds(late)
      PROVE  ChangesClients
  BY <1>9 DEF PollEnds, network, object, ChangesClients, KeepsClients, Live
<1>10. CASE UNCHANGED vars
  BY <1>10 DEF vars, network, object, loop, ChangesClients, KeepsClients, Live
<1>11. CASE PollFails
  BY <1>11 DEF PollFails, network, object, ChangesClients, KeepsClients, Live
<1> QED
  BY <1>1, <1>2, <1>3, <1>4, <1>5, <1>6, <1>7, <1>8, <1>9, <1>10, <1>11 DEF Next, Host

LEMMA NextSocketOwned ==
  ASSUME Shape, SocketOwned, ChangesClients
  PROVE  SocketOwned'
<1> USE ChatAssumption DEF Shape, SocketOwned
<1>1. CASE KeepsClients
  BY <1>1 DEF KeepsClients, Owned
<1>2. ASSUME NEW c \in Live, NEW n \in AllNames, Renames(c, n)
      PROVE  SocketOwned'
  BY <1>2 DEF Renames
<1>3. ASSUME NEW c \in Live, Drops(c)
      PROVE  SocketOwned'
  BY <1>3 DEF Drops, Delete, Dispose
<1>4. ASSUME NEW c \in Clients \ Live, NEW s \in waiting, TakesIn(c, s)
      PROVE  SocketOwned'
  BY <1>4 DEF TakesIn, New
<1> QED
  BY <1>1, <1>2, <1>3, <1>4 DEF ChangesClients

LEMMA NextNameOwned ==
  ASSUME Shape, NameOwned, ChangesClients
  PROVE  NameOwned'
<1> USE ChatAssumption DEF Shape, NameOwned
<1>1. CASE KeepsClients
  BY <1>1 DEF KeepsClients
<1>2. ASSUME NEW c \in Live, NEW n \in AllNames, Renames(c, n)
      PROVE  NameOwned'
  BY <1>2 DEF Renames, Entered, NameTaken
<1>3. ASSUME NEW c \in Live, Drops(c)
      PROVE  NameOwned'
  BY <1>3 DEF Drops, Delete, Erased
<1>4. ASSUME NEW c \in Clients \ Live, NEW s \in waiting, TakesIn(c, s)
      PROVE  NameOwned'
  BY <1>4 DEF TakesIn, New
<1> QED
  BY <1>1, <1>2, <1>3, <1>4 DEF ChangesClients

-----------------------------------------------------------------------------
(* Types.  The table is finite, which makes the lines of a broadcast a      *)
(* sequence; and there is room for a newcomer until it is taken in.         *)

FiniteTable == IsFiniteSet(DOMAIN namedClients_)

Room == pc = "accept" /\ serving # NULL => Cardinality(clients_) < MaxClients

Good ==
  /\ TypeOK /\ FiniteTable /\ Room
  /\ Phases /\ ServesItsClients /\ SocketOwned /\ NameOwned

LEMMA GoodShape == ASSUME TypeOK PROVE Shape
  BY DEF TypeOK, NetworkTyped, ObjectsTyped, HostTyped, PollTyped, Shape, Live, Services

LEMMA TableTyped ==
  ASSUME Shape, HostTyped, FiniteTable, ChangesClients
  PROVE  /\ name' \in [Clients -> AllNames]
         /\ socket_' \in [Clients -> Sockets \cup {NULL}]
         /\ waiting' \subseteq Sockets
         /\ DOMAIN namedClients_' \subseteq AllNames
         /\ \A n \in DOMAIN namedClients_' : namedClients_'[n] \in Clients
         /\ FiniteTable'
<1> DEFINE Typed ==
             /\ name' \in [Clients -> AllNames]
             /\ socket_' \in [Clients -> Sockets \cup {NULL}]
             /\ waiting' \subseteq Sockets
           TypedTable ==
             /\ DOMAIN namedClients_' \subseteq AllNames
             /\ \A n \in DOMAIN namedClients_' : namedClients_'[n] \in Clients
             /\ FiniteTable'
<1>1. ASSUME UNCHANGED namedClients_
      PROVE  TypedTable
  BY <1>1 DEF HostTyped, FiniteTable
<1>2. ASSUME NEW c \in Live, NEW n \in AllNames, namedClients_' = Entered(c, n)
      PROVE  TypedTable
  <2>1. DOMAIN namedClients_' = DOMAIN namedClients_ \cup {n}
    BY <1>2 DEF Entered
  <2>2. FiniteTable'
    BY <2>1, FS_AddElement DEF FiniteTable
  <2> QED
    BY <1>2, <2>1, <2>2 DEF Entered, HostTyped, Shape
<1>3. ASSUME NEW c \in Live, namedClients_' = Erased(c)
      PROVE  TypedTable
  <2>1. DOMAIN namedClients_' = DOMAIN namedClients_ \ {name[c]}
    BY <1>3 DEF Erased
  <2>2. FiniteTable'
    BY <2>1, FS_RemoveElement DEF FiniteTable
  <2> QED
    BY <1>3, <2>1, <2>2 DEF Erased, HostTyped
<1>4. CASE KeepsClients
  BY <1>1, <1>4 DEF KeepsClients, Shape
<1>5. ASSUME NEW c \in Live, NEW n \in AllNames, Renames(c, n)
      PROVE  Typed /\ TypedTable
  BY <1>1, <1>2, <1>5 DEF Renames, Shape
<1>6. ASSUME NEW c \in Live, Drops(c)
      PROVE  Typed /\ TypedTable
  BY <1>1, <1>3, <1>6 DEF Drops, Delete, Dispose, Shape, AllNames
<1>7. ASSUME NEW c \in Clients \ Live, NEW s \in waiting, TakesIn(c, s)
      PROVE  Typed /\ TypedTable
  BY <1>1, <1>7 DEF TakesIn, New, Shape, AllNames
<1> QED
  BY <1>4, <1>5, <1>6, <1>7 DEF ChangesClients

LEMMA LinesTyped ==
  ASSUME NEW table, IsFiniteSet(DOMAIN table), NEW s
  PROVE  /\ Lines(table, s) \in Seq(Replies)
         /\ Len(Lines(table, s)) \in Nat
<1>1. IsFiniteSet({n \in DOMAIN table : socket_[table[n]] = s})
  BY FS_Subset
<1>2. Cardinality({n \in DOMAIN table : socket_[table[n]] = s}) \in Nat
  BY <1>1, FS_CardinalityType
<1>3. Lines(table, s) \in [1 .. Cardinality({n \in DOMAIN table : socket_[table[n]] = s}) -> Replies]
  BY DEF Lines, Replies
<1>4. Lines(table, s) \in Seq(Replies)
  BY <1>2, <1>3, SeqDef
<1> QED
  BY <1>4, LenProperties

LEMMA BroadcastTyped ==
  ASSUME NEW table, IsFiniteSet(DOMAIN table)
  PROVE  Broadcast(table) \in [Sockets -> Seq(Replies)]
  BY LinesTyped DEF Broadcast

LEMMA OneReply ==
  ASSUME NEW r \in Replies, NEW s
  PROVE  /\ [Silence EXCEPT ![s] = <<r>>] \in [Sockets -> Seq(Replies)]
         /\ Silence \in [Sockets -> Seq(Replies)]
<1>1. <<r>> \in Seq(Replies) /\ << >> \in Seq(Replies)
  OBVIOUS
<1> QED
  BY <1>1 DEF Silence

\* What the host wrote in a step is a sequence of replies to each socket.
OutputTyped == output \in [Sockets -> Seq(Replies)]

LEMMA NextOutput ==
  ASSUME Good, FiniteTable', [Next]_vars
  PROVE  OutputTyped'
<1> USE DEF OutputTyped
<1> DEFINE Silent == output' = Silence
<1>0. /\ Silent => OutputTyped'
      /\ \A r \in Replies : \A s :
           output' = [Silence EXCEPT ![s] = <<r>>] => OutputTyped'
  <2>1. "text" \in Replies
    BY DEF Replies
  <2>2. Silent => OutputTyped'
    BY <2>1, OneReply
  <2>3. ASSUME NEW r \in Replies, NEW s, output' = [Silence EXCEPT ![s] = <<r>>]
        PROVE  OutputTyped'
    BY <2>3, OneReply
  <2> QED
    BY <2>2, <2>3
<1>1. CASE Network
  BY <1>0, <1>1 DEF Network, Connect, Arrive, Close, NetworkTurn
<1>2. ASSUME NEW c \in Clients, Admit(c, Login(c))
      PROVE  OutputTyped'
  <2>1. IsFiniteSet(DOMAIN Entered(c, Login(c)))
    BY <1>2 DEF Admit, FiniteTable
  <2>2. PICK joined \in [Sockets -> Seq(Replies)] :
          output' = [joined EXCEPT ![socket_[c]] = Append(@, "accepted")]
    BY <1>2, <2>1, BroadcastTyped, OneReply, "text" \in Replies DEF Admit, Replies
  <2>3. \A s \in Sockets : Append(joined[s], "accepted") \in Seq(Replies)
    BY <2>2 DEF Replies
  <2> QED
    BY <2>2, <2>3
<1>3. CASE Service
  <2>1. ASSUME NEW c \in Clients, Refuse(c) PROVE OutputTyped'
    BY <1>0, <2>1 DEF Refuse, Replies
  <2>2. ASSUME NEW c \in Clients, ReadText(c) PROVE OutputTyped'
    <3>1. CASE output' = Broadcast(namedClients_)
      BY <3>1, BroadcastTyped DEF Good, FiniteTable
    <3> QED
      BY <1>0, <2>2, <3>1 DEF ReadText, Replies
  <2> QED
    BY <1>0, <1>2, <1>3, <2>1, <2>2
    DEF Service, ReadKeepalive, ReadLogout, ReadLogin, ReadLoginAgain, ReadOtherName, ServiceEnds
<1>4. ASSUME NEW old \in SUBSET (clients_ \ heard), NEW quiet \in SUBSET (clients_ \ old),
             Sweep(old, quiet)
      PROVE  OutputTyped'
  <2>1. <<"keepalive">> \in Seq(Replies) /\ << >> \in Seq(Replies)
    BY DEF Replies
  <2> QED
    BY <1>4, <2>1 DEF Sweep
<1>5. CASE BroadcastLeft
  <2>1. CASE left = 0
    BY <1>0, <1>5, <2>1 DEF BroadcastLeft
  <2>2. CASE left # 0
    <3>1. ASSUME NEW s \in Sockets
          PROVE  [i \in 1 .. left * Len(Lines(namedClients_, s)) |-> "text"] \in Seq(Replies)
      <4>1. Len(Lines(namedClients_, s)) \in Nat /\ left \in Nat
        BY LinesTyped DEF Good, FiniteTable, TypeOK, PollTyped
      <4>2. left * Len(Lines(namedClients_, s)) \in Nat
        BY <4>1
      <4>3. [i \in 1 .. left * Len(Lines(namedClients_, s)) |-> "text"]
              \in [1 .. left * Len(Lines(namedClients_, s)) -> Replies]
        BY DEF Replies
      <4> QED
        BY <4>2, <4>3, SeqDef
    <3> QED
      BY <1>5, <2>2, <3>1 DEF BroadcastLeft
  <2> QED
    BY <2>1, <2>2
<1>6. CASE (\E r \in SUBSET clients_ : Poll(r))
           \/ (\E c \in Clients : Serve(c) \/ Kill(c))
           \/ (\E s \in Sockets : Newcomer(s))
           \/ (\E late \in BOOLEAN : PollEnds(late))
           \/ PollFails
  BY <1>0, <1>6 DEF Poll, Serve, Kill, Newcomer, PollEnds, PollFails
<1>7. CASE UNCHANGED vars
  BY <1>7 DEF vars, Good, TypeOK, NetworkTyped
<1> QED
  BY <1>1, <1>3, <1>4, <1>5, <1>6, <1>7 DEF Next, Host

\* The rest of the type invariant.
Rest ==
  /\ inbox \in [Sockets -> Seq(Messages)] /\ closed \in [Sockets -> BOOLEAN]
  /\ service_ \in [Clients -> {"discovered", "known"}]
  /\ clients_ \subseteq Clients /\ Cardinality(clients_) <= MaxClients
  /\ bumped \in BOOLEAN /\ shown \subseteq Clients
  /\ PollTyped
  /\ Room

LEMMA NextRest ==
  ASSUME Good, [Next]_vars
  PROVE  Rest'
<1> USE ChatAssumption
<1>0. Rest
  BY DEF Good, Rest, TypeOK, NetworkTyped, ObjectsTyped, HostTyped
<1>1. CASE Network
  <2>1. UNCHANGED <<object, clients_, namedClients_, bumped, shown, pc, loop>>
    BY <1>1 DEF Network, Connect, Arrive, Close, NetworkTurn
  <2>2. ASSUME NEW s \in Sockets, NEW m \in Messages, Arrive(s, m)
        PROVE  inbox' \in [Sockets -> Seq(Messages)] /\ UNCHANGED closed
    <3>1. Append(inbox[s], m) \in Seq(Messages)
      BY <1>0, AppendProperties DEF Rest
    <3> QED
      BY <1>0, <2>2, <3>1 DEF Arrive, Rest
  <2>3. inbox' \in [Sockets -> Seq(Messages)] /\ closed' \in [Sockets -> BOOLEAN]
    BY <1>0, <1>1, <2>2 DEF Network, Connect, Close, Rest
  <2> QED
    BY <1>0, <2>1, <2>3 DEF Rest, PollTyped, Room, object, loop
<1>2. ASSUME NEW r \in SUBSET clients_, Poll(r)
      PROVE  Rest'
  BY <1>0, <1>2 DEF Poll, Rest, PollTyped, Room, network, object
<1>3. ASSUME NEW c \in Clients, Serve(c)
      PROVE  Rest'
  BY <1>0, <1>3 DEF Serve, Rest, PollTyped, Room, Services, network, object
<1>4. ASSUME NEW s \in Sockets, Dispose(s)
      PROVE  inbox' \in [Sockets -> Seq(Messages)] /\ closed' \in [Sockets -> BOOLEAN]
  BY <1>0, <1>4 DEF Dispose, Rest
<1>5. ASSUME NEW c \in Live, Delete(c)
      PROVE  /\ inbox' \in [Sockets -> Seq(Messages)] /\ closed' \in [Sockets -> BOOLEAN]
             /\ service_' \in [Clients -> {"discovered", "known"}]
  BY <1>0, <1>4, <1>5 DEF Delete, Rest, Good, SocketOwned
<1>6. ASSUME NEW c \in Clients, Kill(c)
      PROVE  Rest'
  <2>1. c \in Live /\ serving = NULL /\ IsFiniteSet(clients_)
    BY <1>0, <1>6, FS_Subset DEF Kill, Live, Good, Phases, ServesItsClients, Rest
  <2>2. Cardinality(clients_ \ {c}) <= MaxClients
    <3>1. Cardinality(clients_ \ {c}) <= Cardinality(clients_)
      BY <2>1, FS_Subset, clients_ \ {c} \subseteq clients_
    <3>2. /\ Cardinality(clients_) \in Nat /\ Cardinality(clients_ \ {c}) \in Nat
          /\ Cardinality(clients_) <= MaxClients
      BY <1>0, <2>1, FS_Subset, FS_CardinalityType, clients_ \ {c} \subseteq clients_ DEF Rest
    <3> QED
      BY <3>1, <3>2
  <2>3. CASE name[c] \notin DOMAIN namedClients_
    BY <1>0, <1>6, <2>1, <2>3 DEF Kill, Rest, PollTyped, Room, network, object
  <2>4. CASE name[c] \in DOMAIN namedClients_
    <3>1. /\ Delete(c) /\ clients_' = clients_ \ {c} /\ left' = left + 1
          /\ pc' = pc /\ pc = "kill" /\ tokill' = tokill \ {c}
          /\ UNCHANGED <<bumped, shown, ready, serving, heard>>
      BY <1>6, <2>4 DEF Kill
    <3>2. PollTyped' /\ Room'
      BY <1>0, <3>1 DEF Rest, PollTyped, Room
    <3>3. /\ inbox' \in [Sockets -> Seq(Messages)] /\ closed' \in [Sockets -> BOOLEAN]
          /\ service_' \in [Clients -> {"discovered", "known"}]
      BY <1>5, <2>1, <3>1
    <3>4. /\ clients_' \subseteq Clients /\ Cardinality(clients_') <= MaxClients
          /\ bumped' \in BOOLEAN /\ shown' \subseteq Clients
      BY <1>0, <2>2, <3>1 DEF Rest
    <3> QED
      BY <3>2, <3>3, <3>4 DEF Rest
  <2> QED
    BY <2>3, <2>4
<1>7. CASE Service
  <2>1. ASSUME NEW c \in Clients, InService(c), Take(c), inbox[socket_[c]] # << >>
        PROVE  /\ inbox' \in [Sockets -> Seq(Messages)] /\ closed' \in [Sockets -> BOOLEAN]
               /\ heard' \subseteq Clients
    <3>1. socket_[c] \in Sockets
      BY <2>1 DEF InService, Live, Good, SocketOwned
    <3>2. Tail(inbox[socket_[c]]) \in Seq(Messages)
      BY <1>0, <2>1, <3>1, HeadTailProperties DEF Rest
    <3> QED
      BY <1>0, <2>1, <3>1, <3>2 DEF Take, Rest, PollTyped
  <2>2. ASSUME NEW c \in Clients, InService(c), TakesAndGoesOn(c) \/ TakesAndFails(c),
               inbox[socket_[c]] # << >>,
               service_' \in [Clients -> {"discovered", "known"}],
               bumped' \in BOOLEAN, pc' \in {pc, "crashed"}
        PROVE  Rest'
    BY <1>0, <2>1, <2>2 DEF TakesAndGoesOn, TakesAndFails, Rest, PollTyped, Room
  <2>3. ASSUME NEW c \in Clients, Refuse(c) \/ Admit(c, Login(c))
        PROVE  /\ service_' \in [Clients -> {"discovered", "known"}]
               /\ pc' \in {pc, "crashed"}
               /\ Refuse(c) => UNCHANGED bumped
    BY <1>0, <2>3 DEF Refuse, Admit, After, Rest
  <2>4. ASSUME NEW c \in Clients, ReadKeepalive(c) PROVE Rest'
    BY <1>0, <2>2, <2>4 DEF ReadKeepalive, Received, Rest
  <2>5. ASSUME NEW c \in Clients, ReadLogout(c) PROVE Rest'
    <3>1. CASE pc = "poll"
      BY <1>0, <2>2, <2>5, <3>1 DEF ReadLogout, Received, Rest
    <3>2. CASE pc = "accept"
      BY <1>0, <1>5, <2>5, <3>2 DEF ReadLogout, InService, Live, Rest, PollTyped, Room
    <3> QED
      BY <2>5, <3>1, <3>2 DEF ReadLogout
  <2>6. ASSUME NEW c \in Clients, ReadText(c) PROVE Rest'
    BY <1>0, <2>2, <2>6 DEF ReadText, Received, After, Rest
  <2>7. ASSUME NEW c \in Clients, ReadLogin(c) PROVE Rest'
    BY <1>0, <2>2, <2>3, <2>7 DEF ReadLogin, Serving, Received, Rest
  <2>8. ASSUME NEW c \in Clients, ReadLoginAgain(c) PROVE Rest'
    BY <1>0, <2>2, <2>3, <2>8 DEF ReadLoginAgain, Serving, Received, Rest
  <2>9. ASSUME NEW c \in Clients, ReadOtherName(c) PROVE Rest'
    BY <1>0, <2>2, <2>9 DEF ReadOtherName, Serving, Received, Rest
  <2>10. ASSUME NEW c \in Clients, ServiceEnds(c) PROVE Rest'
    <3>1. IsFiniteSet(clients_)
      BY <1>0, FS_Subset DEF Rest
    <3>2. pc = "accept" => Cardinality(clients_ \cup {c}) <= MaxClients
      <4>1. pc = "accept" => Cardinality(clients_) < MaxClients
        BY <1>0, <2>10 DEF ServiceEnds, InService, Rest, Room
      <4>2. /\ Cardinality(clients_) \in Nat
            /\ Cardinality(clients_ \cup {c}) <= Cardinality(clients_) + 1
            /\ Cardinality(clients_ \cup {c}) \in Nat
        <5>1. Cardinality(clients_) \in Nat
          BY <3>1, FS_CardinalityType
        <5>2. CASE c \in clients_
          BY <5>1, <5>2, clients_ \cup {c} = clients_
        <5>3. CASE c \notin clients_
          <6>1. Cardinality(clients_ \cup {c}) = Cardinality(clients_) + 1
            BY <3>1, <5>3, FS_AddElement, Zenon
          <6> QED
            BY <5>1, <6>1
        <5> QED
          BY <5>2, <5>3
      <4> QED
        BY <4>1, <4>2
    <3> QED
      BY <1>0, <2>10, <3>2 DEF ServiceEnds, Rest, PollTyped, Room, network, object
  <2> QED
    BY <1>7, <2>4, <2>5, <2>6, <2>7, <2>8, <2>9, <2>10 DEF Service
<1>8. ASSUME NEW old \in SUBSET (clients_ \ heard), NEW quiet \in SUBSET (clients_ \ old),
             Sweep(old, quiet)
      PROVE  Rest'
  BY <1>0, <1>8 DEF Sweep, Dropped, Bumped, Rest, PollTyped, Room, network, object
<1>9. CASE BroadcastLeft
  BY <1>0, <1>9 DEF BroadcastLeft, After, Rest, PollTyped, Room, network, object, Good, Phases
<1>10. ASSUME NEW s \in Sockets, Newcomer(s)
       PROVE  Rest'
  <2>1. IsFiniteSet(clients_) /\ Cardinality(clients_) \in Nat
    BY <1>0, FS_Subset, FS_CardinalityType DEF Rest
  <2>2. CASE Full
    BY <1>0, <1>4, <1>10, <2>2 DEF Newcomer, Rest, PollTyped, Room, object
  <2>3. CASE ~Full
    <3>1. PICK c \in Clients \ clients_ :
            New(c, s) /\ serving' = [client |-> c, which |-> "discovered"]
      BY <1>10, <2>3 DEF Newcomer
    <3>2. Cardinality(clients_) < MaxClients
      BY <2>1, <2>3 DEF Full
    <3> QED
      BY <1>0, <1>10, <2>3, <3>1, <3>2 DEF Newcomer, New, Rest, PollTyped, Room, Services
  <2> QED
    BY <2>2, <2>3
<1>11. ASSUME NEW late \in BOOLEAN, PollEnds(late)
       PROVE  Rest'
  BY <1>0, <1>11 DEF PollEnds, Rest, PollTyped, Room, network, object
<1>12. CASE UNCHANGED vars
  BY <1>0, <1>12 DEF vars, network, object, loop, Rest, PollTyped, Room
<1>13. CASE PollFails
  BY <1>0, <1>13 DEF PollFails, Rest, PollTyped, Room, network, object
<1> QED
  BY <1>1, <1>2, <1>3, <1>6, <1>7, <1>8, <1>9, <1>10, <1>11, <1>12, <1>13 DEF Next, Host

-----------------------------------------------------------------------------
(* The theorems. *)

LEMMA GoodInit == ASSUME Init PROVE Good
<1> USE ChatAssumption DEF Init
<1>1. Silence \in [Sockets -> Seq(Messages)] /\ Silence \in [Sockets -> Seq(Replies)]
  BY DEF Silence
<1>2. NetworkTyped /\ ObjectsTyped
  BY <1>1 DEF NetworkTyped, ObjectsTyped, AllNames
<1>3. DOMAIN namedClients_ = {}
  OBVIOUS
<1>4. HostTyped /\ FiniteTable
  <2>1. IsFiniteSet({}) /\ Cardinality({}) = 0
    BY FS_EmptySet
  <2>2. Cardinality(clients_) <= MaxClients
    BY <2>1
  <2> QED
    BY <1>3, <2>1, <2>2 DEF HostTyped, FiniteTable
<1>5. PollTyped /\ Room
  BY DEF PollTyped, Room
<1>6. SocketOwned /\ NameOwned
  BY DEF SocketOwned, NameOwned, Live
<1> QED
  BY <1>2, <1>4, <1>5, <1>6, InitLoop DEF Good, TypeOK

LEMMA GoodNext == ASSUME Good, [Next]_vars PROVE Good'
<1>1. Shape /\ HostTyped /\ inbox \in [Sockets -> Seq(Messages)]
  BY GoodShape DEF Good, TypeOK, NetworkTyped
<1>2. Phases' /\ ServesItsClients'
  BY NextLoop DEF Good
<1>3. ChangesClients
  BY <1>1, StepOnClients DEF Good
<1>4. SocketOwned' /\ NameOwned'
  BY <1>1, <1>3, NextSocketOwned, NextNameOwned DEF Good
<1>5. Rest'
  BY NextRest
<1>6. /\ name' \in [Clients -> AllNames]
      /\ socket_' \in [Clients -> Sockets \cup {NULL}]
      /\ waiting' \subseteq Sockets
      /\ DOMAIN namedClients_' \subseteq AllNames
      /\ \A n \in DOMAIN namedClients_' : namedClients_'[n] \in Clients
      /\ FiniteTable'
  BY <1>1, <1>3, TableTyped DEF Good
<1>7. OutputTyped'
  BY <1>6, NextOutput
<1>8. TypeOK'
  BY <1>5, <1>6, <1>7
  DEF TypeOK, NetworkTyped, ObjectsTyped, HostTyped, Rest, OutputTyped
<1> QED
  BY <1>2, <1>4, <1>5, <1>6, <1>8 DEF Good, Rest

LEMMA AlwaysGood == Spec => []Good
<1>1. Init => Good
  BY GoodInit
<1>2. Good /\ [Next]_vars => Good'
  BY GoodNext
<1> QED
  BY <1>1, <1>2, PTL DEF Spec

\* Whatever any number of clients send, every variable keeps its type, and
\* there are never more than MaxClients clients.
THEOREM TypeCorrect == Spec => []TypeOK
<1>1. Good => TypeOK
  BY DEF Good
<1> QED
  BY <1>1, AlwaysGood, PTL

\* poll() serves and drops only clients that exist, each in the list where it
\* looks for them (chathost.cpp 207 and 249).
THEOREM ServesItsClientsHolds == Spec => []ServesItsClients
<1>1. Good => ServesItsClients
  BY DEF Good
<1> QED
  BY <1>1, AlwaysGood, PTL

\* No two clients share a connection, and none has one that still waits for
\* accept(), so that the destructor of a client disposes only its own.
THEOREM SocketOwnedHolds == Spec => []SocketOwned
<1>1. Good => SocketOwned
  BY DEF Good
<1> QED
  BY <1>1, AlwaysGood, PTL

\* Who shows a name is the client the table has for it, whoever else asks for
\* the name, is refused, kicked, or logs in a second time (validateName()).
THEOREM NameOwnedHolds == Spec => []NameOwned
<1>1. Good => NameOwned
  BY DEF Good
<1> QED
  BY <1>1, AlwaysGood, PTL

-----------------------------------------------------------------------------
(* ListShown: as long as generation_ has not been raised the list on screen *)
(* is that of the clients.                                                  *)

ListKnown == (~bumped => shown = clients_) /\ ListShown

LEMMA NextListKnown ==
  ASSUME Phases, ServesItsClients, bumped \in BOOLEAN, ListKnown, [Next]_vars
  PROVE  ListKnown'
<1> USE DEF ListKnown, ListShown
<1>1. CASE Network
  BY <1>1 DEF Network, Connect, Arrive, Close, NetworkTurn
<1>2. ASSUME NEW r \in SUBSET clients_, Poll(r)
      PROVE  ListKnown'
  BY <1>2 DEF Poll
<1>3. ASSUME NEW c \in Clients, Serve(c) \/ Kill(c)
      PROVE  ListKnown'
  BY <1>3 DEF Serve, Kill, Phases
<1>4. CASE Service
  <2>1. ASSUME NEW c \in Clients, InService(c), TakesAndGoesOn(c) \/ TakesAndFails(c),
               bumped => bumped', pc' \in {pc, "crashed"}
        PROVE  ListKnown'
    <3>1. pc # "idle"
      BY <2>1 DEF InService, Phases
    <3> QED
      BY <2>1, <3>1 DEF TakesAndGoesOn, TakesAndFails
  <2>2. ASSUME NEW c \in Clients, ReadKeepalive(c) PROVE ListKnown'
    BY <2>1, <2>2 DEF ReadKeepalive
  <2>3. ASSUME NEW c \in Clients, ReadLogout(c) PROVE ListKnown'
    BY <2>3 DEF ReadLogout, TakesAndFails
  <2>4. ASSUME NEW c \in Clients, ReadText(c) PROVE ListKnown'
    BY <2>1, <2>4 DEF ReadText, After
  <2>5. ASSUME NEW c \in Clients, Refuse(c) \/ Admit(c, Login(c))
        PROVE  pc' \in {pc, "crashed"} /\ (Refuse(c) => bumped' = bumped)
    BY <2>5 DEF Refuse, Admit, After
  <2>6. ASSUME NEW c \in Clients, ReadLogin(c) PROVE ListKnown'
    BY <2>1, <2>5, <2>6 DEF ReadLogin, Serving
  <2>7. ASSUME NEW c \in Clients, ReadLoginAgain(c) PROVE ListKnown'
    BY <2>1, <2>5, <2>7 DEF ReadLoginAgain, Serving
  <2>8. ASSUME NEW c \in Clients, ReadOtherName(c) PROVE ListKnown'
    BY <2>1, <2>8 DEF ReadOtherName, Serving
  <2>9. ASSUME NEW c \in Clients, ServiceEnds(c) PROVE ListKnown'
    BY <2>9 DEF ServiceEnds, InService, Phases
  <2> QED
    BY <1>4, <2>2, <2>3, <2>4, <2>6, <2>7, <2>8, <2>9 DEF Service
<1>5. ASSUME NEW old \in SUBSET (clients_ \ heard), NEW quiet \in SUBSET (clients_ \ old),
             Sweep(old, quiet)
      PROVE  ListKnown'
  BY <1>5 DEF Sweep, Bumped
<1>6. CASE BroadcastLeft
  BY <1>6 DEF BroadcastLeft, After
<1>7. ASSUME NEW s \in Sockets, Newcomer(s)
      PROVE  ListKnown'
  BY <1>7 DEF Newcomer
<1>8. ASSUME NEW late \in BOOLEAN, PollEnds(late)
      PROVE  ListKnown'
  BY <1>8 DEF PollEnds
<1>9. CASE UNCHANGED vars
  BY <1>9 DEF vars
<1>10. CASE PollFails
  BY <1>10 DEF PollFails
<1> QED
  BY <1>1, <1>2, <1>3, <1>4, <1>5, <1>6, <1>7, <1>8, <1>9, <1>10 DEF Next, Host

\* Between two polls the list on screen is the list of clients: no way in or
\* out of clients_ forgets to raise generation_.
THEOREM ListShownHolds == Spec => []ListShown
<1>1. Init => ListKnown
  BY DEF Init, ListKnown, ListShown
<1>2. Good /\ ListKnown /\ [Next]_vars => ListKnown'
  BY NextListKnown DEF Good, TypeOK, HostTyped
<1>3. ListKnown => ListShown
  BY DEF ListKnown
<1> QED
  BY <1>1, <1>2, <1>3, AlwaysGood, PTL DEF Spec


-----------------------------------------------------------------------------
(***************************************************************************)
(* The session.                                                            *)
(***************************************************************************)
LEMMA SessionStepIsHostStep == ASSUME [SessionNext]_allVars PROVE [Next]_vars
<1>1. ASSUME NEW u \in Users, UserStep(u) PROVE UNCHANGED vars
  BY <1>1 DEF UserStep, Open, Retry, SendKeepalive, Say, Leave, UserTurn, Read
<1>2. ASSUME NEW u \in Users, ArrivesFirst(u) PROVE Next
  BY <1>2 DEF ArrivesFirst, Next, Network, Users
<1>3. ASSUME NEW u \in Users, Arrives(u) PROVE Next
  BY <1>3 DEF Arrives, Next, Network, Users
<1>4. ASSUME NEW u \in Users, TimesOut(u) PROVE Next
  BY <1>4 DEF TimesOut, Next, Network, Users
<1>5. HostStep => Next
  BY DEF HostStep, Next
<1>6. UNCHANGED allVars => UNCHANGED vars
  BY DEF allVars
<1> QED
  BY <1>1, <1>2, <1>3, <1>4, <1>5, <1>6 DEF SessionNext

\* A session is one of the ways to use the host: what is proved of the host
\* for any peers holds when all are users and the network is UDP.
THEOREM SessionUsesHost == SessionSpec => Spec
<1>1. SessionInit => Init
  BY DEF SessionInit
<1> QED
  BY <1>1, SessionStepIsHostStep, PTL DEF SessionSpec, Spec

-----------------------------------------------------------------------------
(* What comes from users, and what it makes of their clients.              *)

\* What u sends.
Says(u) == {Of("keepalive"), Of("text"), LoginOf(u)}

InboxOfUsers == \A u \in Users : \A i \in DOMAIN inbox[u] : inbox[u][i] \in Says(u)

AirOfUsers == \A u \in Users, m \in Messages : air = [u |-> u, up |-> m] => m \in Says(u)

\* A client that has been let in has the name of its user, others have none.
Named ==
  \A c \in Live :
    name[c] = IF service_[c] = "known" THEN NameOf[socket_[c]] ELSE NoName

Listed ==
  \A n \in DOMAIN namedClients_ :
    n \in Names /\ namedClients_[n] \in Live /\ name[namedClients_[n]] = n

\* The ways a step changes the clients of users.
Stays ==
  Live' = Live /\ UNCHANGED <<name, service_, socket_, namedClients_>>

LogsInAs(c) ==
  /\ c \in Live /\ Live' = Live /\ UNCHANGED socket_
  /\ inbox[socket_[c]] # <<>> /\ Login(c) = NameOf[socket_[c]]
  /\ \/ NameTaken(c, Login(c)) /\ Refuse(c)
     \/ Admit(c, Login(c))

IsDropped(c) ==
  /\ c \in Live /\ Live' = Live \ {c}
  /\ name[c] \in DOMAIN namedClients_
  /\ Delete(c) /\ namedClients_' = Erased(c)

ComesIn(c, s) ==
  /\ c \in Clients \ Live /\ s \in Sockets
  /\ New(c, s) /\ Live' = Live \cup {c} /\ UNCHANGED namedClients_

ChangesUsers ==
  \/ Stays
  \/ \E c \in Clients : LogsInAs(c) \/ IsDropped(c)
  \/ \E c \in Clients, s \in Sockets : ComesIn(c, s)

LEMMA ReceivedFromUser ==
  ASSUME Good, InboxOfUsers, NEW c \in Clients, InService(c),
         inbox[socket_[c]] # <<>>
  PROVE  /\ c \in Live /\ socket_[c] \in Sockets
         /\ Head(inbox[socket_[c]]) \in Says(socket_[c])
<1>1. c \in Live /\ socket_[c] \in Sockets
  BY DEF InService, Live, Good, SocketOwned
<1>2. inbox[socket_[c]] \in Seq(Messages)
  BY <1>1 DEF Good, TypeOK, NetworkTyped
<1>3. Head(inbox[socket_[c]]) = inbox[socket_[c]][1] /\ 1 \in DOMAIN inbox[socket_[c]]
  BY <1>2
<1> QED
  BY <1>1, <1>3 DEF InboxOfUsers, Users

LEMMA LoginFromUser ==
  ASSUME Good, InboxOfUsers, NEW c \in Clients, InService(c), Received(c, {"login"})
  PROVE  Login(c) = NameOf[socket_[c]]
<1>1. Head(inbox[socket_[c]]) \in Says(socket_[c])
  BY ReceivedFromUser DEF Received
<1> QED
  BY <1>1 DEF Received, Says, Of, LoginOf, Login

LEMMA StepOnUsers ==
  ASSUME Good, InboxOfUsers, [Next]_vars
  PROVE  ChangesUsers
<1> USE ChatAssumption DEF ChangesUsers
<1>1. CASE Network
  BY <1>1 DEF Network, Connect, Arrive, Close, NetworkTurn, loop, object, Stays, Live
<1>2. ASSUME NEW r \in SUBSET clients_, Poll(r)
      PROVE  ChangesUsers
  BY <1>2 DEF Poll, network, object, Stays, Live
<1>3. ASSUME NEW c \in Clients, Serve(c)
      PROVE  ChangesUsers
  <2>1. c \in clients_ /\ [client |-> c, which |-> service_[c]] # NULL
    BY <1>3 DEF Serve, Good, ServesItsClients, Services, TypeOK, ObjectsTyped
  <2> QED
    BY <1>3, <2>1 DEF Serve, network, object, Stays, Live
<1>4. ASSUME NEW c \in Clients, Kill(c)
      PROVE  ChangesUsers
  <2>1. serving = NULL /\ c \in Live /\ UNCHANGED serving
    BY <1>4 DEF Kill, Good, Phases, ServesItsClients, Live
  <2>2. CASE pc' = "crashed"
    BY <1>4, <2>1, <2>2 DEF Kill, network, object, Stays, Live
  <2>3. CASE pc' = pc
    <3>1. IsDropped(c)
      BY <1>4, <2>1, <2>3 DEF Kill, IsDropped, Live
    <3> QED
      BY <3>1
  <2> QED
    BY <1>4, <2>2, <2>3 DEF Kill
<1>5. CASE Service
  <2>1. ASSUME NEW d \in Clients, InService(d),
               TakesAndGoesOn(d) \/ (TakesAndFails(d) /\ pc = "poll")
        PROVE  d \in Live /\ Live' = Live /\ UNCHANGED socket_
    BY <2>1 DEF TakesAndGoesOn, TakesAndFails, InService, Live, Good, ServesItsClients
  <2>2. ASSUME NEW d \in Clients, InService(d),
               TakesAndGoesOn(d) \/ (TakesAndFails(d) /\ pc = "poll"),
               UNCHANGED <<name, service_, namedClients_>>
        PROVE  ChangesUsers
    BY <2>1, <2>2 DEF Stays
  <2>3. ASSUME NEW d \in Clients, InService(d), Received(d, {"login"}),
               TakesAndGoesOn(d) \/ (TakesAndFails(d) /\ pc = "poll"),
               (NameTaken(d, Login(d)) /\ Refuse(d)) \/ Admit(d, Login(d))
        PROVE  ChangesUsers
    <3>1. LogsInAs(d)
      BY <2>1, <2>3, LoginFromUser DEF LogsInAs, Received
    <3> QED
      BY <3>1
  <2>4. ASSUME NEW d \in Clients, Serving(d, "known")
        PROVE  pc = "poll" /\ InService(d)
    BY <2>4 DEF Serving, InService, Good, Phases
  <2>5. ASSUME NEW d \in Clients, ReadKeepalive(d) PROVE ChangesUsers
    BY <2>2, <2>5 DEF ReadKeepalive
  <2>6. ASSUME NEW d \in Clients, ReadLogout(d) PROVE FALSE
    <3>1. Head(inbox[socket_[d]]) \in Says(socket_[d])
      BY <2>6, ReceivedFromUser DEF ReadLogout, Received
    <3> QED
      BY <2>6, <3>1 DEF ReadLogout, Received, Says, Of, LoginOf
  <2>7. ASSUME NEW d \in Clients, ReadText(d) PROVE ChangesUsers
    BY <2>2, <2>7 DEF ReadText
  <2>8. ASSUME NEW d \in Clients, ReadLogin(d) PROVE ChangesUsers
    BY <2>3, <2>8 DEF ReadLogin, Serving
  <2>9. ASSUME NEW d \in Clients, ReadLoginAgain(d) PROVE ChangesUsers
    BY <2>3, <2>4, <2>9 DEF ReadLoginAgain
  <2>10. ASSUME NEW d \in Clients, ReadOtherName(d) PROVE ChangesUsers
    BY <2>2, <2>4, <2>10 DEF ReadOtherName
  <2>11. ASSUME NEW d \in Clients, ServiceEnds(d) PROVE ChangesUsers
    BY <2>11 DEF ServiceEnds, InService, Live, network, object, Stays, Good, ServesItsClients
  <2> QED
    BY <1>5, <2>5, <2>6, <2>7, <2>8, <2>9, <2>10, <2>11 DEF Service
<1>6. ASSUME NEW old \in SUBSET (clients_ \ heard), NEW quiet \in SUBSET (clients_ \ old),
             Sweep(old, quiet)
      PROVE  ChangesUsers
  BY <1>6 DEF Sweep, network, object, Stays, Live
<1>7. CASE BroadcastLeft
  BY <1>7 DEF BroadcastLeft, network, object, Stays, Live
<1>8. ASSUME NEW s \in Sockets, Newcomer(s)
      PROVE  ChangesUsers
  <2>1. CASE Full
    BY <1>8, <2>1 DEF Newcomer, object, Stays, Live
  <2>2. CASE ~Full
    <3>1. PICK c \in Clients \ clients_ :
            New(c, s) /\ serving' = [client |-> c, which |-> "discovered"]
      BY <1>8, <2>2 DEF Newcomer
    <3>2. Live = clients_ /\ Live' = clients_ \cup {c}
      BY <1>8, <3>1, serving' \in Services DEF Newcomer, Live, Services
    <3>3. ComesIn(c, s)
      BY <1>8, <3>1, <3>2 DEF Newcomer, ComesIn
    <3> QED
      BY <3>3
  <2> QED
    BY <2>1, <2>2
<1>9. ASSUME NEW late \in BOOLEAN, PollEnds(late)
      PROVE  ChangesUsers
  BY <1>9 DEF PollEnds, network, object, Stays, Live
<1>10. CASE UNCHANGED vars
  BY <1>10 DEF vars, network, object, loop, Stays, Live
<1>11. CASE PollFails
  BY <1>11 DEF PollFails, network, object, Stays, Live
<1> QED
  BY <1>1, <1>2, <1>3, <1>4, <1>5, <1>6, <1>7, <1>8, <1>9, <1>10, <1>11 DEF Next, Host

LEMMA NextNamedListed ==
  ASSUME Good, Named, Listed, ChangesUsers
  PROVE  Named' /\ Listed'
<1> USE ChatAssumption, SessionAssumption
<1>0. Shape /\ service_ \in [Clients -> {"discovered", "known"}]
  BY GoodShape DEF Good, TypeOK, ObjectsTyped
<1>1. CASE Stays
  BY <1>1 DEF Stays, Named, Listed
<1>2. ASSUME NEW c \in Clients, LogsInAs(c)
      PROVE  Named' /\ Listed'
  <2>1. NameOf[socket_[c]] \in Names
    BY <1>2 DEF LogsInAs, Good, SocketOwned, Users
  <2>2. CASE NameTaken(c, Login(c)) /\ Refuse(c)
    <3>1. service_[c] # "known"
      BY <1>2, <2>1, <2>2 DEF LogsInAs, Named, Good, NameOwned, NameTaken
    <3>2. Named'
      BY <1>0, <1>2, <2>2, <3>1 DEF LogsInAs, Refuse, Named, Shape
    <3>3. name[c] = NoName
      BY <1>2, <3>1 DEF LogsInAs, Named
    <3>4. Listed'
      BY <1>0, <1>2, <2>2, <3>3 DEF LogsInAs, Refuse, Listed, Shape
    <3> QED
      BY <3>2, <3>4
  <2>3. CASE Admit(c, Login(c))
    <3>1. name[c] \in {NoName, Login(c)}
      BY <1>2 DEF LogsInAs, Named
    <3>2. /\ name' = [name EXCEPT ![c] = Login(c)] /\ ~NameTaken(c, Login(c))
          /\ service_' = [service_ EXCEPT ![c] = "known"]
          /\ namedClients_' = Entered(c, Login(c))
      BY <2>3 DEF Admit
    <3>3. Named'
      BY <1>0, <1>2, <3>2 DEF LogsInAs, Named, Shape
    <3>4. Listed'
      BY <1>0, <1>2, <2>1, <3>1, <3>2 DEF LogsInAs, Listed, Shape, Entered, NameTaken
    <3> QED
      BY <3>3, <3>4
  <2> QED
    BY <1>2, <2>2, <2>3 DEF LogsInAs
<1>3. ASSUME NEW c \in Clients, IsDropped(c)
      PROVE  Named' /\ Listed'
  BY <1>0, <1>3 DEF IsDropped, Delete, Erased, Named, Listed, Shape
<1>4. ASSUME NEW c \in Clients, NEW s \in Sockets, ComesIn(c, s)
      PROVE  Named' /\ Listed'
  BY <1>0, <1>4 DEF ComesIn, New, Named, Listed, Shape
<1> QED
  BY <1>1, <1>2, <1>3, <1>4 DEF ChangesUsers


-----------------------------------------------------------------------------
(* What the host says, and to whom.                                        *)

LEMMA LinesToKnown ==
  ASSUME Named', Listed', UNCHANGED socket_,
         NEW s \in Sockets, NEW i \in DOMAIN Lines(namedClients_', s)
  PROVE  Known(s)'
<1> DEFINE Of_s == {n \in DOMAIN namedClients_' : socket_[namedClients_'[n]] = s}
<1>1. Of_s # {}
  <2>1. DOMAIN Lines(namedClients_', s) = 1 .. Cardinality(Of_s)
    BY DEF Lines
  <2>2. Of_s = {} => Cardinality(Of_s) = 0
    BY FS_EmptySet
  <2> QED
    BY <2>1, <2>2
<1>2. PICK n \in DOMAIN namedClients_' : socket_[namedClients_'[n]] = s
  BY <1>1
<1>3. n \in Names /\ namedClients_'[n] \in Live' /\ name'[namedClients_'[n]] = n
  BY DEF Listed
<1>4. service_'[namedClients_'[n]] = "known" /\ n = NameOf[s]
  BY <1>2, <1>3, ChatAssumption DEF Named
<1> QED
  BY <1>2, <1>3, <1>4 DEF Known

\* Only those the host has let in hear a line or an answer to their login.
Trusted(s) ==
  \A i \in DOMAIN output[s] : output[s][i] \in {"text", "accepted"} => Known(s)

LEMMA SpeaksToKnown ==
  ASSUME Good, InboxOfUsers, Named', Listed', Host, NEW s \in Sockets
  PROVE  Trusted(s)'
<1> USE DEF Trusted
<1>1. output'[s] = <<>> => Trusted(s)'
  OBVIOUS
<1>2. Silence[s] = <<>>
  BY DEF Silence
<1>3. ASSUME output' = Broadcast(namedClients_'), UNCHANGED socket_
      PROVE  Trusted(s)'
  BY <1>3, LinesToKnown DEF Broadcast
<1>4. ASSUME NEW c \in Clients, InService(c), inbox[socket_[c]] # <<>>,
             output' = [Silence EXCEPT ![socket_[c]] = <<"nologin">>]
      PROVE  Trusted(s)'
  <2>1. socket_[c] \in Sockets
    BY <1>4, ReceivedFromUser
  <2> QED
    BY <1>2, <1>4, <2>1 DEF Silence
<1>5. ASSUME NEW c \in Clients, InService(c), Received(c, {"login"}),
             Admit(c, Login(c)), Live' = Live, UNCHANGED socket_
      PROVE  Trusted(s)'
  <2> DEFINE joined == IF Login(c) \notin DOMAIN namedClients_
                         THEN Broadcast(Entered(c, Login(c))) ELSE Silence
  <2>1. c \in Live /\ socket_[c] \in Sockets /\ Login(c) = NameOf[socket_[c]]
    BY <1>5, ReceivedFromUser, LoginFromUser DEF Received
  <2>2. Known(socket_[c])'
    <3>1. service_'[c] = "known" /\ name'[c] = Login(c)
      BY <1>5, <2>1 DEF Admit, Good, TypeOK, ObjectsTyped
    <3> QED
      BY <1>5, <2>1, <3>1 DEF Known
  <2>3. namedClients_' = Entered(c, Login(c))
    BY <1>5 DEF Admit
  <2>4. output' = [joined EXCEPT ![socket_[c]] = Append(@, "accepted")]
    BY <1>5 DEF Admit
  <2>5. s # socket_[c] => output'[s] = joined[s]
    BY <2>4
  <2>6. ASSUME NEW i \in DOMAIN joined[s] PROVE Known(s)'
    <3>1. i \in DOMAIN Lines(namedClients_', s)
      BY <2>3, <2>6, <1>2 DEF Broadcast
    <3> QED
      BY <1>5, <3>1, LinesToKnown
  <2>7. CASE s = socket_[c]
    BY <1>5, <2>2, <2>7 DEF Known
  <2>8. CASE s # socket_[c]
    <3> HIDE DEF joined
    <3> QED
      BY <2>5, <2>6, <2>8
  <2> QED
    BY <2>7, <2>8
<1>6. CASE Service
  <2>1. ASSUME NEW d \in Clients, InService(d),
               TakesAndGoesOn(d) \/ (TakesAndFails(d) /\ pc = "poll")
        PROVE  Live' = Live /\ UNCHANGED socket_
    BY <2>1 DEF TakesAndGoesOn, TakesAndFails, InService, Live, Good, ServesItsClients
  <2>2. ASSUME NEW d \in Clients, InService(d), Received(d, {"login"}),
               TakesAndGoesOn(d) \/ (TakesAndFails(d) /\ pc = "poll"),
               Refuse(d) \/ Admit(d, Login(d))
        PROVE  Trusted(s)'
    BY <1>4, <1>5, <2>1, <2>2 DEF Received, Refuse
  <2>3. ASSUME NEW d \in Clients, Serving(d, "known")
        PROVE  pc = "poll" /\ InService(d)
    BY <2>3 DEF Serving, InService, Good, Phases
  <2>4. ASSUME NEW d \in Clients, ReadText(d) PROVE Trusted(s)'
    <3>1. InService(d) /\ inbox[socket_[d]] # <<>> /\ UNCHANGED <<socket_, namedClients_>>
      BY <2>4 DEF ReadText, Received, TakesAndGoesOn
    <3>2. CASE output' = [Silence EXCEPT ![socket_[d]] = <<"nologin">>]
      BY <1>4, <3>1, <3>2
    <3>3. CASE output' = Broadcast(namedClients_)
      BY <1>3, <3>1, <3>3
    <3> QED
      BY <2>4, <3>2, <3>3 DEF ReadText
  <2>5. ASSUME NEW d \in Clients, ReadLogin(d) PROVE Trusted(s)'
    BY <2>2, <2>5 DEF ReadLogin, Serving
  <2>6. ASSUME NEW d \in Clients, ReadLoginAgain(d) PROVE Trusted(s)'
    BY <2>2, <2>3, <2>6 DEF ReadLoginAgain
  <2>7. ASSUME NEW d \in Clients,
               ReadKeepalive(d) \/ ReadLogout(d) \/ ReadOtherName(d) \/ ServiceEnds(d)
        PROVE  Trusted(s)'
    BY <1>1, <1>2, <2>7 DEF ReadKeepalive, ReadLogout, ReadOtherName, ServiceEnds
  <2> QED
    BY <1>6, <2>4, <2>5, <2>6, <2>7 DEF Service
<1>7. ASSUME NEW old \in SUBSET (clients_ \ heard), NEW quiet \in SUBSET (clients_ \ old),
             Sweep(old, quiet)
      PROVE  Trusted(s)'
  <2>1. output'[s] \in {<<"keepalive">>, <<>>}
    BY <1>7 DEF Sweep
  <2> QED
    BY <2>1
<1>8. CASE BroadcastLeft
  <2>1. CASE left = 0
    BY <1>1, <1>2, <1>8, <2>1 DEF BroadcastLeft
  <2>2. CASE left # 0
    <3>1. UNCHANGED <<socket_, namedClients_>>
      BY <1>8 DEF BroadcastLeft, object
    <3>2. DOMAIN output'[s] = 1 .. left * Len(Lines(namedClients_, s))
      BY <1>8, <2>2 DEF BroadcastLeft
    <3>3. ASSUME NEW i \in DOMAIN output'[s] PROVE Known(s)'
      <4>1. Lines(namedClients_, s) \in Seq(Replies) /\ Len(Lines(namedClients_, s)) \in Nat
        BY LinesTyped DEF Good, FiniteTable
      <4>2. Len(Lines(namedClients_, s)) # 0
        BY <3>2, <3>3, <4>1 DEF Good, TypeOK, PollTyped
      <4>3. 1 \in DOMAIN Lines(namedClients_', s)
        BY <3>1, <4>1, <4>2
      <4> QED
        BY <3>1, <4>3, LinesToKnown
    <3> QED
      BY <3>3
  <2> QED
    BY <2>1, <2>2
<1>9. CASE \/ \E r \in SUBSET clients_ : Poll(r)
           \/ \E c \in Clients : Serve(c) \/ Kill(c)
           \/ \E r \in Sockets : Newcomer(r)
           \/ \E late \in BOOLEAN : PollEnds(late)
  BY <1>1, <1>2, <1>9 DEF Poll, Serve, Kill, Newcomer, PollEnds
<1> QED
  BY <1>6, <1>7, <1>8, <1>9 DEF Host

-----------------------------------------------------------------------------
(* What is under way.                                                      *)

SessionTyped ==
  /\ user \in [Users -> {"out", "in", "gone"}]
  /\ loggedIn_ \in [Users -> BOOLEAN]
  /\ air \in {Nothing} \cup Datagrams /\ admitted \subseteq Users

\* What is on the way to a user who is there tells the truth.
AirTruthful ==
  \A u \in Users, reply \in {"text", "accepted"} :
    user[u] = "in" /\ air = [u |-> u, down |-> reply] => u \in admitted

\* Those that are not there are neither logged in nor admitted.
Absent == \A u \in Users : user[u] # "in" => ~loggedIn_[u] /\ u \notin admitted

SessionGood ==
  /\ Good /\ SessionTyped
  /\ InboxOfUsers /\ AirOfUsers /\ Named /\ Listed
  /\ AirTruthful /\ Absent /\ LoggedInTruly

LEMMA SaysMessages == ASSUME NEW u \in Users PROVE Says(u) \subseteq Messages
  BY SessionAssumption DEF Says, Of, LoginOf, Messages, AllNames

LEMMA NextInboxOfUsers ==
  ASSUME Good, InboxOfUsers, AirOfUsers, [SessionNext]_allVars
  PROVE  InboxOfUsers'
<1> USE ChatAssumption DEF InboxOfUsers, Users
<1>0. /\ inbox \in [Sockets -> Seq(Messages)]
      /\ \A c \in Live : socket_[c] \in Sockets
  BY DEF Good, TypeOK, NetworkTyped, SocketOwned
<1>1. UNCHANGED inbox => InboxOfUsers'
  OBVIOUS
<1>2. ASSUME NEW s \in Sockets, Dispose(s)
      PROVE  InboxOfUsers'
  BY <1>0, <1>2 DEF Dispose
<1>3. ASSUME NEW s \in Sockets, inbox[s] # <<>>, inbox' = [inbox EXCEPT ![s] = Tail(@)]
      PROVE  InboxOfUsers'
  <2>1. \A i \in DOMAIN Tail(inbox[s]) : Tail(inbox[s])[i] \in Says(s)
    <3>1. /\ DOMAIN Tail(inbox[s]) = 1 .. Len(inbox[s]) - 1
          /\ \A i \in 1 .. Len(inbox[s]) - 1 : Tail(inbox[s])[i] = inbox[s][i + 1]
          /\ DOMAIN inbox[s] = 1 .. Len(inbox[s]) /\ Len(inbox[s]) \in Nat
      BY <1>0, <1>3
    <3>2. \A i \in 1 .. Len(inbox[s]) - 1 : i + 1 \in DOMAIN inbox[s]
      BY <3>1
    <3> QED
      BY <3>1, <3>2
  <2> QED
    BY <1>0, <1>3, <2>1
<1>4. ASSUME NEW u \in Users, Arrives(u)
      PROVE  InboxOfUsers'
  <2>1. PICK m \in Messages : air = [u |-> u, up |-> m] /\ Arrive(u, m)
    BY <1>4 DEF Arrives
  <2>2. m \in Says(u) /\ inbox' = [inbox EXCEPT ![u] = Append(@, m)]
    BY <2>1 DEF AirOfUsers, Arrive
  <2>3. \A i \in DOMAIN Append(inbox[u], m) : Append(inbox[u], m)[i] \in Says(u)
    <3>1. /\ DOMAIN Append(inbox[u], m) = 1 .. Len(inbox[u]) + 1
          /\ DOMAIN inbox[u] = 1 .. Len(inbox[u]) /\ Len(inbox[u]) \in Nat
          /\ \A i \in 1 .. Len(inbox[u]) + 1 :
               Append(inbox[u], m)[i] = IF i <= Len(inbox[u]) THEN inbox[u][i] ELSE m
      BY <1>0
    <3> QED
      BY <2>2, <3>1
  <2> QED
    BY <1>0, <2>2, <2>3
<1>5. CASE Host
  <2>1. ASSUME NEW c \in Clients, InService(c), inbox[socket_[c]] # <<>>, Take(c)
        PROVE  InboxOfUsers'
    <3>1. socket_[c] \in Sockets
      BY <1>0, <2>1 DEF InService, Live
    <3> QED
      BY <1>3, <2>1, <3>1 DEF Take
  <2>2. ASSUME NEW c \in Clients, ReadLogout(c)
        PROVE  InboxOfUsers'
    <3>1. CASE pc = "poll"
      BY <2>1, <2>2, <3>1 DEF ReadLogout, Received, TakesAndFails
    <3>2. CASE pc = "accept"
      BY <1>0, <1>2, <2>2, <3>2 DEF ReadLogout, Delete, InService, Live
    <3> QED
      BY <2>2, <3>1, <3>2 DEF ReadLogout
  <2>3. ASSUME NEW c \in Clients,
               ReadKeepalive(c) \/ ReadText(c) \/ ReadLogin(c)
                 \/ ReadLoginAgain(c) \/ ReadOtherName(c)
        PROVE  InboxOfUsers'
    BY <2>1, <2>3 DEF ReadKeepalive, ReadText, ReadLogin, ReadLoginAgain, ReadOtherName,
       Serving, Received, TakesAndGoesOn, TakesAndFails
  <2>4. ASSUME NEW c \in Clients, ServiceEnds(c) \/ Serve(c)
        PROVE  InboxOfUsers'
    BY <1>1, <2>4 DEF ServiceEnds, Serve, network
  <2>5. ASSUME NEW c \in Clients, Kill(c)
        PROVE  InboxOfUsers'
    <3>1. c \in Live
      BY <2>5 DEF Kill, Good, ServesItsClients, Live
    <3> QED
      BY <1>0, <1>1, <1>2, <2>5, <3>1 DEF Kill, network, Delete
  <2>6. ASSUME NEW s \in Sockets, Newcomer(s)
        PROVE  InboxOfUsers'
    BY <1>1, <1>2, <2>6 DEF Newcomer
  <2>7. ASSUME \/ \E r \in SUBSET clients_ : Poll(r)
               \/ \E old \in SUBSET (clients_ \ heard) :
                    \E quiet \in SUBSET (clients_ \ old) : Sweep(old, quiet)
               \/ BroadcastLeft
               \/ \E late \in BOOLEAN : PollEnds(late)
        PROVE  InboxOfUsers'
    BY <1>1, <2>7 DEF Poll, Sweep, BroadcastLeft, PollEnds, network
  <2> QED
    BY <1>5, <2>2, <2>3, <2>4, <2>5, <2>6, <2>7 DEF Host, Service
<1>6. ASSUME NEW u \in Users, UserStep(u) \/ ArrivesFirst(u) \/ TimesOut(u)
      PROVE  InboxOfUsers'
  BY <1>1, <1>6 DEF UserStep, Open, Retry, SendKeepalive, Say, Leave, UserTurn, Read,
     ArrivesFirst, TimesOut, Connect, Close, vars, network
<1>7. CASE UNCHANGED allVars
  BY <1>1, <1>7 DEF allVars, vars, network
<1> QED
  BY <1>4, <1>5, <1>6, <1>7 DEF SessionNext, HostStep

\* What is on the way after a step: the same, nothing, what a user says, or
\* what the host just said.
LEMMA StepOnAir ==
  ASSUME SessionGood, [SessionNext]_allVars
  PROVE  \/ air' = air
         \/ air' = Nothing
         \/ \E u \in Users : \E m \in Says(u) : air' = [u |-> u, up |-> m]
         \/ /\ HostStep
            /\ \E u \in Users, reply \in Replies :
                 /\ air' = [u |-> u, down |-> reply]
                 /\ \E i \in DOMAIN output'[u] : output'[u][i] = reply
<1>1. ASSUME NEW u \in Users, UserStep(u)
      PROVE  \/ air' = air \/ air' = Nothing
             \/ \E m \in Says(u) : air' = [u |-> u, up |-> m]
  BY <1>1 DEF UserStep, Open, Retry, SendKeepalive, Say, Leave, Read, Send, Says
<1>2. ASSUME NEW u \in Users, ArrivesFirst(u) \/ Arrives(u) \/ TimesOut(u)
      PROVE  air' = air \/ air' = Nothing
  BY <1>2 DEF ArrivesFirst, Arrives, TimesOut, session
<1>3. ASSUME HostStep
      PROVE  \/ air' = air
             \/ \E u \in Users, reply \in Replies :
                  /\ air' = [u |-> u, down |-> reply]
                  /\ \E i \in DOMAIN output'[u] : output'[u][i] = reply
  <2> DEFINE sent == {[u |-> u, down |-> reply] : u \in Users, reply \in Replies}
             now == {d \in sent : \E i \in DOMAIN output'[d.u] : output'[d.u][i] = d.down}
  <2>1. air' \in IF now = {} THEN {air} ELSE now
    BY <1>3 DEF HostStep
  <2>2. CASE air' \in now
    <3>1. PICK u \in Users, reply \in Replies : air' = [u |-> u, down |-> reply]
      BY <2>2
    <3>2. \E i \in DOMAIN output'[u] : output'[u][i] = reply
      BY <2>2, <3>1
    <3> QED
      BY <3>1, <3>2
  <2> QED
    BY <2>1, <2>2
<1>4. UNCHANGED allVars => air' = air
  BY DEF allVars, session
<1> QED
  BY <1>1, <1>2, <1>3, <1>4 DEF SessionNext

LEMMA SessionGoodInit == ASSUME SessionInit PROVE SessionGood
<1> USE SessionAssumption DEF SessionInit
<1>1. Good
  BY GoodInit
<1>2. SessionTyped
  BY DEF SessionTyped
<1>3. InboxOfUsers /\ AirOfUsers
  BY DEF InboxOfUsers, Init, Silence, Users, AirOfUsers, Datagrams
<1>4. Named /\ Listed
  BY DEF Named, Listed, Init, Live
<1>5. AirTruthful
  BY DEF AirTruthful, Datagrams, Replies
<1>6. Absent /\ LoggedInTruly
  BY DEF Absent, LoggedInTruly
<1> QED
  BY <1>1, <1>2, <1>3, <1>4, <1>5, <1>6 DEF SessionGood

LEMMA SessionGoodNext ==
  ASSUME SessionGood, [SessionNext]_allVars
  PROVE  SessionGood'
<1> USE SessionAssumption
<1>1. [Next]_vars
  BY SessionStepIsHostStep
<1>2. Good' /\ Named' /\ Listed'
  BY <1>1, GoodNext, StepOnUsers, NextNamedListed DEF SessionGood
<1>3. InboxOfUsers'
  BY NextInboxOfUsers DEF SessionGood
<1>4. AirOfUsers' /\ air' \in {Nothing} \cup Datagrams
  <2>1. air \in {Nothing} \cup Datagrams /\ AirOfUsers
    BY DEF SessionGood, SessionTyped
  <2>2. CASE air' = Nothing
    BY <2>2 DEF AirOfUsers, Datagrams
  <2>3. ASSUME NEW u \in Users, NEW m \in Says(u), air' = [u |-> u, up |-> m]
        PROVE  AirOfUsers' /\ air' \in Datagrams
    <3>1. air'.u = u /\ air'.up = m /\ m \in Messages
      BY <2>3, SaysMessages
    <3>2. \A v \in Users, k \in Messages : air' = [u |-> v, up |-> k] => v = u /\ k = m
      BY <3>1
    <3> QED
      BY <2>3, <3>1, <3>2 DEF AirOfUsers, Datagrams
  <2>4. ASSUME NEW u \in Users, NEW reply \in Replies, air' = [u |-> u, down |-> reply]
        PROVE  AirOfUsers' /\ air' \in Datagrams
    <3>1. \A v \in Users, k \in Messages : air' # [u |-> v, up |-> k]
      BY <2>4
    <3> QED
      BY <2>4, <3>1 DEF AirOfUsers, Datagrams
  <2> QED
    BY <2>1, <2>2, <2>3, <2>4, StepOnAir DEF AirOfUsers
<1>5. /\ user' \in [Users -> {"out", "in", "gone"}]
      /\ loggedIn_' \in [Users -> BOOLEAN] /\ admitted' \subseteq Users
      /\ Absent' /\ LoggedInTruly'
  <2> DEFINE Rightly == /\ user' \in [Users -> {"out", "in", "gone"}]
                        /\ loggedIn_' \in [Users -> BOOLEAN] /\ admitted' \subseteq Users
                        /\ Absent' /\ LoggedInTruly'
  <2> USE DEF SessionGood, SessionTyped, Absent, LoggedInTruly
  <2>1. UNCHANGED <<user, loggedIn_, admitted>> => Rightly
    OBVIOUS
  <2>2. ASSUME NEW u \in Users, Open(u) PROVE Rightly
    BY <2>2 DEF Open, UserTurn
  <2>3. ASSUME NEW u \in Users, Read(u) PROVE Rightly
    <3>1. PICK reply \in Replies :
            /\ air = [u |-> u, down |-> reply]
            /\ loggedIn_' = [loggedIn_ EXCEPT ![u] = @ \/ LoggedInBy(reply)]
      BY <2>3 DEF Read
    <3>2. LoggedInBy(reply) => u \in admitted
      BY <2>3, <3>1 DEF LoggedInBy, AirTruthful, Read
    <3> QED
      BY <2>3, <3>1, <3>2 DEF Read, LoggedInBy
  <2>4. ASSUME NEW u \in Users, Leave(u) PROVE Rightly
    BY <2>4 DEF Leave, UserTurn
  <2>5. HostStep => Rightly
    BY DEF HostStep
  <2>6. ASSUME NEW u \in Users,
               \/ Retry(u) \/ SendKeepalive(u) \/ Say(u)
               \/ ArrivesFirst(u) \/ Arrives(u) \/ TimesOut(u)
        PROVE  Rightly
    BY <2>1, <2>6 DEF Retry, SendKeepalive, Say, ArrivesFirst, Arrives, TimesOut, session
  <2>7. UNCHANGED allVars => Rightly
    BY <2>1 DEF allVars, session
  <2> QED
    BY <2>2, <2>3, <2>4, <2>5, <2>6, <2>7 DEF SessionNext, UserStep
<1>6. AirTruthful'
  <2> SUFFICES ASSUME NEW u \in Users, NEW reply \in {"text", "accepted"},
                      user'[u] = "in", air' = [u |-> u, down |-> reply]
               PROVE  u \in admitted'
    BY DEF AirTruthful
  <2>1. CASE air' = air
    <3>1. AirTruthful /\ user \in [Users -> {"out", "in", "gone"}]
      BY DEF SessionGood, SessionTyped
    <3>2. ASSUME NEW v \in Users, Open(v) PROVE FALSE
      BY <2>1, <3>2 DEF Open, Send
    <3>3. ASSUME NEW v \in Users, Leave(v) PROVE user[u] = "in" /\ v # u
      BY <3>1, <3>3 DEF Leave, UserTurn
    <3>4. CASE UNCHANGED user /\ admitted \subseteq admitted'
      BY <2>1, <3>1, <3>4 DEF AirTruthful
    <3>5. CASE \E v \in Users : Leave(v)
      BY <2>1, <3>1, <3>3, <3>5 DEF AirTruthful, Leave
    <3> QED
      BY <3>2, <3>4, <3>5 DEF SessionNext, UserStep, Retry, SendKeepalive, Say, Read,
         ArrivesFirst, Arrives, TimesOut, HostStep, session, allVars
  <2>2. CASE HostStep /\ \E i \in DOMAIN output'[u] : output'[u][i] = reply
    <3>1. Known(u)'
      BY <1>2, <2>2, SpeaksToKnown DEF HostStep, SessionGood, Trusted, Users
    <3>2. user[u] = "in"
      BY <2>2 DEF HostStep
    <3> QED
      BY <2>2, <3>1, <3>2 DEF HostStep
  <2>3. air' # Nothing
    BY DEF Datagrams, Replies
  <2>4. \A v \in Users : \A m \in Says(v) : air' # [u |-> v, up |-> m]
    OBVIOUS
  <2>5. \A v \in Users, other \in Replies :
          air' = [u |-> v, down |-> other] => v = u /\ other = reply
    OBVIOUS
  <2> QED
    BY <2>1, <2>2, <2>3, <2>4, <2>5, StepOnAir
<1> QED
  BY <1>2, <1>3, <1>4, <1>5, <1>6 DEF SessionGood, SessionTyped

LEMMA AlwaysSessionGood == SessionSpec => []SessionGood
<1>1. SessionInit => SessionGood
  BY SessionGoodInit
<1>2. SessionGood /\ [SessionNext]_allVars => SessionGood'
  BY SessionGoodNext
<1> QED
  BY <1>1, <1>2, PTL DEF SessionSpec

\* Among users the table of names is the list of clients: every entry belongs
\* to a client that is there and shows that name (namedClients_).
THEOREM TableAgreesHolds == SessionSpec => []TableAgrees
<1>1. SessionGood => TableAgrees
  BY DEF SessionGood, SessionTyped, Listed, TableAgrees
<1> QED
  BY <1>1, AlwaysSessionGood, PTL

\* A user who believes to be logged in has been let in, whatever was lost,
\* overtaken or delayed (chatclient.cpp 157-158).
THEOREM LoggedInTrulyHolds == SessionSpec => []LoggedInTruly
<1>1. SessionGood => LoggedInTruly
  BY DEF SessionGood
<1> QED
  BY <1>1, AlwaysSessionGood, PTL
=============================================================================

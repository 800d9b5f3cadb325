------------------------ MODULE SocketManagerProofs ------------------------
(***************************************************************************)
(* Proofs about SocketManager for any finite number of sockets, any        *)
(* addresses and any bounds on buffers and rounds.                         *)
(*                                                                         *)
(* Registered depends on ReportsLive: a callback may dispose its socket,   *)
(* and only because no socket that waits for accept() is ever put into     *)
(* notify_ is that socket looked for in the right place.  ReportsLive      *)
(* depends on Registered, because poll() reports what it finds in sockets_ *)
(* and in the map of addresses.  The two are inductive together.           *)
(***************************************************************************)
EXTENDS SocketManager, TLAPS, SequenceTheorems, FiniteSetTheorems

OpenSockets == {s \in Sockets : life[s] = "open"}
FreeSockets == {s \in Sockets : life[s] = "free"}

\* A socket has an address from the moment it is allocated, and only then can
\* the application have it.
Addressed ==
  \A s \in Sockets : IF life[s] = "free" THEN ~taken[s] ELSE addr_[s] \in Addrs

Inv == TypeOK /\ Registered /\ ReportsLive /\ Addressed

-----------------------------------------------------------------------------
(* What a step does to the registry. *)

KeepsRegistry ==
  UNCHANGED <<OpenSockets, FreeSockets, taken, addr_, registry>>

Opens(s, a, accepted) ==
  /\ life[s] = "free" /\ life' = [life EXCEPT ![s] = "open"]
  /\ addr_' = [addr_ EXCEPT ![s] = a]
  /\ taken' = [taken EXCEPT ![s] = accepted]
  /\ IF accepted THEN sockets_' = sockets_ \cup {s} /\ UNCHANGED accepted_
                 ELSE accepted_' = Append(accepted_, s) /\ UNCHANGED sockets_
  /\ IF reliable THEN UNCHANGED socketAddrs_
                 ELSE socketAddrs_' = [socketAddrs_ EXCEPT ![a] = s]
  /\ ~reliable /\ socketAddrs_[a] # NULL => a \in twice'

Loses(gone) ==
  /\ gone \subseteq sockets_
  /\ OpenSockets' = OpenSockets \ gone
  /\ UNCHANGED <<FreeSockets, taken, addr_>>
  /\ RemoveSockets(gone)

ChangesRegistry ==
  \/ KeepsRegistry
  \/ \E n \in 1 .. Cardinality(Sockets) : Accept(n)
  \/ \E s \in Sockets, a \in Addrs, accepted \in BOOLEAN : Opens(s, a, accepted)
  \/ \E gone \in SUBSET Sockets : Loses(gone)

LEMMA CloseLoses ==
  ASSUME ObjectsTyped, Registered, NEW gone \in SUBSET sockets_, Close(gone),
         UNCHANGED <<taken, addr_>>
  PROVE  Loses(gone)
  BY DEF Close, Loses, OpenSockets, FreeSockets, ObjectsTyped, Registered

LEMMA DeleteLoses ==
  ASSUME ObjectsTyped, Registered, Addressed, NEW s \in Sockets, Held(s), Delete(s),
         UNCHANGED <<taken, addr_>>
  PROVE  Loses({s}) \/ KeepsRegistry
<1>1. CASE life[s] = "open"
  BY <1>1 DEF Delete, Loses, OpenSockets, FreeSockets, ObjectsTyped, Registered, Held
<1>2. CASE life[s] = "free"
  BY <1>2 DEF Addressed, Held
<1>3. CASE life[s] = "closed"
  BY <1>3 DEF Delete, KeepsRegistry, OpenSockets, FreeSockets, ObjectsTyped
<1> QED
  BY <1>1, <1>3, <1>2 DEF Held, ObjectsTyped

\* A step leaves the registry alone, moves sockets to the application, adds one,
\* or drops some of the sockets the application holds.
LEMMA StepOnRegistry ==
  ASSUME ObjectsTyped, Registered, Addressed, ReportsLive, [Next]_vars
  PROVE  ChangesRegistry
<1>1. ASSUME NEW n \in 1 .. Cardinality(Sockets), Accept(n)
      PROVE  ChangesRegistry
  BY <1>1 DEF ChangesRegistry
<1>2. ASSUME NEW s \in Sockets, NEW a \in Addrs, Connect(s, a)
      PROVE  ChangesRegistry
  BY <1>2 DEF Connect, Allocate, Opens, ChangesRegistry
<1>3. ASSUME NEW s \in Sockets, Dispose(s) PROVE ChangesRegistry
  BY <1>3, DeleteLoses DEF Dispose, ChangesRegistry
<1>4. ASSUME NEW s \in Sockets, Write(s) PROVE ChangesRegistry
  BY <1>4 DEF Write, KeepsRegistry, OpenSockets, FreeSockets, object,
     registry, ChangesRegistry
<1>5. ASSUME NEW s \in Sockets, SetEtworkSocketNotify(s) PROVE ChangesRegistry
  BY <1>5 DEF SetEtworkSocketNotify, KeepsRegistry, OpenSockets, FreeSockets,
     object, registry, ChangesRegistry
<1>6. ASSUME NEW max \in MaxActives, NEW late \in SUBSET sockets_, NEW quiet
       \in SUBSET (sockets_ \ late), Poll(max, late, quiet) PROVE
       ChangesRegistry
  BY <1>6, CloseLoses DEF Poll, ChangesRegistry, Registered
<1>7. CASE Select
  BY <1>7 DEF Select, KeepsRegistry, OpenSockets, FreeSockets, object,
     registry, ChangesRegistry
<1>8. CASE ListeningRead
  BY <1>8 DEF ListeningRead, KeepsRegistry, OpenSockets, FreeSockets, object,
     registry, ChangesRegistry
<1>9. ASSUME NEW s \in Sockets, NEW a \in Addrs, AcceptConnection(s, a)
      PROVE  ChangesRegistry
  BY <1>9 DEF AcceptConnection, Allocate, Opens, ChangesRegistry
<1>10. ASSUME NEW s \in Sockets, NEW a \in Addrs, RecvFromStranger(s, a)
       PROVE  ChangesRegistry
  BY <1>10 DEF RecvFromStranger, Allocate, Opens, ChangesRegistry
<1>11. ASSUME NEW a \in Addrs, RecvFromPeer(a) PROVE ChangesRegistry
  BY <1>11 DEF RecvFromPeer, KeepsRegistry, OpenSockets, FreeSockets, object,
     registry, ChangesRegistry
<1>12. ASSUME NEW s \in Sockets, ReadsNothing(s) PROVE ChangesRegistry
  BY <1>12 DEF ReadsNothing, ReadHandled, KeepsRegistry, OpenSockets,
     FreeSockets, object, registry, ChangesRegistry
<1>13. ASSUME NEW s \in Sockets, NEW some \in BOOLEAN, ReadsData(s, some)
       PROVE  ChangesRegistry
  BY <1>13 DEF ReadsData, ReadHandled, KeepsRegistry, OpenSockets,
     FreeSockets, object, registry, ChangesRegistry
<1>14. ASSUME NEW s \in Sockets, NEW error \in BOOLEAN, ReadsEnd(s, error)
       PROVE  ChangesRegistry
  BY <1>14, CloseLoses DEF ReadsEnd, ReadHandled, ChangesRegistry
<1>15. CASE ReadLoopEnds
  BY <1>15 DEF ReadLoopEnds, KeepsRegistry, OpenSockets, FreeSockets, object,
     registry, ChangesRegistry
<1>16. ASSUME NEW s \in Sockets, WritesNothing(s) PROVE ChangesRegistry
  BY <1>16 DEF WritesNothing, KeepsRegistry, OpenSockets, FreeSockets, object,
     registry, ChangesRegistry
<1>17. ASSUME NEW s \in Sockets, NEW taking \in 0 .. MaxOut,
              NEW leaves \in BOOLEAN, WriteSocket(s, taking, leaves)
       PROVE  ChangesRegistry
  BY <1>17 DEF WriteSocket, KeepsRegistry, OpenSockets, FreeSockets, object,
     registry, ChangesRegistry
<1>18. ASSUME NEW s \in Sockets, WriteFails(s) PROVE ChangesRegistry
  BY <1>18, CloseLoses DEF WriteFails, ChangesRegistry
<1>19. ASSUME NEW s \in Sockets, ServeSocket(s) PROVE ChangesRegistry
  BY <1>19 DEF ServeSocket, KeepsRegistry, OpenSockets, FreeSockets, object,
     registry, ChangesRegistry
<1>20. ASSUME NEW s \in Sockets, NEW sent \in 0 .. MaxOut - 1,
              NEW blocked \in BOOLEAN, ServeFails(s, sent, blocked)
       PROVE  ChangesRegistry
  BY <1>20 DEF ServeFails, KeepsRegistry, OpenSockets, FreeSockets, object,
     registry, ChangesRegistry
<1>21. CASE ListeningWritten
  BY <1>21 DEF ListeningWritten, KeepsRegistry, OpenSockets, FreeSockets,
     object, registry, ChangesRegistry
<1>22. CASE WriteLoopEnds
  BY <1>22 DEF WriteLoopEnds, KeepsRegistry, OpenSockets, FreeSockets, object,
     registry, ChangesRegistry
<1>23. ASSUME NEW s \in Sockets, ExceptNoError(s) PROVE ChangesRegistry
  BY <1>23 DEF ExceptNoError, KeepsRegistry, OpenSockets, FreeSockets, object,
     registry, ChangesRegistry
<1>24. ASSUME NEW s \in Sockets, ExceptError(s) PROVE ChangesRegistry
  BY <1>24, CloseLoses DEF ExceptError, ChangesRegistry
<1>25. CASE ListeningExcept
  BY <1>25 DEF ListeningExcept, KeepsRegistry, OpenSockets, FreeSockets,
     object, registry, ChangesRegistry
<1>26. CASE RoundEnds
  BY <1>26 DEF RoundEnds, KeepsRegistry, OpenSockets, FreeSockets, object,
     registry, ChangesRegistry
<1>27. ASSUME NEW s \in Sockets, NEW disposes \in BOOLEAN,
              Callback(s, disposes)
       PROVE  ChangesRegistry
  <2>1. Held(s)
    BY <1>27 DEF Callback, ReportsLive
  <2>2. CASE notify[s] /\ disposes
    BY <1>27, <2>1, <2>2, DeleteLoses DEF Callback, ChangesRegistry
  <2>3. CASE ~(notify[s] /\ disposes)
    BY <1>27, <2>3 DEF Callback, KeepsRegistry, OpenSockets, FreeSockets,
     ChangesRegistry
  <2> QED
    BY <2>2, <2>3
<1>28. CASE PollReturns
  BY <1>28 DEF PollReturns, KeepsRegistry, OpenSockets, FreeSockets, object,
     registry, ChangesRegistry
<1>29. CASE UNCHANGED vars
  BY <1>29 DEF vars, KeepsRegistry, OpenSockets, FreeSockets, object,
     registry, ChangesRegistry
<1> QED
  BY <1>1, <1>2, <1>3, <1>4, <1>5, <1>6, <1>7, <1>8, <1>9, <1>10, <1>11,
     <1>12, <1>13, <1>14, <1>15, <1>16, <1>17, <1>18, <1>19, <1>20, <1>21,
     <1>22, <1>23, <1>24, <1>25, <1>26, <1>27, <1>28, <1>29 DEF Next,
     Application, Reading, Writing, Excepting

-----------------------------------------------------------------------------
(* Registered is kept. *)

\* The sockets accept() leaves, and those it takes, partition accepted_.
LEMMA AcceptRegistered ==
  ASSUME TypeOK, Registered, Addressed, NEW n \in Nat \ {0}, Accept(n)
  PROVE  Registered' /\ RegistryTyped' /\ Addressed'
<1> DEFINE len == Len(accepted_)
           k == IF n < len THEN n ELSE len
           new == {accepted_[i] : i \in 1 .. k}
<1>1. /\ len \in Nat /\ k \in 0 .. len
      /\ \A i \in 1 .. len : accepted_[i] \in Sockets
  BY LenProperties, ElementOfSeq DEF TypeOK, RegistryTyped
<1>2. /\ accepted_' = SubSeq(accepted_, k + 1, len)
      /\ sockets_' = sockets_ \cup new
      /\ taken' = [s \in Sockets |-> taken[s] \/ s \in new]
      /\ UNCHANGED <<life, addr_, socketAddrs_>>
  BY DEF Accept
<1> HIDE DEF len, k, new
<1>3. /\ accepted_' \in Seq(Sockets) /\ Len(accepted_') = len - k
      /\ \A i \in 1 .. len - k : accepted_'[i] = accepted_[i + k]
  <2>1. \A i \in k + 1 .. len : accepted_[i] \in Sockets
    BY <1>1
  <2>2. /\ SubSeq(accepted_, k + 1, len) \in Seq(Sockets)
        /\ Len(SubSeq(accepted_, k + 1, len))
             = IF k + 1 <= len THEN len - (k + 1) + 1 ELSE 0
        /\ \A i \in 1 .. len - (k + 1) + 1 :
             SubSeq(accepted_, k + 1, len)[i] = accepted_[k + 1 + i - 1]
    BY <1>1, <2>1, SubSeqProperties
  <2> QED
    BY <1>1, <1>2, <2>2
<1>4. new \subseteq Sockets
  BY <1>1 DEF new
<1>5. {accepted_'[i] : i \in 1 .. Len(accepted_')}
        = {accepted_[i] : i \in 1 .. len} \ new
  <2>1. ASSUME NEW i \in 1 .. len - k
        PROVE  accepted_'[i] \in {accepted_[j] : j \in 1 .. len} \ new
    <3>1. i + k \in 1 .. len /\ \A j \in 1 .. k : i + k # j /\ j \in 1 .. len
      BY <1>1
    <3> QED
      BY <1>1, <1>3, <3>1 DEF new, Registered, len
  <2>2. ASSUME NEW j \in 1 .. len, accepted_[j] \notin new
        PROVE  \E i \in 1 .. len - k : accepted_'[i] = accepted_[j]
    <3>1. j \notin 1 .. k
      BY <2>2 DEF new
    <3>2. j - k \in 1 .. len - k /\ (j - k) + k = j
      BY <1>1, <3>1
    <3> QED
      BY <1>3, <3>2
  <2> QED
    BY <1>1, <1>3, <2>1, <2>2
<1>6. new \subseteq {accepted_[i] : i \in 1 .. len}
  BY <1>1 DEF new
<1>7. new \subseteq {s \in Sockets : life[s] = "open" /\ ~taken[s]}
  BY <1>6 DEF Registered, len
<1>8. sockets_' = {s \in Sockets : life'[s] = "open" /\ taken'[s]}
  BY <1>2, <1>4, <1>7 DEF Registered
<1>9. {accepted_'[i] : i \in 1 .. Len(accepted_')} =
        {s \in Sockets : life'[s] = "open" /\ ~taken'[s]}
  BY <1>2, <1>5 DEF Registered, len
<1>10. \A i, j \in 1 .. Len(accepted_') :
         accepted_'[i] = accepted_'[j] => i = j
  <2> SUFFICES ASSUME NEW i \in 1 .. len - k, NEW j \in 1 .. len - k,
                      accepted_[i + k] = accepted_[j + k]
               PROVE  i = j
    BY <1>3
  <2>1. i + k \in 1 .. len /\ j + k \in 1 .. len
    BY <1>1
  <2>2. i + k = j + k
    BY <2>1 DEF Registered, len
  <2> QED
    BY <1>1, <2>2
<1>11. Addressed'
  BY <1>2, <1>7 DEF Addressed
<1> QED
  BY <1>2, <1>3, <1>4, <1>8, <1>9, <1>10, <1>11
  DEF Registered, TypeOK, RegistryTyped

LEMMA OpensRegistered ==
  ASSUME TypeOK, Registered, NEW s \in Sockets, NEW a \in Addrs,
         NEW accepted \in BOOLEAN, Opens(s, a, accepted)
  PROVE  Registered' /\ RegistryTyped'
<1>1. /\ \A t \in Sockets : life'[t] = "open" <=> life[t] = "open" \/ t = s
      /\ \A t \in Sockets : t # s => taken'[t] = taken[t] /\ addr_'[t] = addr_[t]
      /\ taken'[s] = accepted /\ addr_'[s] = a /\ life[s] # "open"
  BY DEF Opens, TypeOK, ObjectsTyped
<1>2. /\ sockets_' = {t \in Sockets : life'[t] = "open" /\ taken'[t]}
      /\ sockets_' \subseteq Sockets
  BY <1>1 DEF Opens, Registered
<1>3. /\ \A b \in Addrs : socketAddrs_'[b] # NULL =>
           /\ life'[socketAddrs_'[b]] = "open"
           /\ addr_'[socketAddrs_'[b]] = b
      /\ socketAddrs_' \in [Addrs -> Sockets \cup {NULL}]
  BY <1>1 DEF Opens, Registered, TypeOK, RegistryTyped
<1>4. /\ {accepted_'[i] : i \in 1 .. Len(accepted_')} =
           {t \in Sockets : life'[t] = "open" /\ ~taken'[t]}
      /\ \A i, j \in 1 .. Len(accepted_') : accepted_'[i] = accepted_'[j] => i = j
      /\ accepted_' \in Seq(Sockets)
  <2>1. CASE accepted
    <3>1. UNCHANGED accepted_ /\ accepted_ \in Seq(Sockets)
      BY <2>1 DEF Opens, TypeOK, RegistryTyped
    <3>2. {t \in Sockets : life'[t] = "open" /\ ~taken'[t]}
            = {t \in Sockets : life[t] = "open" /\ ~taken[t]}
      BY <1>1, <2>1
    <3> QED
      BY <3>1, <3>2 DEF Registered
  <2>2. CASE ~accepted
    <3>1. /\ Len(accepted_) \in Nat
          /\ accepted_' \in Seq(Sockets) /\ Len(accepted_') = Len(accepted_) + 1
          /\ \A i \in 1 .. Len(accepted_) : accepted_'[i] = accepted_[i]
          /\ accepted_'[Len(accepted_) + 1] = s
      <4>1. accepted_ \in Seq(Sockets) /\ accepted_' = Append(accepted_, s)
        BY <2>2 DEF Opens, TypeOK, RegistryTyped
      <4> QED
        BY <4>1, AppendProperties, LenProperties
    <3>2. {accepted_'[i] : i \in 1 .. Len(accepted_')}
            = {accepted_[i] : i \in 1 .. Len(accepted_)} \cup {s}
      BY <3>1
    <3>3. s \notin {accepted_[i] : i \in 1 .. Len(accepted_)}
      BY <1>1 DEF Registered
    <3>4. {accepted_'[i] : i \in 1 .. Len(accepted_')} =
             {t \in Sockets : life'[t] = "open" /\ ~taken'[t]}
      <4> DEFINE old == {t \in Sockets : life[t] = "open" /\ ~taken[t]}
                 new == {t \in Sockets : life'[t] = "open" /\ ~taken'[t]}
      <4>1. {accepted_'[i] : i \in 1 .. Len(accepted_')} = old \cup {s}
        BY <3>2 DEF Registered
      <4>2. new = old \cup {s}
        BY <1>1, <2>2
      <4> QED
        BY <4>1, <4>2
    <3>5. ASSUME NEW i \in 1 .. Len(accepted_'), NEW j \in 1 .. Len(accepted_'),
                 accepted_'[i] = accepted_'[j]
          PROVE  i = j
      BY <3>1, <3>3, <3>5 DEF Registered
    <3> QED
      BY <3>1, <3>4, <3>5
  <2> QED
    BY <2>1, <2>2
<1> QED
  BY <1>2, <1>3, <1>4 DEF Registered, RegistryTyped

LEMMA LosesRegistered ==
  ASSUME TypeOK, Registered, NEW gone \in SUBSET Sockets, Loses(gone)
  PROVE  Registered' /\ RegistryTyped'
<1>1. /\ \A s \in Sockets : life'[s] = "open" <=> life[s] = "open" /\ s \notin gone
      /\ UNCHANGED <<taken, addr_, accepted_>>
      /\ sockets_' = sockets_ \ gone
      /\ \A s \in gone : taken[s]
  BY DEF Loses, OpenSockets, RemoveSockets, Registered
<1>2. sockets_' = {s \in Sockets : life'[s] = "open" /\ taken'[s]}
  BY <1>1 DEF Registered
<1>3. {accepted_'[i] : i \in 1 .. Len(accepted_')} =
        {s \in Sockets : life'[s] = "open" /\ ~taken'[s]}
  BY <1>1 DEF Registered
<1>4. \A a \in Addrs : socketAddrs_'[a] # NULL =>
         life'[socketAddrs_'[a]] = "open" /\ addr_'[socketAddrs_'[a]] = a
  BY <1>1 DEF Registered, Loses, RemoveSockets, TypeOK, RegistryTyped
<1>5. RegistryTyped'
  BY <1>1 DEF Loses, RemoveSockets, TypeOK, RegistryTyped
<1> QED
  BY <1>1, <1>2, <1>3, <1>4, <1>5 DEF Registered

LEMMA RegisteredStep ==
  ASSUME Inv, [Next]_vars
  PROVE  Registered' /\ RegistryTyped' /\ Addressed'
<1>1. TypeOK /\ Registered /\ Addressed /\ ChangesRegistry
  BY StepOnRegistry DEF Inv, TypeOK
<1>2. CASE KeepsRegistry
  <2>1. /\ \A s \in Sockets : life'[s] = "open" <=> life[s] = "open"
        /\ \A s \in Sockets : life'[s] = "free" <=> life[s] = "free"
        /\ UNCHANGED <<taken, addr_, sockets_, accepted_, socketAddrs_>>
    BY <1>2 DEF KeepsRegistry, OpenSockets, FreeSockets, registry
  <2> QED
    BY <1>1, <2>1, ManagerAssumption
    DEF Registered, Addressed, TypeOK, RegistryTyped
<1>3. ASSUME NEW n \in 1 .. Cardinality(Sockets), Accept(n)
      PROVE  Registered' /\ RegistryTyped' /\ Addressed'
  <2>1. n \in Nat \ {0}
    BY ManagerAssumption, FS_CardinalityType
  <2> QED
    BY <1>1, <1>3, <2>1, AcceptRegistered
<1>4. ASSUME NEW s \in Sockets, NEW a \in Addrs, NEW accepted \in BOOLEAN,
             Opens(s, a, accepted)
      PROVE  Registered' /\ RegistryTyped' /\ Addressed'
  <2>1. Addressed'
    BY <1>1, <1>4 DEF Addressed, Opens, TypeOK, ObjectsTyped
  <2> QED
    BY <1>1, <1>4, <2>1, OpensRegistered
<1>5. ASSUME NEW gone \in SUBSET Sockets, Loses(gone)
      PROVE  Registered' /\ RegistryTyped' /\ Addressed'
  <2>1. Addressed'
    BY <1>1, <1>5 DEF Addressed, Loses, FreeSockets
  <2> QED
    BY <1>1, <1>5, <2>1, LosesRegistered
<1> QED
  BY <1>1, <1>2, <1>3, <1>4, <1>5 DEF ChangesRegistry

-----------------------------------------------------------------------------
(* Types. *)

\* The fields of the sockets keep their types.
LEMMA ObjectsTypedStep ==
  ASSUME TypeOK, [Next]_vars
  PROVE  ObjectsTyped'
<1>1. ASSUME NEW n \in 1 .. Cardinality(Sockets), Accept(n) PROVE ObjectsTyped'
  BY <1>1 DEF Accept, settings, object, ObjectsTyped, TypeOK
<1>2. ASSUME NEW s \in Sockets, NEW a \in Addrs, Connect(s, a)
      PROVE  ObjectsTyped'
  BY <1>2, ManagerAssumption DEF Connect, Allocate, settings, object,
     ObjectsTyped, TypeOK
<1>3. ASSUME NEW s \in Sockets, Dispose(s) PROVE ObjectsTyped'
  BY <1>3 DEF Dispose, Delete, Held, settings, object, ObjectsTyped, TypeOK
<1>4. ASSUME NEW s \in Sockets, Write(s) PROVE ObjectsTyped'
  BY <1>4, ManagerAssumption DEF Write, settings, object, ObjectsTyped, TypeOK
<1>5. ASSUME NEW s \in Sockets, SetEtworkSocketNotify(s) PROVE ObjectsTyped'
  BY <1>5 DEF SetEtworkSocketNotify, settings, object, ObjectsTyped, TypeOK
<1>6. ASSUME NEW max \in MaxActives, NEW late \in SUBSET sockets_,
             NEW quiet \in SUBSET (sockets_ \ late), Poll(max, late, quiet)
      PROVE  ObjectsTyped'
  BY <1>6, ManagerAssumption DEF Poll, Close, KeptAlive, settings, object,
     ObjectsTyped, TypeOK
<1>7. CASE Select
  BY <1>7 DEF Select, settings, object, ObjectsTyped, TypeOK
<1>8. CASE ListeningRead
  BY <1>8 DEF ListeningRead, settings, object, ObjectsTyped, TypeOK
<1>9. ASSUME NEW s \in Sockets, NEW a \in Addrs, AcceptConnection(s, a)
      PROVE  ObjectsTyped'
  BY <1>9, ManagerAssumption DEF AcceptConnection, Allocate, settings, object,
     ObjectsTyped, TypeOK
<1>10. ASSUME NEW s \in Sockets, NEW a \in Addrs, RecvFromStranger(s, a)
       PROVE  ObjectsTyped'
  BY <1>10, ManagerAssumption DEF RecvFromStranger, Allocate, settings,
     object, ObjectsTyped, TypeOK
<1>11. ASSUME NEW a \in Addrs, RecvFromPeer(a) PROVE ObjectsTyped'
  BY <1>11 DEF RecvFromPeer, settings, object, ObjectsTyped, TypeOK
<1>12. ASSUME NEW s \in Sockets, ReadsNothing(s) PROVE ObjectsTyped'
  BY <1>12 DEF ReadsNothing, ReadHandled, settings, object, ObjectsTyped,
     TypeOK
<1>13. ASSUME NEW s \in Sockets, NEW some \in BOOLEAN, ReadsData(s, some)
       PROVE  ObjectsTyped'
  BY <1>13 DEF ReadsData, ReadHandled, settings, object, ObjectsTyped, TypeOK
<1>14. ASSUME NEW s \in Sockets, NEW error \in BOOLEAN, ReadsEnd(s, error)
       PROVE  ObjectsTyped'
  BY <1>14 DEF ReadsEnd, Close, ReadHandled, settings, object, ObjectsTyped,
     TypeOK
<1>15. CASE ReadLoopEnds
  BY <1>15 DEF ReadLoopEnds, settings, object, ObjectsTyped, TypeOK
<1>16. ASSUME NEW s \in Sockets, WritesNothing(s) PROVE ObjectsTyped'
  BY <1>16 DEF WritesNothing, settings, object, ObjectsTyped, TypeOK
<1>17. ASSUME NEW s \in Sockets, NEW taking \in 0 .. MaxOut,
              NEW leaves \in BOOLEAN, WriteSocket(s, taking, leaves)
       PROVE  ObjectsTyped'
  BY <1>17, ManagerAssumption DEF WriteSocket, settings, object, ObjectsTyped,
     TypeOK
<1>18. ASSUME NEW s \in Sockets, WriteFails(s) PROVE ObjectsTyped'
  <2>1. PICK taking \in IF writebuf_[s] THEN {0} ELSE 1 .. out[s] :
               out' = [out EXCEPT ![s] = @ - taking]
    BY <1>18 DEF WriteFails
  <2>2. taking \in 0 .. out[s] /\ out[s] \in 0 .. MaxOut
    BY <1>18, <2>1 DEF WriteFails, WantsToWrite, TypeOK, ObjectsTyped
  <2>3. out[s] - taking \in 0 .. MaxOut
    BY <2>2, ManagerAssumption
  <2>4. out' \in [Sockets -> 0 .. MaxOut]
    BY <2>1, <2>3 DEF TypeOK, ObjectsTyped
  <2> QED
    BY <1>18, <2>4 DEF WriteFails, Close, settings, object, ObjectsTyped,
     TypeOK
<1>19. ASSUME NEW s \in Sockets, ServeSocket(s) PROVE ObjectsTyped'
  BY <1>19, ManagerAssumption DEF ServeSocket, settings, object, ObjectsTyped,
     TypeOK
<1>20. ASSUME NEW s \in Sockets, NEW sent \in 0 .. MaxOut - 1,
              NEW blocked \in BOOLEAN, ServeFails(s, sent, blocked)
       PROVE  ObjectsTyped'
  BY <1>20, ManagerAssumption DEF ServeFails, settings, object, ObjectsTyped,
     TypeOK
<1>21. CASE ListeningWritten
  BY <1>21 DEF ListeningWritten, settings, object, ObjectsTyped, TypeOK
<1>22. CASE WriteLoopEnds
  BY <1>22 DEF WriteLoopEnds, settings, object, ObjectsTyped, TypeOK
<1>23. ASSUME NEW s \in Sockets, ExceptNoError(s) PROVE ObjectsTyped'
  BY <1>23 DEF ExceptNoError, settings, object, ObjectsTyped, TypeOK
<1>24. ASSUME NEW s \in Sockets, ExceptError(s) PROVE ObjectsTyped'
  BY <1>24 DEF ExceptError, Close, settings, object, ObjectsTyped, TypeOK
<1>25. CASE ListeningExcept
  BY <1>25 DEF ListeningExcept, settings, object, ObjectsTyped, TypeOK
<1>26. CASE RoundEnds
  BY <1>26 DEF RoundEnds, settings, object, ObjectsTyped, TypeOK
<1>27. ASSUME NEW s \in Sockets, NEW disposes \in BOOLEAN,
              Callback(s, disposes)
       PROVE  ObjectsTyped'
  BY <1>27 DEF Callback, Delete, settings, object, ObjectsTyped, TypeOK
<1>28. CASE PollReturns
  BY <1>28 DEF PollReturns, settings, object, ObjectsTyped, TypeOK
<1>29. CASE UNCHANGED vars
  BY <1>29 DEF vars, settings, object, ObjectsTyped, TypeOK
<1> QED
  BY <1>1, <1>2, <1>3, <1>4, <1>5, <1>6, <1>7, <1>8, <1>9, <1>10, <1>11,
     <1>12, <1>13, <1>14, <1>15, <1>16, <1>17, <1>18, <1>19, <1>20, <1>21,
     <1>22, <1>23, <1>24, <1>25, <1>26, <1>27, <1>28, <1>29 DEF Next,
     Application, Reading, Writing, Excepting

\* The variables of a poll keep their types.
LEMMA PollTypedStep ==
  ASSUME TypeOK, [Next]_vars
  PROVE  PollTyped'
<1>1. ASSUME NEW n \in 1 .. Cardinality(Sockets), Accept(n) PROVE PollTyped'
  BY <1>1, ManagerAssumption DEF Accept, loop, PollTyped, TypeOK
<1>2. ASSUME NEW s \in Sockets, NEW a \in Addrs, Connect(s, a) PROVE PollTyped'
  BY <1>2, ManagerAssumption DEF Connect, loop, PollTyped, TypeOK
<1>3. ASSUME NEW s \in Sockets, Dispose(s) PROVE PollTyped'
  BY <1>3, ManagerAssumption DEF Dispose, loop, PollTyped, TypeOK
<1>4. ASSUME NEW s \in Sockets, Write(s) PROVE PollTyped'
  BY <1>4, ManagerAssumption DEF Write, loop, PollTyped, TypeOK
<1>5. ASSUME NEW s \in Sockets, SetEtworkSocketNotify(s) PROVE PollTyped'
  BY <1>5, ManagerAssumption DEF SetEtworkSocketNotify, loop, PollTyped, TypeOK
<1>6. ASSUME NEW max \in MaxActives, NEW late \in SUBSET sockets_,
             NEW quiet \in SUBSET (sockets_ \ late), Poll(max, late, quiet)
      PROVE  PollTyped'
  <2>1. AllSet(sockets_') \subseteq Sockets \cup {Listening}
    BY <1>6 DEF Poll, Close, RemoveSockets, AllSet, TypeOK, RegistryTyped
  <2> QED
    BY <1>6, <2>1, ManagerAssumption DEF Poll, PollTyped, RegistryTyped, TypeOK
<1>7. CASE Select
  <2>1. AllSet(sockets_) \subseteq Sockets \cup {Listening}
    BY DEF AllSet, TypeOK, RegistryTyped
  <2>2. CASE Finish /\ UNCHANGED <<writeTempSet, progress>>
    BY <1>7, <2>2 DEF Select, Finish, PollTyped, TypeOK
  <2>3. CASE ~(Finish /\ UNCHANGED <<writeTempSet, progress>>)
    <3>1. /\ pc' = "read" /\ writeTempSet' = {} /\ progress' = TRUE
          /\ rounds < MaxRounds /\ rounds' = rounds + 1
          /\ ready' \subseteq Sockets \cup {Listening}
          /\ UNCHANGED <<maxActive, writeSet, active_, notify_, due>>
          /\ UNCHANGED <<cut, expired, twice>>
      BY <1>7, <2>1, <2>3 DEF Select
    <3>2. rounds' \in 0 .. MaxRounds
      BY <3>1, ManagerAssumption DEF PollTyped, TypeOK
    <3> QED
      BY <3>1, <3>2 DEF PollTyped, TypeOK
  <2> QED
    BY <2>2, <2>3
<1>8. CASE ListeningRead
  BY <1>8, ManagerAssumption DEF ListeningRead, AfterFd, Finish, PollTyped,
     TypeOK
<1>9. ASSUME NEW s \in Sockets, NEW a \in Addrs, AcceptConnection(s, a)
      PROVE  PollTyped'
  BY <1>9, ManagerAssumption DEF AcceptConnection, AfterFd, Finish, PollTyped,
     TypeOK
<1>10. ASSUME NEW s \in Sockets, NEW a \in Addrs, RecvFromStranger(s, a)
       PROVE  PollTyped'
  BY <1>10, ManagerAssumption DEF RecvFromStranger, loop, PollTyped, TypeOK
<1>11. ASSUME NEW a \in Addrs, RecvFromPeer(a) PROVE PollTyped'
  BY <1>11, ManagerAssumption DEF RecvFromPeer, Insert, loop, ObjectsTyped,
     RegistryTyped, PollTyped, TypeOK
<1>12. ASSUME NEW s \in Sockets, ReadsNothing(s) PROVE PollTyped'
  BY <1>12, ManagerAssumption DEF ReadsNothing, ReadHandled, AfterFd, Finish,
     PollTyped, TypeOK
<1>13. ASSUME NEW s \in Sockets, NEW some \in BOOLEAN, ReadsData(s, some)
       PROVE  PollTyped'
  BY <1>13, ManagerAssumption DEF ReadsData, Insert, ReadHandled, AfterFd,
     Finish, PollTyped, TypeOK
<1>14. ASSUME NEW s \in Sockets, NEW error \in BOOLEAN, ReadsEnd(s, error)
       PROVE  PollTyped'
  BY <1>14, ManagerAssumption DEF ReadsEnd, Insert, ReadHandled, AfterFd,
     Finish, PollTyped, TypeOK
<1>15. CASE ReadLoopEnds
  BY <1>15, ManagerAssumption DEF ReadLoopEnds, loop, ObjectsTyped,
     RegistryTyped, PollTyped, TypeOK
<1>16. ASSUME NEW s \in Sockets, WritesNothing(s) PROVE PollTyped'
  BY <1>16, ManagerAssumption DEF WritesNothing, AfterFd, Finish, PollTyped,
     TypeOK
<1>17. ASSUME NEW s \in Sockets, NEW taking \in 0 .. MaxOut,
              NEW leaves \in BOOLEAN, WriteSocket(s, taking, leaves)
       PROVE  PollTyped'
  BY <1>17, ManagerAssumption DEF WriteSocket, AfterFd, Insert, Finish,
     PollTyped, TypeOK
<1>18. ASSUME NEW s \in Sockets, WriteFails(s) PROVE PollTyped'
  BY <1>18, ManagerAssumption DEF WriteFails, AfterFd, Finish, PollTyped,
     TypeOK
<1>19. ASSUME NEW s \in Sockets, ServeSocket(s) PROVE PollTyped'
  BY <1>19, ManagerAssumption DEF ServeSocket, Insert, PollTyped, TypeOK
<1>20. ASSUME NEW s \in Sockets, NEW sent \in 0 .. MaxOut - 1,
              NEW blocked \in BOOLEAN, ServeFails(s, sent, blocked)
       PROVE  PollTyped'
  BY <1>20, ManagerAssumption DEF ServeFails, AfterFd, Insert, Finish,
     PollTyped, TypeOK
<1>21. CASE ListeningWritten
  BY <1>21, ManagerAssumption DEF ListeningWritten, AfterFd, Finish,
     PollTyped, TypeOK
<1>22. CASE WriteLoopEnds
  BY <1>22, ManagerAssumption DEF WriteLoopEnds, AllSet, loop, ObjectsTyped,
     RegistryTyped, PollTyped, TypeOK
<1>23. ASSUME NEW s \in Sockets, ExceptNoError(s) PROVE PollTyped'
  BY <1>23, ManagerAssumption DEF ExceptNoError, AfterFd, Insert, Finish,
     PollTyped, TypeOK
<1>24. ASSUME NEW s \in Sockets, ExceptError(s) PROVE PollTyped'
  BY <1>24, ManagerAssumption DEF ExceptError, AfterFd, Insert, Finish,
     PollTyped, TypeOK
<1>25. CASE ListeningExcept
  BY <1>25, ManagerAssumption DEF ListeningExcept, AfterFd, Finish, PollTyped,
     TypeOK
<1>26. CASE RoundEnds
  BY <1>26, ManagerAssumption DEF RoundEnds, Finish, PollTyped, TypeOK
<1>27. ASSUME NEW s \in Sockets, NEW disposes \in BOOLEAN,
              Callback(s, disposes)
       PROVE  PollTyped'
  BY <1>27, ManagerAssumption DEF Callback, loop, PollTyped, TypeOK
<1>28. CASE PollReturns
  BY <1>28, ManagerAssumption DEF PollReturns, PollTyped, TypeOK
<1>29. CASE UNCHANGED vars
  BY <1>29 DEF vars, loop, PollTyped, TypeOK
<1> QED
  BY <1>1, <1>2, <1>3, <1>4, <1>5, <1>6, <1>7, <1>8, <1>9, <1>10, <1>11,
     <1>12, <1>13, <1>14, <1>15, <1>16, <1>17, <1>18, <1>19, <1>20, <1>21,
     <1>22, <1>23, <1>24, <1>25, <1>26, <1>27, <1>28, <1>29 DEF Next,
     Application, Reading, Writing, Excepting

-----------------------------------------------------------------------------
(* What a poll reports. *)

\* While a poll runs, what it has to report is on its way; and what is on its
\* way may be reported.
ReportsDue ==
  /\ pc = "idle" => due = {}
  /\ pc \notin {"idle", "crashed"} => due \subseteq active_ \cup notify_

\* The sockets a step may put into active_ or notify_.
LEMMA InsertReports ==
  ASSUME TypeOK, NEW socks \in SUBSET Sockets, Insert(socks), UNCHANGED notify,
         pc \notin {"idle", "crashed"}, ReportsLive,
         \A s \in Sockets : Held(s) => Held(s)',
         \A s \in socks : Held(s)'
  PROVE  /\ ReportsLive'
         /\ active_' \cup notify_' = active_ \cup notify_ \cup socks
<1>1. /\ active_' = active_ \cup {s \in socks : ~notify[s]}
      /\ notify_' = notify_ \cup {s \in socks : notify[s]}
  BY DEF Insert
<1>2. /\ \A s \in active_ \cup notify_ : s \in Sockets /\ Held(s)
      /\ \A s \in notify_ : notify[s]
      /\ \A s \in active_ : ~notify[s]
  BY DEF ReportsLive, TypeOK, PollTyped
<1>3. \A s \in active_' \cup notify_' : Held(s)'
  BY <1>1, <1>2
<1>4. notify_' = {s \in notify_' : notify'[s]}
  BY <1>1, <1>2
<1>5. active_' \cap {s \in Sockets : notify'[s]} = {}
  BY <1>1, <1>2
<1>6. active_' \cup notify_' = active_ \cup notify_ \cup socks
  BY <1>1
<1> QED
  BY <1>3, <1>4, <1>5, <1>6 DEF ReportsLive

LEMMA KeepsReports ==
  ASSUME TypeOK, UNCHANGED <<active_, notify_, notify>>,
         pc \notin {"idle", "crashed"}, ReportsLive,
         \A s \in Sockets : Held(s) => Held(s)'
  PROVE  ReportsLive'
  BY DEF ReportsLive, TypeOK, PollTyped

\* Holding a socket outlasts its being closed.
LEMMA CloseHeld ==
  ASSUME ObjectsTyped, NEW gone \in SUBSET Sockets, Close(gone), UNCHANGED taken
  PROVE  \A s \in Sockets : Held(s) => Held(s)'
  BY DEF Close, Held, ObjectsTyped

LEMMA KnownHeld ==
  ASSUME Registered, NEW s \in sockets_ PROVE s \in Sockets /\ Held(s)
  BY DEF Registered, Held

\* Reports stay live and everything due is on its way.
LEMMA ReportsStep ==
  ASSUME Inv, ReportsDue, [Next]_vars
  PROVE  ReportsLive' /\ ReportsDue'
<1>0. TypeOK /\ Registered /\ Addressed /\ ReportsLive /\ ReportsDue
  BY DEF Inv
<1> USE <1>0
<1>1. ASSUME NEW n \in 1 .. Cardinality(Sockets), Accept(n)
      PROVE  ReportsLive' /\ ReportsDue'
  BY <1>1 DEF Accept, loop, ReportsLive, ReportsDue
<1>2. ASSUME NEW s \in Sockets, NEW a \in Addrs, Connect(s, a)
      PROVE  ReportsLive' /\ ReportsDue'
  BY <1>2 DEF Connect, loop, ReportsLive, ReportsDue
<1>3. ASSUME NEW s \in Sockets, Dispose(s) PROVE ReportsLive' /\ ReportsDue'
  BY <1>3 DEF Dispose, loop, ReportsLive, ReportsDue
<1>4. ASSUME NEW s \in Sockets, Write(s) PROVE ReportsLive' /\ ReportsDue'
  BY <1>4 DEF Write, loop, ReportsLive, ReportsDue
<1>5. ASSUME NEW s \in Sockets, SetEtworkSocketNotify(s)
      PROVE  ReportsLive' /\ ReportsDue'
  BY <1>5 DEF SetEtworkSocketNotify, loop, ReportsLive, ReportsDue
<1>6. ASSUME NEW max \in MaxActives, NEW late \in SUBSET sockets_,
             NEW quiet \in SUBSET (sockets_ \ late), Poll(max, late, quiet)
      PROVE  ReportsLive'
       /\ ReportsDue'
  <2>1. /\ active_' = {s \in late : ~notify[s]}
        /\ notify_' = {s \in late : notify[s]}
        /\ due' = due \cup late /\ due = {} /\ pc' = "select"
        /\ UNCHANGED <<taken, notify>>
    BY <1>6 DEF Poll, ReportsDue
  <2>2. \A s \in late : s \in Sockets /\ Held(s)'
    BY <1>6, <2>1, KnownHeld, CloseHeld DEF Poll, TypeOK, Registered
  <2>3. ReportsLive'
    BY <2>1, <2>2 DEF ReportsLive
  <2>4. ReportsDue'
    BY <2>1 DEF ReportsDue
  <2> QED
    BY <2>3, <2>4
<1>7. CASE Select
  <2>1. /\ UNCHANGED <<active_, notify_, due, notify, life, taken>>
        /\ pc \notin {"idle", "crashed"} /\ pc' # "idle"
    BY <1>7 DEF Select, Finish, object
  <2> QED
    BY <2>1, KeepsReports DEF Held, ReportsDue
<1>8. CASE ListeningRead
  <2>1. /\ UNCHANGED <<active_, notify_, due, notify, life, taken>>
        /\ pc \notin {"idle", "crashed"} /\ pc' # "idle"
    BY <1>8 DEF ListeningRead, AfterFd, Finish, object
  <2> QED
    BY <2>1, KeepsReports DEF Held, ReportsDue
<1>9. ASSUME NEW s \in Sockets, NEW a \in Addrs, AcceptConnection(s, a)
      PROVE  ReportsLive' /\ ReportsDue'
  <2>1. /\ UNCHANGED <<active_, notify_, due, notify>>
        /\ pc \notin {"idle", "crashed"} /\ pc' # "idle"
    BY <1>9 DEF AcceptConnection, AfterFd, Finish
  <2>2. \A t \in Sockets : Held(t) => Held(t)'
    BY <1>9 DEF AcceptConnection, Allocate, Held, Addressed, TypeOK,
     ObjectsTyped
  <2> QED
    BY <2>1, <2>2, KeepsReports DEF ReportsDue
<1>10. ASSUME NEW s \in Sockets, NEW a \in Addrs, RecvFromStranger(s, a)
       PROVE  ReportsLive' /\ ReportsDue'
  <2>1. /\ UNCHANGED <<active_, notify_, due, notify>>
        /\ pc \notin {"idle", "crashed"} /\ pc' # "idle"
    BY <1>10 DEF RecvFromStranger, loop
  <2>2. \A t \in Sockets : Held(t) => Held(t)'
    BY <1>10 DEF RecvFromStranger, Allocate, Held, Addressed, TypeOK,
     ObjectsTyped
  <2> QED
    BY <2>1, <2>2, KeepsReports DEF ReportsDue
<1>11. ASSUME NEW a \in Addrs, RecvFromPeer(a)
       PROVE  ReportsLive' /\ ReportsDue'
  <2>1. PICK s \in Sockets : s = socketAddrs_[a] /\ life[s] = "open"
    BY <1>11 DEF RecvFromPeer, Registered, TypeOK, RegistryTyped
  <2>2. /\ UNCHANGED <<notify, life, taken, pc>> /\ due' = due \cup {s}
        /\ pc = "read" /\ taken[s] /\ Insert({s})
    BY <1>11, <2>1 DEF RecvFromPeer, object, loop
  <2>3. Held(s)' /\ \A t \in Sockets : Held(t) => Held(t)'
    BY <2>1, <2>2 DEF Held
  <2>4. ReportsLive' /\ active_' \cup notify_' = active_ \cup notify_ \cup {s}
    BY <2>1, <2>2, <2>3, InsertReports
  <2> QED
    BY <2>2, <2>4 DEF ReportsDue
<1>12. ASSUME NEW s \in Sockets, ReadsNothing(s)
       PROVE  ReportsLive' /\ ReportsDue'
  <2>1. /\ UNCHANGED <<active_, notify_, due, notify, life, taken>>
        /\ pc \notin {"idle", "crashed"} /\ pc' # "idle"
    BY <1>12 DEF ReadsNothing, ReadHandled, AfterFd, Finish, object
  <2> QED
    BY <2>1, KeepsReports DEF Held, ReportsDue
<1>13. ASSUME NEW s \in Sockets, NEW some \in BOOLEAN, ReadsData(s, some)
       PROVE  ReportsLive' /\ ReportsDue'
  <2>1. /\ UNCHANGED <<notify, life, taken>> /\ due' \subseteq due \cup {s}
        /\ pc \notin {"idle", "crashed"} /\ pc' # "idle"
        /\ s \in sockets_ /\ Insert({s})
    BY <1>13 DEF ReadsData, ReadHandled, AfterFd, Finish, object
  <2>2. Held(s)' /\ \A t \in Sockets : Held(t) => Held(t)'
    BY <2>1, KnownHeld DEF Held
  <2>3. ReportsLive' /\ active_' \cup notify_' = active_ \cup notify_ \cup {s}
    BY <2>1, <2>2, InsertReports
  <2> QED
    BY <2>1, <2>3 DEF ReportsDue
<1>14. ASSUME NEW s \in Sockets, NEW error \in BOOLEAN, ReadsEnd(s, error)
       PROVE  ReportsLive' /\ ReportsDue'
  <2>1. /\ UNCHANGED <<notify, taken>> /\ due' = due \cup {s}
        /\ pc \notin {"idle", "crashed"} /\ pc' # "idle"
        /\ s \in sockets_ /\ Close({s}) /\ Insert({s})
    BY <1>14 DEF ReadsEnd, ReadHandled, AfterFd, Finish
  <2>2. Held(s)' /\ \A t \in Sockets : Held(t) => Held(t)'
    BY <2>1, KnownHeld, CloseHeld DEF TypeOK
  <2>3. ReportsLive' /\ active_' \cup notify_' = active_ \cup notify_ \cup {s}
    BY <2>1, <2>2, InsertReports
  <2> QED
    BY <2>1, <2>3 DEF ReportsDue
<1>15. CASE ReadLoopEnds
  <2>1. /\ UNCHANGED <<active_, notify_, due, notify, life, taken>>
        /\ pc \notin {"idle", "crashed"} /\ pc' # "idle"
    BY <1>15 DEF ReadLoopEnds, object
  <2> QED
    BY <2>1, KeepsReports DEF Held, ReportsDue
<1>16. ASSUME NEW s \in Sockets, WritesNothing(s)
       PROVE  ReportsLive' /\ ReportsDue'
  <2>1. /\ UNCHANGED <<active_, notify_, due, notify, life, taken>>
        /\ pc \notin {"idle", "crashed"} /\ pc' # "idle"
    BY <1>16 DEF WritesNothing, AfterFd, Finish, object
  <2> QED
    BY <2>1, KeepsReports DEF Held, ReportsDue
<1>17. ASSUME NEW s \in Sockets, NEW taking \in 0 .. MaxOut,
              NEW leaves \in BOOLEAN, WriteSocket(s, taking, leaves)
       PROVE  ReportsLive' /\
       ReportsDue'
  <2>1. /\ UNCHANGED <<notify, life, taken>> /\ due' \subseteq due \cup {s}
        /\ pc \notin {"idle", "crashed"} /\ pc' # "idle"
        /\ s \in sockets_ /\ Insert({s})
    BY <1>17 DEF WriteSocket, AfterFd, Finish, object
  <2>2. Held(s)' /\ \A t \in Sockets : Held(t) => Held(t)'
    BY <2>1, KnownHeld DEF Held
  <2>3. ReportsLive' /\ active_' \cup notify_' = active_ \cup notify_ \cup {s}
    BY <2>1, <2>2, InsertReports
  <2> QED
    BY <2>1, <2>3 DEF ReportsDue
<1>18. ASSUME NEW s \in Sockets, WriteFails(s)
       PROVE  ReportsLive' /\ ReportsDue'
  <2>1. /\ UNCHANGED <<notify, taken, active_, notify_, due>>
        /\ pc \notin {"idle", "crashed"} /\ pc' # "idle"
        /\ s \in sockets_ /\ Close({s})
    BY <1>18 DEF WriteFails, AfterFd, Finish
  <2>2. \A t \in Sockets : Held(t) => Held(t)'
    BY <2>1, KnownHeld, CloseHeld DEF TypeOK
  <2> QED
    BY <2>1, <2>2, KeepsReports DEF ReportsDue
<1>19. ASSUME NEW s \in Sockets, ServeSocket(s)
       PROVE  ReportsLive' /\ ReportsDue'
  <2>1. /\ UNCHANGED <<notify, life, taken>> /\ due' \subseteq due \cup {s}
        /\ pc \notin {"idle", "crashed"} /\ pc' # "idle"
        /\ s \in sockets_ /\ Insert({s})
    BY <1>19 DEF ServeSocket, object
  <2>2. Held(s)' /\ \A t \in Sockets : Held(t) => Held(t)'
    BY <2>1, KnownHeld DEF Held
  <2>3. ReportsLive' /\ active_' \cup notify_' = active_ \cup notify_ \cup {s}
    BY <2>1, <2>2, InsertReports
  <2> QED
    BY <2>1, <2>3 DEF ReportsDue
<1>20. ASSUME NEW s \in Sockets, NEW sent \in 0 .. MaxOut - 1,
              NEW blocked \in BOOLEAN, ServeFails(s, sent, blocked)
       PROVE  ReportsLive' /\ ReportsDue'
  <2>1. /\ UNCHANGED <<notify, life, taken, due>>
        /\ pc \notin {"idle", "crashed"} /\ pc' # "idle"
        /\ s \in sockets_ /\ (UNCHANGED <<active_, notify_>> \/ Insert({s}))
    BY <1>20 DEF ServeFails, AfterFd, Finish
  <2>2. Held(s)' /\ \A t \in Sockets : Held(t) => Held(t)'
    BY <2>1, KnownHeld DEF Held
  <2>3. CASE Insert({s})
    <3>1. ReportsLive' /\ active_' \cup notify_' = active_ \cup notify_ \cup
     {s}
      BY <2>1, <2>2, <2>3, InsertReports
    <3> QED
      BY <2>1, <3>1 DEF ReportsDue
  <2>4. CASE UNCHANGED <<active_, notify_>>
    BY <2>1, <2>2, <2>4, KeepsReports DEF ReportsDue
  <2> QED
    BY <2>1, <2>3, <2>4
<1>21. CASE ListeningWritten
  <2>1. /\ UNCHANGED <<active_, notify_, due, notify, life, taken>>
        /\ pc \notin {"idle", "crashed"} /\ pc' # "idle"
    BY <1>21 DEF ListeningWritten, AfterFd, Finish, object
  <2> QED
    BY <2>1, KeepsReports DEF Held, ReportsDue
<1>22. CASE WriteLoopEnds
  <2>1. /\ UNCHANGED <<active_, notify_, due, notify, life, taken>>
        /\ pc \notin {"idle", "crashed"} /\ pc' # "idle"
    BY <1>22 DEF WriteLoopEnds, object
  <2> QED
    BY <2>1, KeepsReports DEF Held, ReportsDue
<1>23. ASSUME NEW s \in Sockets, ExceptNoError(s)
       PROVE  ReportsLive' /\ ReportsDue'
  <2>1. /\ UNCHANGED <<notify, life, taken>> /\ due' \subseteq due \cup {s}
        /\ pc \notin {"idle", "crashed"} /\ pc' # "idle"
        /\ s \in sockets_ /\ Insert({s})
    BY <1>23 DEF ExceptNoError, AfterFd, Finish, object
  <2>2. Held(s)' /\ \A t \in Sockets : Held(t) => Held(t)'
    BY <2>1, KnownHeld DEF Held
  <2>3. ReportsLive' /\ active_' \cup notify_' = active_ \cup notify_ \cup {s}
    BY <2>1, <2>2, InsertReports
  <2> QED
    BY <2>1, <2>3 DEF ReportsDue
<1>24. ASSUME NEW s \in Sockets, ExceptError(s)
       PROVE  ReportsLive' /\ ReportsDue'
  <2>1. /\ UNCHANGED <<notify, taken>> /\ due' = due \cup {s}
        /\ pc \notin {"idle", "crashed"} /\ pc' # "idle"
        /\ s \in sockets_ /\ Close({s}) /\ (Insert({s}) \/ pc' = "crashed")
    BY <1>24 DEF ExceptError, AfterFd, Finish
  <2>2. CASE pc' = "crashed"
    BY <2>2 DEF ReportsLive, ReportsDue
  <2>3. CASE Insert({s})
    <3>1. Held(s)' /\ \A t \in Sockets : Held(t) => Held(t)'
      BY <2>1, KnownHeld, CloseHeld DEF TypeOK
    <3>2. ReportsLive' /\ active_' \cup notify_' = active_ \cup notify_ \cup
     {s}
      BY <2>1, <2>3, <3>1, InsertReports
    <3> QED
      BY <2>1, <3>2 DEF ReportsDue
  <2> QED
    BY <2>1, <2>2, <2>3
<1>25. CASE ListeningExcept
  <2>1. /\ UNCHANGED <<active_, notify_, due, notify, life, taken>>
        /\ pc \notin {"idle", "crashed"} /\ pc' # "idle"
    BY <1>25 DEF ListeningExcept, AfterFd, Finish, object
  <2> QED
    BY <2>1, KeepsReports DEF Held, ReportsDue
<1>26. CASE RoundEnds
  <2>1. /\ UNCHANGED <<active_, notify_, due, notify, life, taken>>
        /\ pc \notin {"idle", "crashed"} /\ pc' # "idle"
    BY <1>26 DEF RoundEnds, Finish, object
  <2> QED
    BY <2>1, KeepsReports DEF Held, ReportsDue
<1>27. ASSUME NEW s \in Sockets, NEW disposes \in BOOLEAN,
              Callback(s, disposes)
       PROVE  ReportsLive' /\ ReportsDue'
  <2>1. /\ notify[s] /\ s \notin active_ /\ s \in notify_ /\ pc = "notify"
        /\ notify_' = notify_ \ {s} /\ due' = due \ {s}
        /\ UNCHANGED <<pc, taken, notify, active_>>
    BY <1>27 DEF Callback, ReportsLive, loop
  <2>2. \A t \in Sockets \ {s} : Held(t) => Held(t)'
    BY <1>27, <2>1 DEF Callback, Delete, Held, TypeOK, ObjectsTyped
  <2>3. \A t \in active_' \cup notify_' : t \in Sockets \ {s} /\ Held(t)
    BY <2>1 DEF ReportsLive, TypeOK, PollTyped
  <2>4. ReportsLive'
    BY <2>1, <2>2, <2>3 DEF ReportsLive
  <2> QED
    BY <2>1, <2>4 DEF ReportsDue
<1>28. CASE PollReturns
  BY <1>28 DEF PollReturns, ReportsLive, ReportsDue
<1>29. CASE UNCHANGED vars
  BY <1>29 DEF vars, object, loop, Held, ReportsLive, ReportsDue
<1> QED
  BY <1>1, <1>2, <1>3, <1>4, <1>5, <1>6, <1>7, <1>8, <1>9, <1>10, <1>11,
     <1>12, <1>13, <1>14, <1>15, <1>16, <1>17, <1>18, <1>19, <1>20, <1>21,
     <1>22, <1>23, <1>24, <1>25, <1>26, <1>27, <1>28, <1>29 DEF Next,
     Application, Reading, Writing, Excepting


-----------------------------------------------------------------------------
(* The theorems. *)

LEMMA InitInv == Init => Inv /\ ReportsDue
<1> SUFFICES ASSUME Init PROVE Inv /\ ReportsDue
  OBVIOUS
<1>1. TypeOK
  BY ManagerAssumption
  DEF Init, TypeOK, ObjectsTyped, RegistryTyped, PollTyped
<1>2. Registered
  BY DEF Init, Registered
<1>3. ReportsLive /\ Addressed /\ ReportsDue
  BY DEF Init, ReportsLive, Addressed, ReportsDue
<1> QED
  BY <1>1, <1>2, <1>3 DEF Inv

\* Inv and ReportsDue hold in every state.
THEOREM Invariance == Spec => [](Inv /\ ReportsDue)
<1>1. ASSUME Inv, ReportsDue, [Next]_vars PROVE Inv' /\ ReportsDue'
  <2>1. TypeOK
    BY <1>1 DEF Inv
  <2>2. ObjectsTyped' /\ PollTyped'
    BY <1>1, <2>1, ObjectsTypedStep, PollTypedStep
  <2>3. Registered' /\ RegistryTyped' /\ Addressed'
    BY <1>1, RegisteredStep
  <2>4. ReportsLive' /\ ReportsDue'
    BY <1>1, ReportsStep
  <2> QED
    BY <2>2, <2>3, <2>4 DEF Inv, TypeOK
<1> QED
  BY <1>1, InitInv, PTL DEF Spec

\* Every variable keeps its kind, whatever the calls and their order: the
\* buffers are within their limits, and sets of sockets hold sockets.
THEOREM TypeCorrect == Spec => []TypeOK
<1>1. Inv => TypeOK
  BY DEF Inv
<1> QED
  BY <1>1, Invariance, PTL

\* Each open socket is in sockets_ or, once, in accepted_; neither these nor the
\* address map lead to a socket that was closed.
THEOREM RegisteredHolds == Spec => []Registered
<1>1. Inv => Registered
  BY DEF Inv
<1> QED
  BY <1>1, Invariance, PTL

\* A poll reports only sockets the application holds, each in one way.
THEOREM ReportsLiveHolds == Spec => []ReportsLive
<1>1. Inv => ReportsLive
  BY DEF Inv
<1> QED
  BY <1>1, Invariance, PTL

\* When poll() has returned and its callbacks are over, every socket that data
\* came for, that timed out or whose end was read has been reported.
THEOREM ReportedHolds == Spec => []Reported
<1>1. ReportsDue => Reported
  BY DEF ReportsDue, Reported
<1> QED
  BY <1>1, Invariance, PTL

-----------------------------------------------------------------------------
(* Finding a socket by its address, and the room in outActive. *)

LEMMA SettingsKept ==
  ASSUME [Next]_vars
  PROVE  UNCHANGED reliable /\ twice \subseteq twice'
<1>1. ASSUME NEW n \in 1 .. Cardinality(Sockets), Accept(n)
      PROVE  UNCHANGED reliable /\ twice \subseteq twice'
  BY <1>1 DEF Accept, settings
<1>2. ASSUME NEW s \in Sockets, NEW a \in Addrs, Connect(s, a)
      PROVE  UNCHANGED reliable /\ twice \subseteq twice'
  BY <1>2 DEF Connect, settings
<1>3. ASSUME NEW s \in Sockets, Dispose(s)
      PROVE  UNCHANGED reliable /\ twice \subseteq twice'
  BY <1>3 DEF Dispose, settings
<1>4. ASSUME NEW s \in Sockets, Write(s)
      PROVE  UNCHANGED reliable /\ twice \subseteq twice'
  BY <1>4 DEF Write, settings
<1>5. ASSUME NEW s \in Sockets, SetEtworkSocketNotify(s)
      PROVE  UNCHANGED reliable /\ twice \subseteq twice'
  BY <1>5 DEF SetEtworkSocketNotify, settings
<1>6. ASSUME NEW max \in MaxActives, NEW late \in SUBSET sockets_,
             NEW quiet \in SUBSET (sockets_ \ late), Poll(max, late, quiet)
      PROVE  UNCHANGED
       reliable /\ twice \subseteq twice'
  BY <1>6 DEF Poll, settings
<1>7. CASE Select
  BY <1>7 DEF Select, settings
<1>8. CASE ListeningRead
  BY <1>8 DEF ListeningRead, settings
<1>9. ASSUME NEW s \in Sockets, NEW a \in Addrs, AcceptConnection(s, a)
      PROVE  UNCHANGED reliable /\ twice \subseteq twice'
  BY <1>9 DEF AcceptConnection, settings
<1>10. ASSUME NEW s \in Sockets, NEW a \in Addrs, RecvFromStranger(s, a)
       PROVE  UNCHANGED reliable /\ twice \subseteq twice'
  BY <1>10 DEF RecvFromStranger, settings
<1>11. ASSUME NEW a \in Addrs, RecvFromPeer(a)
       PROVE  UNCHANGED reliable /\ twice \subseteq twice'
  BY <1>11 DEF RecvFromPeer, settings
<1>12. ASSUME NEW s \in Sockets, ReadsNothing(s)
       PROVE  UNCHANGED reliable /\ twice \subseteq twice'
  BY <1>12 DEF ReadsNothing, ReadHandled, settings
<1>13. ASSUME NEW s \in Sockets, NEW some \in BOOLEAN, ReadsData(s, some)
       PROVE  UNCHANGED reliable /\ twice \subseteq twice'
  BY <1>13 DEF ReadsData, ReadHandled, settings
<1>14. ASSUME NEW s \in Sockets, NEW error \in BOOLEAN, ReadsEnd(s, error)
       PROVE  UNCHANGED reliable /\ twice \subseteq twice'
  BY <1>14 DEF ReadsEnd, ReadHandled, settings
<1>15. CASE ReadLoopEnds
  BY <1>15 DEF ReadLoopEnds, settings
<1>16. ASSUME NEW s \in Sockets, WritesNothing(s)
       PROVE  UNCHANGED reliable /\ twice \subseteq twice'
  BY <1>16 DEF WritesNothing, settings
<1>17. ASSUME NEW s \in Sockets, NEW taking \in 0 .. MaxOut,
              NEW leaves \in BOOLEAN, WriteSocket(s, taking, leaves)
       PROVE  UNCHANGED reliable /\
       twice \subseteq twice'
  BY <1>17 DEF WriteSocket, settings
<1>18. ASSUME NEW s \in Sockets, WriteFails(s)
       PROVE  UNCHANGED reliable /\ twice \subseteq twice'
  BY <1>18 DEF WriteFails, settings
<1>19. ASSUME NEW s \in Sockets, ServeSocket(s)
       PROVE  UNCHANGED reliable /\ twice \subseteq twice'
  BY <1>19 DEF ServeSocket, settings
<1>20. ASSUME NEW s \in Sockets, NEW sent \in 0 .. MaxOut - 1,
              NEW blocked \in BOOLEAN, ServeFails(s, sent, blocked)
       PROVE  UNCHANGED reliable /\ twice
       \subseteq twice'
  BY <1>20 DEF ServeFails, settings
<1>21. CASE ListeningWritten
  BY <1>21 DEF ListeningWritten, settings
<1>22. CASE WriteLoopEnds
  BY <1>22 DEF WriteLoopEnds, settings
<1>23. ASSUME NEW s \in Sockets, ExceptNoError(s)
       PROVE  UNCHANGED reliable /\ twice \subseteq twice'
  BY <1>23 DEF ExceptNoError, settings
<1>24. ASSUME NEW s \in Sockets, ExceptError(s)
       PROVE  UNCHANGED reliable /\ twice \subseteq twice'
  BY <1>24 DEF ExceptError, settings
<1>25. CASE ListeningExcept
  BY <1>25 DEF ListeningExcept, settings
<1>26. CASE RoundEnds
  BY <1>26 DEF RoundEnds, settings
<1>27. ASSUME NEW s \in Sockets, NEW disposes \in BOOLEAN,
              Callback(s, disposes)
       PROVE  UNCHANGED reliable /\ twice \subseteq twice'
  BY <1>27 DEF Callback, settings
<1>28. CASE PollReturns
  BY <1>28 DEF PollReturns, settings
<1> QED
  BY <1>1, <1>2, <1>3, <1>4, <1>5, <1>6, <1>7, <1>8, <1>9, <1>10, <1>11,
     <1>12, <1>13, <1>14, <1>15, <1>16, <1>17, <1>18, <1>19, <1>20, <1>21,
     <1>22, <1>23, <1>24, <1>25, <1>26, <1>27, <1>28 DEF Next, Application,
     Reading, Writing, Excepting, vars, settings

\* The socket an address leads to changes only when the address gets another
\* socket or loses one.
LEMMA FindableStep ==
  ASSUME Inv, Findable, [Next]_vars PROVE Findable'
<1>1. TypeOK /\ Registered /\ Addressed /\ ChangesRegistry
  BY StepOnRegistry DEF Inv, TypeOK
<1>2. SUFFICES ASSUME ~reliable, NEW s \in Sockets, life'[s] = "open",
                      addr_'[s] \notin twice'
               PROVE  socketAddrs_'[addr_'[s]] = s
  BY SettingsKept DEF Findable
<1>3. twice \subseteq twice'
  BY SettingsKept
<1>4. CASE KeepsRegistry
  <2>1. life[s] = "open" /\ UNCHANGED <<addr_, socketAddrs_>>
    BY <1>2, <1>4 DEF KeepsRegistry, OpenSockets, registry
  <2> QED
    BY <1>2, <1>3, <2>1 DEF Findable
<1>5. ASSUME NEW n \in 1 .. Cardinality(Sockets), Accept(n)
      PROVE  socketAddrs_'[addr_'[s]] = s
  <2>1. UNCHANGED <<life, addr_, socketAddrs_>>
    BY <1>5 DEF Accept
  <2> QED
    BY <1>2, <1>3, <2>1 DEF Findable
<1>6. ASSUME NEW t \in Sockets, NEW a \in Addrs, NEW accepted \in BOOLEAN,
             Opens(t, a, accepted)
      PROVE  socketAddrs_'[addr_'[s]] = s
  <2>1. /\ socketAddrs_' = [socketAddrs_ EXCEPT ![a] = t]
        /\ socketAddrs_ \in [Addrs -> Sockets \cup {NULL}]
        /\ addr_'[t] = a
    BY <1>1, <1>2, <1>6 DEF Opens, TypeOK, RegistryTyped, ObjectsTyped
  <2>2. CASE s = t
    BY <2>1, <2>2
  <2>3. CASE s # t
    <3>1. life[s] = "open" /\ addr_'[s] = addr_[s] /\ addr_[s] \in Addrs
      BY <1>1, <1>2, <1>6, <2>3 DEF Opens, Addressed, TypeOK, ObjectsTyped
    <3>2. socketAddrs_[addr_[s]] = s
      BY <1>2, <1>3, <3>1 DEF Findable
    <3>3. addr_[s] # a
      BY <1>2, <1>6, <3>1, <3>2, ManagerAssumption DEF Opens
    <3> QED
      BY <2>1, <3>1, <3>2, <3>3
  <2> QED
    BY <2>2, <2>3
<1>7. ASSUME NEW gone \in SUBSET Sockets, Loses(gone)
      PROVE  socketAddrs_'[addr_'[s]] = s
  <2>1. life[s] = "open" /\ s \notin gone /\ UNCHANGED addr_
    BY <1>2, <1>7 DEF Loses, OpenSockets
  <2>2. addr_[s] \in Addrs /\ socketAddrs_[addr_[s]] = s
    BY <1>1, <1>2, <1>3, <2>1 DEF Findable, Addressed
  <2>3. \A t \in gone : addr_[t] # addr_[s]
    <3> SUFFICES ASSUME NEW t \in gone, addr_[t] = addr_[s] PROVE FALSE
      OBVIOUS
    <3>1. t \in Sockets /\ life[t] = "open"
      BY <1>1, <1>7 DEF Loses, Registered
    <3>2. socketAddrs_[addr_[t]] = t
      BY <1>2, <1>3, <2>1, <3>1 DEF Findable
    <3> QED
      BY <2>1, <2>2, <3>2
  <2> QED
    BY <1>7, <2>1, <2>2, <2>3 DEF Loses, RemoveSockets
<1> QED
  BY <1>1, <1>4, <1>5, <1>6, <1>7 DEF ChangesRegistry

\* A datagram finds its socket, whatever connects, arrives and closes, as long
\* as the application does not connect to an address that has a socket.
THEOREM FindableHolds == Spec => []Findable
<1>1. Init => Findable
  BY DEF Init, Findable
<1>2. Inv /\ Findable /\ [Next]_vars => Findable'
  BY FindableStep
<1> QED
  BY <1>1, <1>2, Invariance, PTL DEF Spec

\* In a TCP poll whose time-outs leave room, there is room at every test.
RoomLeft ==
  reliable /\ Cardinality(expired) < maxActive =>
    /\ pc \in {"select", "read", "write", "except"} =>
         Cardinality(active_) < maxActive
    /\ pc \in {"notify", "crashed"} => Cardinality(active_) <= maxActive

LEMMA CountsActive ==
  ASSUME TypeOK
  PROVE  IsFiniteSet(active_) /\ Cardinality(active_) \in Nat /\ maxActive \in Nat
<1>1. active_ \in SUBSET Sockets /\ maxActive \in Nat
  BY DEF TypeOK, PollTyped
<1>2. IsFiniteSet(active_)
  BY <1>1, FS_Subset, ManagerAssumption
<1> QED
  BY <1>1, <1>2, FS_CardinalityType

LEMMA RoomKept ==
  ASSUME TypeOK, RoomLeft, UNCHANGED <<active_, expired, maxActive, reliable>>,
         pc \in {"select", "read", "write", "except"},
         pc' \in {"select", "read", "write", "except", "notify", "crashed"}
  PROVE  RoomLeft'
<1>1. Cardinality(active_) \in Nat /\ maxActive \in Nat
  BY CountsActive
<1>2. reliable /\ Cardinality(expired) < maxActive =>
        Cardinality(active_) < maxActive
  BY DEF RoomLeft
<1>3. Cardinality(active_) < maxActive => Cardinality(active_) <= maxActive
  BY <1>1
<1> QED
  BY <1>2, <1>3 DEF RoomLeft

\* One socket at a time, and a test after each.
LEMMA RoomInsert ==
  ASSUME TypeOK, RoomLeft, NEW s \in Sockets, Insert({s}), NEW rest,
         AfterFd(active_', rest), UNCHANGED <<expired, reliable>>,
         pc \in {"read", "write", "except"}
  PROVE  RoomLeft'
<1>1. IsFiniteSet(active_) /\ Cardinality(active_) \in Nat /\ maxActive \in Nat
  BY CountsActive
<1>2. active_' = active_ \/ active_' = active_ \cup {s}
  BY DEF Insert
<1>3. /\ Cardinality(active_') \in Nat
      /\ Cardinality(active_') <= Cardinality(active_) + 1
  <2>1. CASE active_' = active_
    BY <1>1, <2>1
  <2>2. CASE active_' = active_ \cup {s}
    <3>1. Cardinality(active_ \cup {s}) =
            IF s \in active_ THEN Cardinality(active_) ELSE Cardinality(active_) + 1
      BY <1>1, FS_AddElement
    <3> QED
      BY <1>1, <2>2, <3>1
  <2> QED
    BY <1>2, <2>1, <2>2
<1>4. /\ maxActive' = maxActive
      /\ IF Cardinality(active_') = maxActive THEN pc' = "notify" ELSE pc' = pc
  BY DEF AfterFd, Finish
<1>5. SUFFICES ASSUME reliable, Cardinality(expired) < maxActive
               PROVE  /\ Cardinality(active_') <= maxActive
                      /\ pc' # "notify" => Cardinality(active_') < maxActive
  BY <1>4 DEF RoomLeft
<1>6. Cardinality(active_) < maxActive
  BY <1>5 DEF RoomLeft
<1> QED
  BY <1>1, <1>3, <1>4, <1>6

\* The test after each descriptor keeps the room.
LEMMA RoomStep ==
  ASSUME Inv, RoomLeft, [Next]_vars
  PROVE  RoomLeft'
<1>0. TypeOK
  BY DEF Inv
<1> USE <1>0
<1>1. ASSUME NEW n \in 1 .. Cardinality(Sockets), Accept(n) PROVE RoomLeft'
  BY <1>1 DEF Accept, loop, RoomLeft
<1>2. ASSUME NEW s \in Sockets, NEW a \in Addrs, Connect(s, a) PROVE RoomLeft'
  BY <1>2 DEF Connect, loop, RoomLeft
<1>3. ASSUME NEW s \in Sockets, Dispose(s) PROVE RoomLeft'
  BY <1>3 DEF Dispose, loop, RoomLeft
<1>4. ASSUME NEW s \in Sockets, Write(s) PROVE RoomLeft'
  BY <1>4 DEF Write, loop, RoomLeft
<1>5. ASSUME NEW s \in Sockets, SetEtworkSocketNotify(s) PROVE RoomLeft'
  BY <1>5 DEF SetEtworkSocketNotify, loop, RoomLeft
<1>6. ASSUME NEW max \in MaxActives, NEW late \in SUBSET sockets_,
             NEW quiet \in SUBSET (sockets_ \ late), Poll(max, late, quiet)
      PROVE  RoomLeft'
  BY <1>6 DEF Poll, RoomLeft
<1>7. CASE Select
  BY <1>7, RoomKept DEF Select, Finish, settings
<1>8. CASE ListeningRead
  BY <1>8, RoomKept DEF ListeningRead, AfterFd, Finish, settings
<1>9. ASSUME NEW s \in Sockets, NEW a \in Addrs, AcceptConnection(s, a)
      PROVE  RoomLeft'
  BY <1>9, RoomKept DEF AcceptConnection, AfterFd, Finish, settings
<1>10. ASSUME NEW s \in Sockets, NEW a \in Addrs, RecvFromStranger(s, a)
       PROVE  RoomLeft'
  BY <1>10 DEF RecvFromStranger, settings, RoomLeft
<1>11. ASSUME NEW a \in Addrs, RecvFromPeer(a) PROVE RoomLeft'
  BY <1>11 DEF RecvFromPeer, settings, RoomLeft
<1>12. ASSUME NEW s \in Sockets, ReadsNothing(s) PROVE RoomLeft'
  BY <1>12, RoomKept DEF ReadsNothing, ReadHandled, AfterFd, Finish, settings
<1>13. ASSUME NEW s \in Sockets, NEW some \in BOOLEAN, ReadsData(s, some)
       PROVE  RoomLeft'
  <2>1. /\ Insert({s}) /\ AfterFd(active_', ready \ {s})
        /\ UNCHANGED <<expired, reliable>>
        /\ pc \in {"read", "write", "except"}
    BY <1>13 DEF ReadsData, ReadHandled, settings
  <2> QED
    BY <2>1, RoomInsert
<1>14. ASSUME NEW s \in Sockets, NEW error \in BOOLEAN, ReadsEnd(s, error)
       PROVE  RoomLeft'
  <2>1. /\ Insert({s}) /\ AfterFd(active_', ready \ {s})
        /\ UNCHANGED <<expired, reliable>>
        /\ pc \in {"read", "write", "except"}
    BY <1>14 DEF ReadsEnd, ReadHandled, settings
  <2> QED
    BY <2>1, RoomInsert
<1>15. CASE ReadLoopEnds
  BY <1>15, RoomKept DEF ReadLoopEnds, settings
<1>16. ASSUME NEW s \in Sockets, WritesNothing(s) PROVE RoomLeft'
  BY <1>16, RoomKept DEF WritesNothing, AfterFd, Finish, settings
<1>17. ASSUME NEW s \in Sockets, NEW taking \in 0 .. MaxOut,
              NEW leaves \in BOOLEAN, WriteSocket(s, taking, leaves)
       PROVE  RoomLeft'
  <2>1. /\ Insert({s}) /\ AfterFd(active_', ready \ {s})
        /\ UNCHANGED <<expired, reliable>>
        /\ pc \in {"read", "write", "except"}
    BY <1>17 DEF WriteSocket, settings
  <2> QED
    BY <2>1, RoomInsert
<1>18. ASSUME NEW s \in Sockets, WriteFails(s) PROVE RoomLeft'
  BY <1>18, RoomKept DEF WriteFails, AfterFd, Finish, settings
<1>19. ASSUME NEW s \in Sockets, ServeSocket(s) PROVE RoomLeft'
  BY <1>19 DEF ServeSocket, settings, RoomLeft
<1>20. ASSUME NEW s \in Sockets, NEW sent \in 0 .. MaxOut - 1,
              NEW blocked \in BOOLEAN, ServeFails(s, sent, blocked)
       PROVE  RoomLeft'
  BY <1>20 DEF ServeFails, settings, RoomLeft
<1>21. CASE ListeningWritten
  BY <1>21, RoomKept DEF ListeningWritten, AfterFd, Finish, settings
<1>22. CASE WriteLoopEnds
  BY <1>22, RoomKept DEF WriteLoopEnds, settings
<1>23. ASSUME NEW s \in Sockets, ExceptNoError(s) PROVE RoomLeft'
  <2>1. /\ Insert({s}) /\ AfterFd(active_', ready \ {s})
        /\ UNCHANGED <<expired, reliable>>
        /\ pc \in {"read", "write", "except"}
    BY <1>23 DEF ExceptNoError, settings
  <2> QED
    BY <2>1, RoomInsert
<1>24. ASSUME NEW s \in Sockets, ExceptError(s) PROVE RoomLeft'
  <2>1. UNCHANGED <<expired, reliable>> /\ pc = "except"
    BY <1>24 DEF ExceptError, settings
  <2>2. CASE Insert({s}) /\ AfterFd(active_', ready \ {s})
    BY <2>1, <2>2, RoomInsert
  <2>3. CASE pc' = "crashed" /\ UNCHANGED <<active_, maxActive>>
    BY <2>1, <2>3, RoomKept
  <2> QED
    BY <1>24, <2>2, <2>3 DEF ExceptError
<1>25. CASE ListeningExcept
  BY <1>25, RoomKept DEF ListeningExcept, AfterFd, Finish, settings
<1>26. CASE RoundEnds
  BY <1>26, RoomKept DEF RoundEnds, Finish, settings
<1>27. ASSUME NEW s \in Sockets, NEW disposes \in BOOLEAN,
              Callback(s, disposes)
       PROVE  RoomLeft'
  BY <1>27 DEF Callback, settings, loop, RoomLeft
<1>28. CASE PollReturns
  BY <1>28 DEF PollReturns, RoomLeft
<1>29. CASE UNCHANGED vars
  BY <1>29 DEF vars, settings, loop, RoomLeft
<1> QED
  BY <1>1, <1>2, <1>3, <1>4, <1>5, <1>6, <1>7, <1>8, <1>9, <1>10, <1>11,
     <1>12, <1>13, <1>14, <1>15, <1>16, <1>17, <1>18, <1>19, <1>20, <1>21,
     <1>22, <1>23, <1>24, <1>25, <1>26, <1>27, <1>28, <1>29 DEF Next,
     Application, Reading, Writing, Excepting

\* A TCP poll returns no more than maxActive sockets if its time-outs alone are
\* fewer.
THEOREM MaxActiveHolds == Spec => []MaxActiveKept
<1>1. Init => RoomLeft
  BY DEF Init, RoomLeft
<1>2. Inv /\ RoomLeft /\ [Next]_vars => RoomLeft'
  BY RoomStep
<1>3. Inv /\ RoomLeft => MaxActiveKept
  <2> SUFFICES ASSUME Inv, RoomLeft PROVE MaxActiveKept
    OBVIOUS
  <2>1. TypeOK
    BY DEF Inv
  <2>2. /\ Cardinality(active_) \in Nat /\ maxActive \in Nat
        /\ pc \in {"idle", "select", "read", "write", "except", "notify", "crashed"}
    BY <2>1, CountsActive DEF TypeOK, PollTyped
  <2>3. Cardinality(active_) < maxActive => Cardinality(active_) <= maxActive
    BY <2>2
  <2> QED
    BY <2>2, <2>3 DEF RoomLeft, MaxActiveKept
<1> QED
  BY <1>1, <1>2, <1>3, Invariance, PTL DEF Spec

-----------------------------------------------------------------------------
(* The manager implements SocketService. *)

LEMMA SameService ==
  ASSUME KeepsRegistry, due' = due, pc' = "idle" <=> pc = "idle"
  PROVE  UNCHANGED Service!vars
  BY DEF KeepsRegistry, FreeSockets, registry, Service!vars

LEMMA LosesIs ==
  ASSUME NEW gone \in SUBSET Sockets, Loses(gone)
  PROVE  /\ gone \subseteq sockets_ /\ sockets_' = sockets_ \ gone
         /\ FreeSockets' = FreeSockets /\ accepted_' = accepted_
  BY DEF Loses, RemoveSockets

LEMMA OpensIs ==
  ASSUME ObjectsTyped, NEW s \in Sockets, NEW a \in Addrs, NEW accepted \in BOOLEAN,
         Opens(s, a, accepted)
  PROVE  s \in FreeSockets /\ FreeSockets' = FreeSockets \ {s}
  BY DEF Opens, FreeSockets, ObjectsTyped

ServiceStep == Service!Next \/ UNCHANGED Service!vars

\* Something happens to a socket, which may end with it; or it ends unreported.
LEMMA HappensIs ==
  ASSUME NEW s \in sockets_, s \in Sockets, KeepsRegistry \/ Loses({s}),
         due' = due \cup {s}, pc # "idle", pc' # "idle"
  PROVE  ServiceStep
<1>1. /\ FreeSockets' = FreeSockets /\ accepted_' = accepted_
      /\ sockets_' = sockets_ \/ sockets_' = sockets_ \ {s}
  BY LosesIs DEF KeepsRegistry, registry
<1>2. Service!Happens(s)
  BY <1>1 DEF Service!Happens, FreeSockets
<1> QED
  BY <1>2 DEF ServiceStep, Service!Next

LEMMA SendFailsIs ==
  ASSUME NEW s \in sockets_, s \in Sockets, Loses({s}), due' = due,
         pc # "idle", pc' # "idle"
  PROVE  ServiceStep
<1>1. Service!SendFails(s)
  BY LosesIs DEF Service!SendFails, FreeSockets
<1> QED
  BY <1>1 DEF ServiceStep, Service!Next

\* A socket is disposed, by its owner or in its callback.
LEMMA DisposeIs ==
  ASSUME NEW s \in Sockets, Loses({s}), due' = due \ {s}, pc' = "idle" <=> pc = "idle"
  PROVE  ServiceStep
<1>1. Service!Dispose(s)
  BY LosesIs DEF Service!Dispose, FreeSockets
<1> QED
  BY <1>1 DEF ServiceStep, Service!Next

LEMMA TellIs ==
  ASSUME NEW s \in Sockets, KeepsRegistry, due' = due \ {s}, pc # "idle", pc' # "idle"
  PROVE  ServiceStep
<1>1. Service!Tell(s)
  BY DEF Service!Tell, KeepsRegistry, FreeSockets, registry
<1> QED
  BY <1>1 DEF ServiceStep, Service!Next

LEMMA ArriveIs ==
  ASSUME ObjectsTyped, NEW s \in Sockets, NEW a \in Addrs, Opens(s, a, FALSE), due' = due,
         pc # "idle", pc' # "idle"
  PROVE  ServiceStep
<1>1. sockets_' = sockets_ /\ accepted_' = Append(accepted_, s)
  BY DEF Opens
<1>2. Service!Arrive(s)
  BY <1>1, OpensIs DEF Service!Arrive, FreeSockets
<1> QED
  BY <1>2 DEF ServiceStep, Service!Next

LEMMA ConnectIs ==
  ASSUME ObjectsTyped, NEW s \in Sockets, NEW a \in Addrs, Connect(s, a)
  PROVE  ServiceStep
<1>1. /\ Opens(s, a, TRUE) /\ due' = due /\ pc = "idle" /\ pc' = "idle"
      /\ sockets_' = sockets_ \cup {s} /\ accepted_' = accepted_
  BY DEF Connect, Allocate, Opens, loop
<1>2. Service!Connect(s)
  BY <1>1, OpensIs DEF Service!Connect, FreeSockets
<1> QED
  BY <1>2 DEF ServiceStep, Service!Next

LEMMA AcceptIs ==
  ASSUME TypeOK, NEW n \in Nat \ {0}, Accept(n)
  PROVE  ServiceStep
<1> DEFINE k == IF n < Len(accepted_) THEN n ELSE Len(accepted_)
<1>1. k \in 1 .. Len(accepted_) /\ k <= Len(accepted_)
  <2>1. accepted_ # <<>> /\ accepted_ \in Seq(Sockets)
    BY DEF Accept, TypeOK, RegistryTyped
  <2>2. Len(accepted_) \in Nat /\ Len(accepted_) >= 1
    BY <2>1, LenProperties, EmptySeq
  <2> QED
    BY <2>2
<1>2. /\ pc = "idle" /\ pc' = "idle" /\ due' = due /\ FreeSockets' = FreeSockets
      /\ accepted_' = SubSeq(accepted_, k + 1, Len(accepted_))
      /\ sockets_' = sockets_ \cup {accepted_[i] : i \in 1 .. k}
  BY DEF Accept, loop, FreeSockets
<1> HIDE DEF k
<1>3. Service!Accept(k)
  BY <1>1, <1>2 DEF Service!Accept, FreeSockets
<1> QED
  BY <1>1, <1>3 DEF ServiceStep, Service!Next

LEMMA PollIs ==
  ASSUME TypeOK, Registered, Reported, NEW max \in MaxActives, NEW late \in SUBSET sockets_,
         NEW quiet \in SUBSET (sockets_ \ late), Poll(max, late, quiet)
  PROVE  ServiceStep
<1>1. pc = "idle" /\ pc' # "idle" /\ due' = late /\ Loses(late) /\ late \in SUBSET Sockets
  BY CloseLoses DEF Poll, Reported, TypeOK, RegistryTyped
<1>2. Service!Poll(late)
  BY <1>1, LosesIs DEF Service!Poll, FreeSockets
<1> QED
  BY <1>2 DEF ServiceStep, Service!Next

LEMMA StepIsServiceStep ==
  ASSUME Inv, Reported, Reported', [Next]_vars
  PROVE  ServiceStep
<1>0. TypeOK /\ Registered /\ Addressed /\ ReportsLive
  BY DEF Inv
<1> USE <1>0
<1>1. ASSUME NEW n \in 1 .. Cardinality(Sockets), Accept(n)
      PROVE  ServiceStep
  <2>1. n \in Nat \ {0}
    BY ManagerAssumption, FS_CardinalityType
  <2> QED
    BY <1>1, <2>1, AcceptIs
<1>2. ASSUME NEW s \in Sockets, NEW x \in Addrs, Connect(s, x)
      PROVE  ServiceStep
  BY <1>2, ConnectIs DEF TypeOK
<1>3. ASSUME NEW s \in Sockets, Dispose(s) PROVE ServiceStep
  <2>1. /\ Loses({s}) \/ KeepsRegistry
        /\ due' = due \ {s} /\ due = {} /\ pc = "idle" /\ pc' = "idle"
    BY <1>3, DeleteLoses DEF Dispose, loop, Reported, TypeOK
  <2> QED
    BY <2>1, DisposeIs, SameService DEF ServiceStep
<1>4. ASSUME NEW s \in Sockets, Write(s) PROVE ServiceStep
  <2>1. KeepsRegistry /\ due' = due /\ (pc' = "idle" <=> pc = "idle")
    BY <1>4 DEF Write, loop, KeepsRegistry, OpenSockets, FreeSockets, object, registry
  <2> QED
    BY <2>1, SameService DEF ServiceStep
<1>5. ASSUME NEW s \in Sockets, SetEtworkSocketNotify(s) PROVE ServiceStep
  <2>1. KeepsRegistry /\ due' = due /\ (pc' = "idle" <=> pc = "idle")
    BY <1>5 DEF SetEtworkSocketNotify, loop, KeepsRegistry, OpenSockets, FreeSockets, object, registry
  <2> QED
    BY <2>1, SameService DEF ServiceStep
<1>6. ASSUME NEW max \in MaxActives, NEW late \in SUBSET sockets_,
             NEW quiet \in SUBSET (sockets_ \ late), Poll(max, late, quiet)
      PROVE  ServiceStep
  BY <1>6, PollIs
<1>7. CASE Select
  <2>1. KeepsRegistry /\ due' = due /\ (pc' = "idle" <=> pc = "idle")
    BY <1>7 DEF Select, Finish, KeepsRegistry, OpenSockets, FreeSockets, object, registry
  <2> QED
    BY <2>1, SameService DEF ServiceStep
<1>8. CASE ListeningRead
  <2>1. KeepsRegistry /\ due' = due /\ (pc' = "idle" <=> pc = "idle")
    BY <1>8 DEF ListeningRead, AfterFd, Finish, KeepsRegistry, OpenSockets, FreeSockets, object, registry
  <2> QED
    BY <2>1, SameService DEF ServiceStep
<1>9. ASSUME NEW s \in Sockets, NEW x \in Addrs, AcceptConnection(s, x)
      PROVE  ServiceStep
  <2>1. Opens(s, x, FALSE) /\ due' = due /\ pc # "idle" /\ pc' # "idle"
    BY <1>9 DEF AcceptConnection, Allocate, Opens, AfterFd, Finish
  <2> QED
    BY <2>1, ArriveIs DEF TypeOK
<1>10. ASSUME NEW s \in Sockets, NEW x \in Addrs, RecvFromStranger(s, x)
       PROVE  ServiceStep
  <2>1. Opens(s, x, FALSE) /\ due' = due /\ pc # "idle" /\ pc' # "idle"
    BY <1>10 DEF RecvFromStranger, Allocate, Opens, loop
  <2> QED
    BY <2>1, ArriveIs DEF TypeOK
<1>11. ASSUME NEW x \in Addrs, RecvFromPeer(x) PROVE ServiceStep
  <2> DEFINE s == socketAddrs_[x]
  <2>1. /\ KeepsRegistry /\ due' = due \cup {s} /\ pc # "idle" /\ pc' # "idle"
        /\ s # NULL /\ taken[s]
    BY <1>11 DEF RecvFromPeer, loop, KeepsRegistry, OpenSockets, FreeSockets, object,
       registry
  <2>2. s \in Sockets /\ s \in sockets_
    BY <2>1 DEF Registered, TypeOK, RegistryTyped
  <2> QED
    BY <2>1, <2>2, HappensIs
<1>12. ASSUME NEW s \in Sockets, ReadsNothing(s) PROVE ServiceStep
  <2>1. KeepsRegistry /\ due' = due /\ (pc' = "idle" <=> pc = "idle")
    BY <1>12 DEF ReadsNothing, ReadHandled, AfterFd, Finish, KeepsRegistry, OpenSockets, FreeSockets, object, registry
  <2> QED
    BY <2>1, SameService DEF ServiceStep
<1>13. ASSUME NEW s \in Sockets, NEW some \in BOOLEAN, ReadsData(s, some)
       PROVE  ServiceStep
  <2>1. /\ KeepsRegistry /\ pc # "idle" /\ pc' # "idle" /\ s \in sockets_
        /\ due' = due \cup {s} \/ due' = due
    BY <1>13 DEF ReadsData, ReadHandled, AfterFd, Finish, KeepsRegistry, OpenSockets,
       FreeSockets, object, registry
  <2> QED
    BY <2>1, HappensIs, SameService DEF ServiceStep
<1>14. ASSUME NEW s \in Sockets, NEW error \in BOOLEAN, ReadsEnd(s, error)
       PROVE  ServiceStep
  <2>1. /\ Loses({s}) /\ pc # "idle" /\ pc' # "idle" /\ s \in sockets_
        /\ due' = due \cup {s}
    BY <1>14, CloseLoses DEF ReadsEnd, ReadHandled, AfterFd, Finish, TypeOK
  <2> QED
    BY <2>1, HappensIs
<1>15. CASE ReadLoopEnds
  <2>1. KeepsRegistry /\ due' = due /\ (pc' = "idle" <=> pc = "idle")
    BY <1>15 DEF ReadLoopEnds, KeepsRegistry, OpenSockets, FreeSockets, object, registry
  <2> QED
    BY <2>1, SameService DEF ServiceStep
<1>16. ASSUME NEW s \in Sockets, WritesNothing(s) PROVE ServiceStep
  <2>1. KeepsRegistry /\ due' = due /\ (pc' = "idle" <=> pc = "idle")
    BY <1>16 DEF WritesNothing, AfterFd, Finish, KeepsRegistry, OpenSockets, FreeSockets, object, registry
  <2> QED
    BY <2>1, SameService DEF ServiceStep
<1>17. ASSUME NEW s \in Sockets, NEW taking \in 0 .. MaxOut, NEW leaves \in BOOLEAN,
              WriteSocket(s, taking, leaves)
       PROVE  ServiceStep
  <2>1. KeepsRegistry /\ due' = due /\ (pc' = "idle" <=> pc = "idle")
    BY <1>17 DEF WriteSocket, AfterFd, Finish, KeepsRegistry, OpenSockets, FreeSockets, object, registry
  <2> QED
    BY <2>1, SameService DEF ServiceStep
<1>18. ASSUME NEW s \in Sockets, WriteFails(s) PROVE ServiceStep
  <2>1. /\ Loses({s}) /\ pc # "idle" /\ pc' # "idle" /\ s \in sockets_
        /\ due' = due
    BY <1>18, CloseLoses DEF WriteFails, AfterFd, Finish, TypeOK
  <2> QED
    BY <2>1, SendFailsIs
<1>19. ASSUME NEW s \in Sockets, ServeSocket(s) PROVE ServiceStep
  <2>1. KeepsRegistry /\ due' = due /\ (pc' = "idle" <=> pc = "idle")
    BY <1>19 DEF ServeSocket, KeepsRegistry, OpenSockets, FreeSockets, object, registry
  <2> QED
    BY <2>1, SameService DEF ServiceStep
<1>20. ASSUME NEW s \in Sockets, NEW sent \in 0 .. MaxOut - 1, NEW blocked \in BOOLEAN,
              ServeFails(s, sent, blocked)
       PROVE  ServiceStep
  <2>1. KeepsRegistry /\ due' = due /\ (pc' = "idle" <=> pc = "idle")
    BY <1>20 DEF ServeFails, AfterFd, Finish, KeepsRegistry, OpenSockets, FreeSockets, object, registry
  <2> QED
    BY <2>1, SameService DEF ServiceStep
<1>21. CASE ListeningWritten
  <2>1. KeepsRegistry /\ due' = due /\ (pc' = "idle" <=> pc = "idle")
    BY <1>21 DEF ListeningWritten, AfterFd, Finish, KeepsRegistry, OpenSockets, FreeSockets, object, registry
  <2> QED
    BY <2>1, SameService DEF ServiceStep
<1>22. CASE WriteLoopEnds
  <2>1. KeepsRegistry /\ due' = due /\ (pc' = "idle" <=> pc = "idle")
    BY <1>22 DEF WriteLoopEnds, KeepsRegistry, OpenSockets, FreeSockets, object, registry
  <2> QED
    BY <2>1, SameService DEF ServiceStep
<1>23. ASSUME NEW s \in Sockets, ExceptNoError(s) PROVE ServiceStep
  <2>1. KeepsRegistry /\ due' = due /\ (pc' = "idle" <=> pc = "idle")
    BY <1>23 DEF ExceptNoError, AfterFd, Finish, KeepsRegistry, OpenSockets, FreeSockets, object, registry
  <2> QED
    BY <2>1, SameService DEF ServiceStep
<1>24. ASSUME NEW s \in Sockets, ExceptError(s) PROVE ServiceStep
  <2>1. /\ Loses({s}) /\ pc # "idle" /\ pc' # "idle" /\ s \in sockets_
        /\ due' = due \cup {s}
    BY <1>24, CloseLoses DEF ExceptError, AfterFd, Finish, TypeOK
  <2> QED
    BY <2>1, HappensIs
<1>25. CASE ListeningExcept
  <2>1. KeepsRegistry /\ due' = due /\ (pc' = "idle" <=> pc = "idle")
    BY <1>25 DEF ListeningExcept, AfterFd, Finish, KeepsRegistry, OpenSockets, FreeSockets, object, registry
  <2> QED
    BY <2>1, SameService DEF ServiceStep
<1>26. CASE RoundEnds
  <2>1. KeepsRegistry /\ due' = due /\ (pc' = "idle" <=> pc = "idle")
    BY <1>26 DEF RoundEnds, Finish, KeepsRegistry, OpenSockets, FreeSockets, object, registry
  <2> QED
    BY <2>1, SameService DEF ServiceStep
<1>27. ASSUME NEW s \in Sockets, NEW disposes \in BOOLEAN, Callback(s, disposes)
       PROVE  ServiceStep
  <2>1. Held(s) /\ pc # "idle" /\ pc' # "idle"
    BY <1>27 DEF Callback, ReportsLive, loop
  <2>2. CASE notify[s]
    <3>1. Loses({s}) \/ KeepsRegistry
      BY <1>27, <2>1, DeleteLoses DEF Callback, KeepsRegistry, OpenSockets, FreeSockets,
         TypeOK
    <3>2. due' = due \ {s}
      BY <1>27, <2>2 DEF Callback
    <3> QED
      BY <2>1, <3>1, <3>2, DisposeIs, TellIs
  <2>3. CASE ~notify[s]
    <3>1. KeepsRegistry /\ due' = due
      BY <1>27, <2>3 DEF Callback, KeepsRegistry, OpenSockets, FreeSockets
    <3> QED
      BY <2>1, <3>1, SameService DEF ServiceStep
  <2> QED
    BY <2>2, <2>3
<1>28. CASE PollReturns
  <2>1. KeepsRegistry /\ pc # "idle" /\ pc' = "idle" /\ due' = {}
    BY <1>28 DEF PollReturns, Reported, KeepsRegistry, OpenSockets, FreeSockets, object,
       registry
  <2>2. Service!PollReturns
    BY <2>1 DEF Service!PollReturns, KeepsRegistry, FreeSockets, registry
  <2> QED
    BY <2>2 DEF ServiceStep, Service!Next
<1>29. CASE UNCHANGED vars
  <2>1. KeepsRegistry /\ due' = due /\ (pc' = "idle" <=> pc = "idle")
    BY <1>29 DEF vars, loop, KeepsRegistry, OpenSockets, FreeSockets, object, registry
  <2> QED
    BY <2>1, SameService DEF ServiceStep
<1> QED
  BY <1>1, <1>2, <1>3, <1>4, <1>5, <1>6, <1>7, <1>8, <1>9, <1>10, <1>11,
     <1>12, <1>13, <1>14, <1>15, <1>16, <1>17, <1>18, <1>19, <1>20, <1>21,
     <1>22, <1>23, <1>24, <1>25, <1>26, <1>27, <1>28, <1>29 DEF Next,
     Application, Reading, Writing, Excepting

\* To the application the manager is a SocketService, whatever the sockets, the
\* addresses and the bounds: a socket is handed out once, connections in the
\* order in which they came, none works again once it has ended or is disposed,
\* and a poll that returns has told of everything but failures of send().
THEOREM ManagerIsService == Spec => IsSocketService
<1>1. Init => Service!Init
  BY DEF Init, Service!Init
<1>2. Inv /\ Reported /\ Reported' /\ [Next]_vars => [Service!Next]_(Service!vars)
  BY StepIsServiceStep DEF ServiceStep
<1>3. Spec => Service!Spec
  BY <1>1, <1>2, Invariance, ReportedHolds, PTL DEF Spec, Service!Spec
<1> QED
  BY <1>3 DEF IsSocketService
=============================================================================

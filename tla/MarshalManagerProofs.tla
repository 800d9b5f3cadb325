------------------------ MODULE MarshalManagerProofs ------------------------
(***************************************************************************)
(* Proofs about MarshalManager for any number of types, whatever they      *)
(* contain and whatever ids they have.                                     *)
(*                                                                         *)
(* OnePlace is inductive by itself.  That what is found is complete needs  *)
(* to know, of each resolve() that is running, that the members it has     *)
(* passed are found (Passed), and FoundById that each carries the id its   *)
(* type was registered with (OwnIds).  What startup() tells needs that     *)
(* what is found is in order (InOrder), that no type is lost before        *)
(* something fails (NoneLost), and that the stack goes down any order of   *)
(* all types (Asked): a member that is nowhere, and registered, is in the  *)
(* stack above itself.                                                     *)
(***************************************************************************)
EXTENDS MarshalManager, TLAPS, SequenceTheorems, FiniteSetTheorems

Frames == [type : Types, next : Nat \ {0}, mSize : Nat, id : Ids \cup {0},
           recursive : BOOLEAN]

\* Besides TablesTyped: the kinds of what it does not mention.
Kinds ==
  /\ stack \in Seq(Frames)
  /\ maxMarshalledSize_ \in [Types -> Nat]
  /\ \A t \in DOMAIN toResolve_ : toResolve_[t] \in Ids \cup {0}

\* Nothing is resolved before main(), and resolve() runs only in calls.
Calls ==
  /\ stack # <<>> => phase \in {"startup", "lookup"}
  /\ phase = "static" => stringMarshallers_ = {} /\ toResolve_ = registered

\* What a running resolve() has passed is found.
Passed ==
  \A i \in DOMAIN stack : \A k \in 1 .. stack[i].next - 1 :
    descs_[stack[i].type][k] \in stringMarshallers_

MembersFound ==
  \A t \in stringMarshallers_ : ToSet(descs_[t]) \subseteq stringMarshallers_

\* A type keeps the id it was registered with.
OwnIds ==
  /\ \A t \in DOMAIN toResolve_ :
       t \in DOMAIN registered /\ toResolve_[t] = registered[t]
  /\ \A i \in DOMAIN stack :
       stack[i].type \in DOMAIN registered /\ stack[i].id = registered[stack[i].type]
  /\ stringMarshallers_ \subseteq DOMAIN registered

Good ==
  /\ TablesTyped /\ Kinds /\ Calls /\ OnePlace
  /\ Passed /\ MembersFound /\ OwnIds /\ FoundById

-----------------------------------------------------------------------------
LEMMA GoodInit == ASSUME ManagerInit PROVE Good
<1> USE ManagerAssumption DEF ManagerInit
<1>1. /\ DOMAIN stack = {} /\ DOMAIN toResolve_ = {} /\ DOMAIN intMarshallers_ = {}
      /\ stringMarshallers_ = {} /\ toResolve_ = registered
  OBVIOUS
<1>2. TablesTyped /\ Calls /\ OnePlace
  BY <1>1 DEF TablesTyped, Calls, OnePlace
<1>3. Kinds
  BY <1>1 DEF Kinds
<1>4. Passed /\ MembersFound /\ OwnIds /\ FoundById
  BY <1>1 DEF Passed, MembersFound, OwnIds, FoundById
<1> QED
  BY <1>2, <1>3, <1>4 DEF Good

\* A call of resolve() for t.
LEMMA ResolveIs ==
  ASSUME Good, NEW t \in DOMAIN toResolve_, NEW recursive \in BOOLEAN,
         Resolve(t, recursive)
  PROVE  LET n == Len(stack)
         IN  /\ t \in Types
             /\ DOMAIN toResolve_' = DOMAIN toResolve_ \ {t}
             /\ \A u \in DOMAIN toResolve_ \ {t} : toResolve_'[u] = toResolve_[u]
             /\ UNCHANGED <<descs_, stringMarshallers_, intMarshallers_,
                            maxMarshalledSize_, startup, registered>>
             /\ n \in Nat /\ DOMAIN stack = 1 .. n
             /\ stack' \in Seq(Frames) /\ DOMAIN stack' = 1 .. n + 1
             /\ stack'[n + 1].type = t /\ stack'[n + 1].next = 1
             /\ stack'[n + 1].mSize = 1 /\ stack'[n + 1].id = toResolve_[t]
             /\ \A i \in DOMAIN stack : stack'[i] = stack[i]
<1> DEFINE frame == [type |-> t, next |-> 1, mSize |-> 1, id |-> toResolve_[t],
                     recursive |-> recursive]
<1> USE ManagerAssumption DEF Good
<1>1. /\ stack' = Append(stack, frame)
      /\ DOMAIN toResolve_' = DOMAIN toResolve_ \ {t}
      /\ \A u \in DOMAIN toResolve_ \ {t} : toResolve_'[u] = toResolve_[u]
      /\ UNCHANGED <<descs_, stringMarshallers_, intMarshallers_, maxMarshalledSize_,
                     startup, registered>>
  BY DEF Resolve, Taken, Without
<1>2. t \in Types /\ frame \in Frames /\ stack \in Seq(Frames)
  BY DEF TablesTyped, Kinds, Frames
<1>3. frame.type = t /\ frame.next = 1 /\ frame.mSize = 1 /\ frame.id = toResolve_[t]
  OBVIOUS
<1> HIDE DEF frame
<1>4. /\ stack' \in Seq(Frames) /\ DOMAIN stack' = 1 .. Len(stack) + 1
      /\ DOMAIN stack = 1 .. Len(stack) /\ Len(stack) \in Nat
      /\ stack'[Len(stack) + 1] = frame
      /\ \A i \in DOMAIN stack : stack'[i] = stack[i]
  BY <1>1, <1>2, AppendProperties, LenProperties
<1> QED
  BY <1>1, <1>2, <1>3, <1>4

LEMMA ResolveGood ==
  ASSUME Good, NEW t \in DOMAIN toResolve_, NEW recursive \in BOOLEAN,
         Resolve(t, recursive), phase' \in {"startup", "lookup"}
  PROVE  Good'
<1> DEFINE n == Len(stack)
<1> USE ManagerAssumption DEF Good
<1>1. /\ DOMAIN toResolve_' = DOMAIN toResolve_ \ {t}
      /\ \A u \in DOMAIN toResolve_ \ {t} : toResolve_'[u] = toResolve_[u]
      /\ UNCHANGED <<descs_, stringMarshallers_, intMarshallers_, maxMarshalledSize_,
                     startup, registered>>
  BY ResolveIs
<1>2. t \in Types
  BY ResolveIs
<1>3. /\ stack' \in Seq(Frames) /\ DOMAIN stack' = 1 .. n + 1
      /\ DOMAIN stack = 1 .. n /\ n \in Nat
      /\ \A i \in DOMAIN stack : stack'[i] = stack[i]
  BY ResolveIs
<1>4. /\ stack'[n + 1].type = t /\ stack'[n + 1].next = 1
      /\ stack'[n + 1].id = toResolve_[t]
  BY ResolveIs
<1> HIDE DEF n
<1>5. \A i \in DOMAIN stack' : i \in DOMAIN stack \/ i = n + 1
  BY <1>3
<1>6. TablesTyped'
  <2>1. \A i \in DOMAIN stack' :
          stack'[i].type \in Types /\ stack'[i].next \in 1 .. Len(descs_[stack'[i].type]) + 1
    <3>1. Len(descs_[t]) \in Nat
      <4>1. descs_[t] \in Seq(Types)
        BY <1>2 DEF TablesTyped
      <4> QED
        BY <4>1, LenProperties
    <3>2. ASSUME NEW i \in DOMAIN stack
          PROVE  /\ stack[i].type \in Types
                 /\ stack[i].next \in 1 .. Len(descs_[stack[i].type]) + 1
      BY DEF TablesTyped
    <3>3. 1 \in 1 .. Len(descs_[t]) + 1
      BY <3>1
    <3> QED
      BY <1>2, <1>3, <1>4, <1>5, <3>2, <3>3
  <2> QED
    BY <1>1, <2>1 DEF TablesTyped
<1>7. Kinds' /\ Calls'
  BY <1>1, <1>3 DEF Kinds, Calls
<1>8. OnePlace'
  <2>1. t \notin stringMarshallers_ /\ n + 1 \notin DOMAIN stack
    BY <1>3 DEF OnePlace
  <2>2. \A i \in DOMAIN stack : stack'[i].type \notin DOMAIN toResolve_ \cup stringMarshallers_
    BY <1>3 DEF OnePlace
  <2>3. \A i, j \in DOMAIN stack : stack'[i].type = stack'[j].type => i = j
    BY <1>3 DEF OnePlace
  <2>4. \A i, j \in DOMAIN stack' : stack'[i].type = stack'[j].type => i = j
    BY <1>4, <1>5, <2>1, <2>2, <2>3
  <2>5. DOMAIN toResolve_' \cap stringMarshallers_ = {}
    BY <1>1 DEF OnePlace
  <2>6. \A i \in DOMAIN stack' : stack'[i].type \notin DOMAIN toResolve_' \cup stringMarshallers_
    BY <1>1, <1>4, <1>5, <2>1, <2>2
  <2> QED
    BY <1>1, <2>4, <2>5, <2>6 DEF OnePlace
<1>9. Passed' /\ MembersFound' /\ FoundById'
  <2>1. \A i \in DOMAIN stack : \A k \in 1 .. stack[i].next - 1 :
          descs_[stack[i].type][k] \in stringMarshallers_
    BY DEF Passed
  <2>2. \A k \in 1 .. stack'[n + 1].next - 1 : FALSE
    BY <1>4
  <2>3. Passed'
    BY <1>1, <1>3, <1>5, <2>1, <2>2 DEF Passed
  <2> QED
    BY <1>1, <2>3 DEF MembersFound, FoundById
<1>10. OwnIds'
  BY <1>1, <1>3, <1>4, <1>5 DEF OwnIds
<1> QED
  BY <1>6, <1>7, <1>8, <1>9, <1>10

\* The end of a resolve(): its type is found, by name and by its id.
LEMMA ResolvedIs ==
  ASSUME Good, Resolved
  PROVE  LET n == Len(stack)
         IN  /\ n \in Nat \ {0} /\ DOMAIN stack = 1 .. n /\ n \in DOMAIN stack
             /\ Top.type \in Types /\ Top.id \in Ids \cup {0} /\ Top.mSize \in Nat
             /\ Top.next = Len(descs_[Top.type]) + 1
             /\ stack' \in Seq(Frames) /\ DOMAIN stack' = 1 .. n - 1
             /\ \A i \in DOMAIN stack' : i \in DOMAIN stack /\ i # n /\ stack'[i] = stack[i]
             /\ stringMarshallers_' = stringMarshallers_ \cup {Top.type}
             /\ UNCHANGED <<descs_, toResolve_, startup, registered>>
             /\ maxMarshalledSize_' = [maxMarshalledSize_ EXCEPT ![Top.type] = Top.mSize]
             /\ Top.type \notin DOMAIN toResolve_ \cup stringMarshallers_
<1> USE ManagerAssumption DEF Good
<1>1. /\ stack \in Seq(Frames) /\ stack # << >> /\ Len(stack) \in Nat \ {0}
      /\ DOMAIN stack = 1 .. Len(stack)
  BY LenProperties, EmptySeq DEF Resolved, Kinds
<1>2. /\ Len(stack) \in DOMAIN stack
      /\ Top.type \in Types /\ Top.id \in Ids \cup {0} /\ Top.mSize \in Nat
      /\ Top.next = Len(descs_[Top.type]) + 1
  <2>1. Len(stack) \in DOMAIN stack /\ Top \in Frames
    BY <1>1 DEF Top
  <2>2. Top.next \in 1 .. Len(descs_[Top.type]) + 1
    BY <2>1 DEF Top, TablesTyped
  <2>3. Len(descs_[Top.type]) \in Nat
    <3>1. descs_[Top.type] \in Seq(Types)
      BY <2>1 DEF TablesTyped, Frames
    <3> QED
      BY <3>1, LenProperties
  <2> QED
    BY <2>1, <2>2, <2>3 DEF Frames, Resolved, More
<1>3. /\ stack' \in Seq(Frames) /\ DOMAIN stack' = 1 .. Len(stack) - 1
      /\ \A i \in DOMAIN stack' : i \in DOMAIN stack /\ i # Len(stack) /\ stack'[i] = stack[i]
  <2>1. stack' = SubSeq(stack, 1, Len(stack) - 1)
    BY DEF Resolved, Front
  <2>2. Len(stack') = Len(stack) - 1 /\ stack' \in Seq(Frames)
    BY <1>1, <2>1, SubSeqProperties
  <2>3. \A i \in 1 .. Len(stack) - 1 : stack'[i] = stack[i]
    BY <1>1, <2>1, SubSeqProperties
  <2> QED
    BY <1>1, <2>2, <2>3, LenProperties
<1>4. /\ stringMarshallers_' = stringMarshallers_ \cup {Top.type}
      /\ UNCHANGED <<descs_, toResolve_, startup, registered>>
      /\ maxMarshalledSize_' = [maxMarshalledSize_ EXCEPT ![Top.type] = Top.mSize]
  BY DEF Resolved
<1>5. Top.type \notin DOMAIN toResolve_ \cup stringMarshallers_
  BY <1>2 DEF OnePlace, Top
<1> QED
  BY <1>1, <1>2, <1>3, <1>4, <1>5

LEMMA ResolvedGood ==
  ASSUME Good, Resolved
  PROVE  Good'
<1> USE ManagerAssumption DEF Good
<1>1. /\ stack # << >> /\ Len(stack) \in Nat \ {0} /\ DOMAIN stack = 1 .. Len(stack)
  BY ResolvedIs DEF Resolved
<1>2. /\ Len(stack) \in DOMAIN stack
      /\ Top.type \in Types /\ Top.id \in Ids \cup {0} /\ Top.mSize \in Nat
      /\ Top.next = Len(descs_[Top.type]) + 1
  BY ResolvedIs
<1>3. /\ stack' \in Seq(Frames) /\ DOMAIN stack' = 1 .. Len(stack) - 1
      /\ \A i \in DOMAIN stack' : i \in DOMAIN stack /\ i # Len(stack) /\ stack'[i] = stack[i]
  BY ResolvedIs
<1>4. /\ stringMarshallers_' = stringMarshallers_ \cup {Top.type}
      /\ UNCHANGED <<descs_, toResolve_, startup, registered>>
      /\ maxMarshalledSize_' = [maxMarshalledSize_ EXCEPT ![Top.type] = Top.mSize]
  BY ResolvedIs
<1>5. /\ Top.id = 0 => intMarshallers_' = intMarshallers_
      /\ Top.id # 0 =>
           /\ DOMAIN intMarshallers_' = DOMAIN intMarshallers_ \cup {Top.id}
           /\ \A id \in DOMAIN intMarshallers_' :
                intMarshallers_'[id] = IF id = Top.id THEN Top.type ELSE intMarshallers_[id]
  BY DEF Resolved, ById, With
<1>6. /\ Top.type \in DOMAIN registered /\ Top.id = registered[Top.type]
      /\ Top.type \notin DOMAIN toResolve_ \cup stringMarshallers_
  BY <1>2 DEF OwnIds, OnePlace, Top
<1>7. TablesTyped'
  <2>1. \A id \in DOMAIN intMarshallers_' : id \in Ids /\ intMarshallers_'[id] \in Types
    BY <1>2, <1>5 DEF TablesTyped
  <2>2. phase' \in {"static", "main", "startup", "lookup", "aborted"}
    BY DEF Resolved, TablesTyped
  <2>3. \A i \in DOMAIN stack' :
          stack'[i].type \in Types /\ stack'[i].next \in 1 .. Len(descs_[stack'[i].type]) + 1
    BY <1>3 DEF TablesTyped
  <2> QED
    BY <1>2, <1>4, <2>1, <2>2, <2>3 DEF TablesTyped
<1>8. Kinds'
  BY <1>2, <1>3, <1>4 DEF Kinds
<1>9. Calls'
  <2>1. phase \in {"startup", "lookup"}
    BY <1>1 DEF Calls
  <2>2. stack' # << >> => Len(stack) # 1
    BY <1>1, <1>3, EmptySeq, LenProperties
  <2> QED
    BY <2>1, <2>2 DEF Resolved, Calls
<1>10. OnePlace'
  BY <1>2, <1>3, <1>4, <1>6 DEF OnePlace, Top
<1>11. Passed'
  BY <1>3, <1>4 DEF Passed
<1>12. MembersFound'
  <2>2. descs_[Top.type] \in Seq(Types)
    BY <1>2 DEF TablesTyped
  <2>3. DOMAIN descs_[Top.type] = 1 .. Len(descs_[Top.type]) /\ Len(descs_[Top.type]) \in Nat
    BY <2>2, LenProperties
  <2>4. \A k \in DOMAIN descs_[Top.type] : descs_[Top.type][k] \in stringMarshallers_
    BY <1>2, <2>3 DEF Passed, Top
  <2> QED
    BY <1>4, <2>4 DEF MembersFound, ToSet
<1>13. OwnIds'
  BY <1>3, <1>4, <1>6 DEF OwnIds
<1>14. FoundById'
  BY <1>4, <1>5, <1>6 DEF FoundById, OwnIds
<1> QED
  BY <1>7, <1>8, <1>9, <1>10, <1>11, <1>12, <1>13, <1>14

LEMMA FrameCounts ==
  ASSUME NEW f \in Frames, f.next + 1 \in Nat \ {0}, NEW size, f.mSize + size \in Nat
  PROVE  LET g == [f EXCEPT !.next = @ + 1, !.mSize = @ + size]
         IN  /\ g \in Frames /\ g.type = f.type /\ g.next = f.next + 1
             /\ g.mSize = f.mSize + size /\ g.id = f.id
  BY DEF Frames

\* A member that is found.
LEMMA AddMemberIs ==
  ASSUME Good, AddMember
  PROVE  LET n == Len(stack)
         IN  /\ n \in Nat \ {0} /\ DOMAIN stack = 1 .. n /\ n \in DOMAIN stack
             /\ Top.type \in Types /\ Top.next \in 1 .. Len(descs_[Top.type])
             /\ Top.next \in Nat /\ Top.mSize \in Nat
             /\ descs_[Top.type] \in Seq(Types) /\ Len(descs_[Top.type]) \in Nat
             /\ Wanted = descs_[Top.type][Top.next] /\ Wanted \in stringMarshallers_
             /\ maxMarshalledSize_[Wanted] \in Nat
             /\ UNCHANGED <<descs_, tables, maxMarshalledSize_, phase, startup, registered>>
             /\ stack' \in Seq(Frames) /\ DOMAIN stack' = DOMAIN stack /\ stack' # << >>
             /\ stack'[n].type = Top.type /\ stack'[n].next = Top.next + 1
             /\ stack'[n].mSize = Top.mSize + maxMarshalledSize_[Wanted]
             /\ stack'[n].id = Top.id
             /\ \A i \in DOMAIN stack : i # n => stack'[i] = stack[i]
<1> USE ManagerAssumption DEF Good
<1>1. /\ stack \in Seq(Frames) /\ stack # << >> /\ Len(stack) \in Nat \ {0}
      /\ DOMAIN stack = 1 .. Len(stack)
  BY LenProperties, EmptySeq DEF AddMember, Kinds
<1>2. /\ Len(stack) \in DOMAIN stack /\ Top \in Frames
      /\ Top.next \in 1 .. Len(descs_[Top.type])
      /\ descs_[Top.type] \in Seq(Types) /\ Len(descs_[Top.type]) \in Nat
  <2>1. Len(stack) \in DOMAIN stack /\ Top \in Frames
    BY <1>1 DEF Top
  <2>2. Top.next \in 1 .. Len(descs_[Top.type]) + 1
    BY <2>1 DEF Top, TablesTyped
  <2>3. Top.next <= Len(descs_[Top.type])
    BY DEF AddMember, More
  <2>4. descs_[Top.type] \in Seq(Types)
    BY <2>1 DEF TablesTyped, Frames
  <2>5. Len(descs_[Top.type]) \in Nat
    BY <2>4, LenProperties
  <2> QED
    BY <2>1, <2>2, <2>3, <2>4, <2>5
<1>3. /\ Wanted = descs_[Top.type][Top.next] /\ Wanted \in stringMarshallers_
      /\ Wanted \in Types /\ maxMarshalledSize_[Wanted] \in Nat
  BY DEF AddMember, Wanted, TablesTyped, Kinds
<1> DEFINE frame == [Top EXCEPT !.next = @ + 1, !.mSize = @ + maxMarshalledSize_[Wanted]]
<1>4. /\ frame \in Frames /\ frame.type = Top.type /\ frame.next = Top.next + 1
      /\ frame.mSize = Top.mSize + maxMarshalledSize_[Wanted] /\ frame.id = Top.id
  <2>1. Top.mSize + maxMarshalledSize_[Wanted] \in Nat /\ Top.next + 1 \in Nat \ {0}
    BY <1>2, <1>3 DEF Frames
  <2> QED
    BY <1>2, <2>1, FrameCounts
<1>5. stack' = [stack EXCEPT ![Len(stack)] = frame]
  BY <1>1, <1>2 DEF AddMember, Top, Frames
<1> HIDE DEF frame
<1>6. /\ stack' \in Seq(Frames) /\ DOMAIN stack' = DOMAIN stack
      /\ stack'[Len(stack)] = frame
      /\ \A i \in DOMAIN stack : i # Len(stack) => stack'[i] = stack[i]
      /\ stack' # << >>
  BY <1>1, <1>2, <1>4, <1>5, ExceptSeq, EmptySeq
<1>7. UNCHANGED <<descs_, tables, maxMarshalledSize_, phase, startup, registered>>
  BY DEF AddMember
<1> QED
  BY <1>1, <1>2, <1>3, <1>4, <1>6, <1>7 DEF Frames

LEMMA AddMemberGood ==
  ASSUME Good, AddMember
  PROVE  Good'
<1> USE ManagerAssumption DEF Good
<1>1. /\ Len(stack) \in Nat \ {0} /\ DOMAIN stack = 1 .. Len(stack)
      /\ Len(stack) \in DOMAIN stack /\ stack # << >>
  BY AddMemberIs DEF AddMember
<1>2. /\ Top.next \in 1 .. Len(descs_[Top.type]) /\ Top.next \in Nat
      /\ Top.type \in Types /\ Len(descs_[Top.type]) \in Nat
      /\ descs_[Top.type][Top.next] \in stringMarshallers_
  BY AddMemberIs
<1>6. /\ stack' \in Seq(Frames) /\ DOMAIN stack' = DOMAIN stack /\ stack' # << >>
      /\ stack'[Len(stack)].type = Top.type /\ stack'[Len(stack)].next = Top.next + 1
      /\ stack'[Len(stack)].id = Top.id
      /\ \A i \in DOMAIN stack : i # Len(stack) => stack'[i] = stack[i]
  BY AddMemberIs
<1>7. UNCHANGED <<descs_, tables, maxMarshalledSize_, phase, startup, registered>>
  BY DEF AddMember
<1>8. /\ \A i \in DOMAIN stack' : stack'[i].type = stack[i].type /\ stack'[i].id = stack[i].id
      /\ \A i \in DOMAIN stack' : i # Len(stack) => stack'[i].next = stack[i].next
  BY <1>6 DEF Top
<1>9. TablesTyped'
  <2>1. ASSUME NEW i \in DOMAIN stack'
        PROVE  /\ stack'[i].type \in Types
               /\ stack'[i].next \in 1 .. Len(descs_[stack'[i].type]) + 1
    <3>1. CASE i = Len(stack)
      BY <1>2, <1>6, <1>7, <3>1 DEF tables
    <3>2. CASE i # Len(stack)
      BY <1>6, <3>2 DEF TablesTyped
    <3> QED
      BY <3>1, <3>2
  <2> QED
    BY <1>7, <2>1 DEF TablesTyped, tables
<1>10. Kinds' /\ Calls' /\ MembersFound' /\ FoundById'
  BY <1>1, <1>6, <1>7 DEF Kinds, Calls, MembersFound, FoundById, tables
<1>13. OnePlace'
  BY <1>6, <1>7, <1>8 DEF OnePlace, tables
<1>11. OwnIds'
  BY <1>6, <1>7, <1>8 DEF OwnIds, tables
<1>12. Passed'
  <2>1. ASSUME NEW i \in DOMAIN stack', NEW k \in 1 .. stack'[i].next - 1
        PROVE  descs_[stack'[i].type][k] \in stringMarshallers_
    <3>1. CASE i = Len(stack)
      <4>1. k \in 1 .. Top.next /\ stack'[i].type = Top.type /\ Top.next \in Nat
        BY <1>2, <1>6, <2>1, <3>1
      <4>2. CASE k = Top.next
        BY <1>2, <4>1, <4>2
      <4>3. CASE k \in 1 .. Top.next - 1
        BY <1>1, <1>2, <4>1, <4>3 DEF Passed, Top
      <4> QED
        BY <4>1, <4>2, <4>3
    <3>2. CASE i # Len(stack)
      BY <1>6, <2>1, <3>2 DEF Passed
    <3> QED
      BY <3>1, <3>2
  <2> QED
    BY <1>7, <2>1 DEF Passed, tables
<1> QED
  BY <1>9, <1>10, <1>11, <1>12, <1>13

\* One that is nowhere.
LEMMA UnwindGood ==
  ASSUME Good, Unwind
  PROVE  Good'
<1> USE DEF Good
<1>1. /\ stack' = << >> /\ phase' = "main" /\ startup' \in {"error", startup}
      /\ UNCHANGED <<descs_, tables, maxMarshalledSize_, registered>>
  BY DEF Unwind
<1>2. DOMAIN stack' = {} /\ stack' \in Seq(Frames)
  BY <1>1
<1>3. TablesTyped' /\ Kinds' /\ Calls' /\ OnePlace'
  BY <1>1, <1>2 DEF TablesTyped, Kinds, Calls, OnePlace, tables
<1> QED
  BY <1>1, <1>2, <1>3 DEF Passed, MembersFound, OwnIds, FoundById, tables

\* Before main().
LEMMA SetMarshallerGood ==
  ASSUME Good, NEW t \in Types, NEW id \in Ids \cup {0}, SetMarshaller(t, id)
  PROVE  Good'
<1> USE DEF Good
<1>1. /\ phase = "static" /\ stack = << >> /\ stringMarshallers_ = {}
      /\ toResolve_ = registered
      /\ UNCHANGED <<descs_, stringMarshallers_, intMarshallers_, id_,
                     maxMarshalledSize_, stack, startup>>
  BY DEF SetMarshaller, Calls
<1>2. CASE t \in DOMAIN toResolve_ /\ phase' = "aborted" /\ UNCHANGED <<toResolve_, registered>>
  BY <1>1, <1>2 DEF TablesTyped, Kinds, Calls, OnePlace, Passed, MembersFound, OwnIds, FoundById
<1>3. CASE /\ toResolve_' = With(toResolve_, t, id)
           /\ registered' = With(registered, t, id) /\ phase' = phase
  <2>1. /\ toResolve_' = registered' /\ DOMAIN toResolve_' = DOMAIN toResolve_ \cup {t}
        /\ \A u \in DOMAIN toResolve_' : toResolve_'[u] = IF u = t THEN id ELSE toResolve_[u]
    BY <1>1, <1>3 DEF With
  <2>2. DOMAIN stack = {}
    BY <1>1
  <2>3. TablesTyped' /\ Kinds' /\ Calls' /\ OnePlace'
    BY <1>1, <1>3, <2>1, <2>2 DEF TablesTyped, Kinds, Calls, OnePlace
  <2>4. Passed' /\ MembersFound' /\ OwnIds' /\ FoundById'
    BY <1>1, <2>1, <2>2 DEF Passed, MembersFound, OwnIds, FoundById
  <2> QED
    BY <2>3, <2>4
<1> QED
  BY <1>2, <1>3 DEF SetMarshaller

LEMMA GoodNext ==
  ASSUME Good, [ManagerNext]_managerVars
  PROVE  Good'
<1>1. ASSUME NEW t \in Types, NEW id \in Ids \cup {0}, SetMarshaller(t, id)
      PROVE  Good'
  BY <1>1, SetMarshallerGood
<1>2. CASE Startup
  <2>1. phase = "static" /\ phase' = "startup" /\ stack' = stack
        /\ UNCHANGED <<descs_, tables, maxMarshalledSize_, startup, registered>>
    BY <1>2 DEF Startup
  <2> QED
    BY <2>1 DEF Good, TablesTyped, Kinds, Calls, OnePlace, Passed, MembersFound, OwnIds,
                FoundById, tables
<1>3. ASSUME NEW t \in Types, Lookup(t)
      PROVE  Good'
  BY <1>3, ResolveGood DEF Lookup
<1>4. CASE ResolveNext
  BY <1>4, ResolveGood DEF ResolveNext
<1>5. CASE ResolveMember
  <2>1. phase' \in {"startup", "lookup"}
    BY <1>5 DEF ResolveMember, Good, Calls
  <2> QED
    BY <1>5, <2>1, ResolveGood DEF ResolveMember
<1>6. CASE StartupReturns
  <2>1. /\ startup' = "ok" /\ phase' = "main" /\ stack = << >>
        /\ UNCHANGED <<descs_, tables, maxMarshalledSize_, stack, registered>>
    BY <1>6 DEF StartupReturns
  <2> QED
    BY <2>1 DEF Good, TablesTyped, Kinds, Calls, OnePlace, Passed, MembersFound, OwnIds,
                FoundById, tables
<1>7. CASE UNCHANGED managerVars
  BY <1>7 DEF managerVars, tables, Good, TablesTyped, Kinds, Calls, OnePlace, Passed, MembersFound,
              OwnIds, FoundById
<1> QED
  BY <1>1, <1>2, <1>3, <1>4, <1>5, <1>6, <1>7, AddMemberGood, ResolvedGood, UnwindGood
  DEF ManagerNext, Work

LEMMA AlwaysGood == ManagerSpec => []Good
<1>1. ManagerInit => Good
  BY GoodInit
<1>2. Good /\ [ManagerNext]_managerVars => Good'
  BY GoodNext
<1> QED
  BY <1>1, <1>2, PTL DEF ManagerSpec

\* Every variable keeps its type, whatever the types contain.
THEOREM TypeCorrect == ManagerSpec => []TablesTyped
<1>1. Good => TablesTyped
  BY DEF Good
<1> QED
  BY <1>1, AlwaysGood, PTL

\* A registered type is waiting, being resolved once, or found: a circle does
\* not come back to a type that is being resolved (marshal.cpp 598-603).
THEOREM OnePlaceHolds == ManagerSpec => []OnePlace
<1>1. Good => OnePlace
  BY DEF Good
<1> QED
  BY <1>1, AlwaysGood, PTL

\* A type that is found by name, with an id of its own, is found by this id,
\* also when it was resolved inside another (marshal.cpp 654-656).
THEOREM FoundByIdHolds == ManagerSpec => []FoundById
<1>1. Good => FoundById
  BY DEF Good
<1> QED
  BY <1>1, AlwaysGood, PTL


-----------------------------------------------------------------------------
(* Sizes, and what startup() tells. *)

\* What each running resolve() has added up, and what is found.
Sized ==
  \A i \in DOMAIN stack : AddsUp(stack[i].type, stack[i].next - 1, stack[i].mSize)

FoundSizes ==
  \A t \in stringMarshallers_ : AddsUp(t, Len(descs_[t]), maxMarshalledSize_[t])

\* rank has each type of S after its members, which are in S.
Follows(rank, S) ==
  \A t \in S : \A m \in ToSet(descs_[t]) : m \in S /\ rank[m] < rank[t]

\* The types that are found can be put in an order: that in which they were.
InOrder ==
  \E rank \in [stringMarshallers_ -> 1 .. Cardinality(stringMarshallers_)] :
    Follows(rank, stringMarshallers_)

\* Who runs resolve() was asked for by the one below it in the stack, which any
\* order of all registered types would have after it.
Asked ==
  \A rank \in [DOMAIN registered -> Types] :
    Follows(rank, DOMAIN registered) =>
      \A i, j \in DOMAIN stack : i < j => rank[stack[j].type] < rank[stack[i].type]

\* No type is lost in startup(), unless it fails.
NoneLost ==
  /\ phase = "static" => startup = Null
  /\ phase = "startup" =>
       /\ startup = Null
       /\ \A t \in DOMAIN registered :
            \/ t \in DOMAIN toResolve_ \cup stringMarshallers_
            \/ \E i \in DOMAIN stack : stack[i].type = t
  /\ startup # Null =>
       /\ phase \in {"main", "lookup"}
       /\ startup = "ok" => DOMAIN toResolve_ = {} /\ stack = << >>

Told == Sized /\ FoundSizes /\ InOrder /\ Asked /\ NoneLost /\ StartupTells

LEMMA AddsUpStarts ==
  ASSUME NEW t
  PROVE  AddsUp(t, 0, 1)
<1> DEFINE f == [i \in 0 .. 0 |-> 1]
<1>1. f \in [0 .. 0 -> 1 .. 1] /\ f[0] = 1
  OBVIOUS
<1>2. \A i \in 1 .. 0 : FALSE
  OBVIOUS
<1> QED
  BY <1>1, <1>2 DEF AddsUp

LEMMA AddsUpOnward ==
  ASSUME NEW t, NEW k \in Nat, NEW size \in Nat, AddsUp(t, k, size),
         maxMarshalledSize_[descs_[t][k + 1]] \in Nat
  PROVE  AddsUp(t, k + 1, size + maxMarshalledSize_[descs_[t][k + 1]])
<1> DEFINE more == maxMarshalledSize_[descs_[t][k + 1]]
<1>1. PICK f \in [0 .. k -> 1 .. size] :
        /\ f[0] = 1 /\ f[k] = size
        /\ \A i \in 1 .. k : f[i] = f[i - 1] + maxMarshalledSize_[descs_[t][i]]
  BY DEF AddsUp
<1> DEFINE g == [i \in 0 .. k + 1 |-> IF i = k + 1 THEN size + more ELSE f[i]]
<1>2. size \in 1 .. size /\ size \in 1 .. size + more /\ size + more \in 1 .. size + more
  BY <1>1
<1>3. g \in [0 .. k + 1 -> 1 .. size + more]
  <2> SUFFICES ASSUME NEW i \in 0 .. k + 1 PROVE g[i] \in 1 .. size + more
    OBVIOUS
  <2>1. CASE i = k + 1
    BY <1>2, <2>1
  <2>2. CASE i \in 0 .. k
    <3>1. f[i] \in 1 .. size
      BY <1>1, <2>2
    <3> QED
      BY <1>2, <2>2, <3>1
  <2> QED
    BY <2>1, <2>2
<1>4. g[0] = 1 /\ g[k + 1] = size + more
  BY <1>1
<1>5. ASSUME NEW i \in 1 .. k + 1
      PROVE  g[i] = g[i - 1] + maxMarshalledSize_[descs_[t][i]]
  BY <1>1
<1> HIDE DEF g
<1> QED
  BY <1>3, <1>4, <1>5 DEF AddsUp

\* Sizes that are known do not change.
LEMMA AddsUpStays ==
  ASSUME NEW t, NEW k, NEW size, AddsUp(t, k, size), UNCHANGED descs_,
         \A i \in 1 .. k : maxMarshalledSize_'[descs_[t][i]] = maxMarshalledSize_[descs_[t][i]]
  PROVE  AddsUp(t, k, size)'
  BY DEF AddsUp

LEMMA FollowsStays ==
  ASSUME UNCHANGED descs_, NEW rank, NEW S
  PROVE  Follows(rank, S)' = Follows(rank, S)
  BY DEF Follows

\* A call of resolve() for t, a member of the type on top of the stack.
LEMMA ResolveTold ==
  ASSUME Good, Told, NEW t \in DOMAIN toResolve_, NEW recursive \in BOOLEAN,
         Resolve(t, recursive), phase' \in {"startup", "lookup"},
         phase' = "startup" => phase = "startup", phase = "startup" => phase' = "startup",
         stack # << >> => t \in ToSet(descs_[Top.type])
  PROVE  Told'
<1> DEFINE n == Len(stack)
<1> USE DEF Told
<1>1. /\ DOMAIN toResolve_' = DOMAIN toResolve_ \ {t}
      /\ UNCHANGED <<descs_, stringMarshallers_, maxMarshalledSize_, startup, registered>>
  BY ResolveIs
<1>2. /\ n \in Nat /\ DOMAIN stack = 1 .. n /\ DOMAIN stack' = 1 .. n + 1
      /\ stack'[n + 1].type = t /\ stack'[n + 1].next = 1 /\ stack'[n + 1].mSize = 1
      /\ \A i \in DOMAIN stack : stack'[i] = stack[i]
  BY ResolveIs
<1>3. \A i \in DOMAIN stack' : i \in DOMAIN stack \/ i = n + 1
  BY <1>2
<1>4. n # 0 => stack # << >> /\ Top = stack[n]
  BY DEF Top
<1> HIDE DEF n
<1>5. Sized'
  <2>1. ASSUME NEW i \in DOMAIN stack'
        PROVE  AddsUp(stack'[i].type, stack'[i].next - 1, stack'[i].mSize)
    <3>1. CASE i \in DOMAIN stack
      BY <1>2, <3>1 DEF Sized
    <3>2. CASE i = n + 1
      <4>1. stack'[i].next - 1 = 0
        BY <1>2, <3>2
      <4> QED
        BY <1>2, <3>2, <4>1, AddsUpStarts
    <3> QED
      BY <1>3, <3>1, <3>2
  <2> QED
    BY <1>1, <2>1 DEF Sized, AddsUp
<1>6. FoundSizes' /\ InOrder'
  BY <1>1 DEF FoundSizes, AddsUp, InOrder, Follows
<1>7. Asked'
  <2> SUFFICES ASSUME NEW rank \in [DOMAIN registered -> Types],
                      Follows(rank, DOMAIN registered),
                      NEW i \in DOMAIN stack', NEW j \in DOMAIN stack', i < j
               PROVE  rank[stack'[j].type] < rank[stack'[i].type]
    BY <1>1 DEF Asked, Follows
  <2>1. CASE j \in DOMAIN stack
    <3>1. i \in DOMAIN stack
      BY <1>2, <2>1
    <3> QED
      BY <1>2, <2>1, <3>1 DEF Asked
  <2>2. CASE j = n + 1
    <3>1. i \in DOMAIN stack /\ n \in DOMAIN stack /\ n # 0 /\ (i = n \/ i < n)
      BY <1>2, <2>2
    <3>2. Top = stack[n] /\ t \in ToSet(descs_[Top.type])
      BY <1>4, <3>1
    <3>3. /\ Top.type \in DOMAIN registered /\ t \in DOMAIN registered
          /\ stack[i].type \in DOMAIN registered
      BY <3>1, <3>2 DEF Good, OwnIds
    <3>4. rank[t] < rank[Top.type]
      BY <3>2, <3>3 DEF Follows
    <3>5. i # n => rank[Top.type] < rank[stack[i].type]
      BY <3>1, <3>2 DEF Asked
    <3>6. rank[t] \in Nat /\ rank[Top.type] \in Nat /\ rank[stack[i].type] \in Nat
      BY <3>3, ManagerAssumption DEF Types
    <3>7. rank[t] < rank[stack[i].type]
      BY <3>1, <3>2, <3>4, <3>5, <3>6
    <3> QED
      BY <1>2, <2>2, <3>1, <3>7
  <2> QED
    BY <1>3, <2>1, <2>2
<1>8. NoneLost'
  <2>1. ASSUME phase = "startup", NEW u \in DOMAIN registered
        PROVE  \/ u \in DOMAIN toResolve_' \cup stringMarshallers_
               \/ \E i \in DOMAIN stack' : stack'[i].type = u
    <3>1. CASE u = t
      BY <1>2, <3>1
    <3>2. CASE u # t /\ u \in DOMAIN toResolve_ \cup stringMarshallers_
      BY <1>1, <3>2
    <3>3. CASE \E i \in DOMAIN stack : stack[i].type = u
      BY <1>2, <3>3
    <3> QED
      BY <2>1, <3>1, <3>2, <3>3 DEF NoneLost
  <2>2. startup # Null => phase # "startup" /\ startup # "ok"
    BY DEF NoneLost
  <2>3. phase = "startup" => startup = Null
    BY DEF NoneLost
  <2> QED
    BY <1>1, <2>1, <2>2, <2>3 DEF NoneLost
<1>9. StartupTells'
  BY <1>1 DEF StartupTells, WellFounded
<1> QED
  BY <1>5, <1>6, <1>7, <1>8, <1>9

\* A member that is found.
LEMMA AddMemberTold ==
  ASSUME Good, Told, AddMember
  PROVE  Told'
<1> DEFINE n == Len(stack)
<1> USE DEF Told
<1>1. UNCHANGED <<descs_, tables, maxMarshalledSize_, phase, startup, registered>>
  BY DEF AddMember
<1>2. /\ n \in Nat \ {0} /\ DOMAIN stack = 1 .. n /\ n \in DOMAIN stack
      /\ Top = stack[n] /\ Top.next \in 1 .. Len(descs_[Top.type]) /\ Top.next \in Nat
      /\ Top.mSize \in Nat /\ Wanted = descs_[Top.type][Top.next]
      /\ maxMarshalledSize_[Wanted] \in Nat
  BY AddMemberIs DEF Top
<1>3. /\ DOMAIN stack' = DOMAIN stack
      /\ stack'[n].type = Top.type /\ stack'[n].next = Top.next + 1
      /\ stack'[n].mSize = Top.mSize + maxMarshalledSize_[Wanted]
      /\ \A i \in DOMAIN stack : i # n => stack'[i] = stack[i]
  BY AddMemberIs
<1> HIDE DEF n
<1>4. \A i \in DOMAIN stack' : stack'[i].type = stack[i].type
  BY <1>2, <1>3
<1>5. Sized'
  <2>1. ASSUME NEW i \in DOMAIN stack'
        PROVE  AddsUp(stack'[i].type, stack'[i].next - 1, stack'[i].mSize)
    <3>1. CASE i # n
      BY <1>3, <3>1 DEF Sized
    <3>2. CASE i = n
      <4>1. AddsUp(Top.type, Top.next - 1, Top.mSize)
        BY <1>2 DEF Sized
      <4>2. Top.next - 1 \in Nat /\ (Top.next - 1) + 1 = Top.next
            /\ stack'[n].next - 1 = Top.next
        BY <1>2, <1>3
      <4>3. maxMarshalledSize_[descs_[Top.type][(Top.next - 1) + 1]] \in Nat
        BY <1>2, <4>2
      <4>4. AddsUp(Top.type, (Top.next - 1) + 1,
                   Top.mSize + maxMarshalledSize_[descs_[Top.type][(Top.next - 1) + 1]])
        BY <1>2, <4>1, <4>2, <4>3, AddsUpOnward
      <4> QED
        BY <1>2, <1>3, <3>2, <4>2, <4>4
    <3> QED
      BY <3>1, <3>2
  <2> QED
    BY <1>1, <2>1 DEF Sized, AddsUp
<1>6. FoundSizes' /\ InOrder'
  BY <1>1 DEF FoundSizes, AddsUp, InOrder, Follows, tables
<1>7. Asked'
  BY <1>1, <1>3, <1>4 DEF Asked, Follows
<1>8. NoneLost'
  <2>1. stack # << >>
    BY DEF AddMember
  <2>2. startup # Null => startup # "ok"
    BY <2>1 DEF NoneLost
  <2> QED
    BY <1>1, <1>3, <1>4, <2>2 DEF NoneLost, tables
<1>9. StartupTells'
  BY <1>1 DEF StartupTells, WellFounded, tables
<1> QED
  BY <1>5, <1>6, <1>7, <1>8, <1>9

LEMMA FoundFinite ==
  ASSUME TablesTyped
  PROVE  /\ IsFiniteSet(stringMarshallers_) /\ Cardinality(stringMarshallers_) \in Nat
         /\ Cardinality(stringMarshallers_) <= N
<1>1. 1 \in Int /\ N \in Int /\ stringMarshallers_ \subseteq 1 .. N
  BY ManagerAssumption DEF TablesTyped, Types
<1>2. IsFiniteSet(1 .. N) /\ Cardinality(1 .. N) = N
  BY <1>1, FS_Interval, ManagerAssumption
<1>3. /\ IsFiniteSet(stringMarshallers_)
      /\ Cardinality(stringMarshallers_) <= Cardinality(1 .. N)
  BY <1>1, <1>2, FS_Subset
<1> QED
  BY <1>2, <1>3, FS_CardinalityType

\* The end of a resolve(): its type comes after all that were found before.
LEMMA ResolvedTold ==
  ASSUME Good, Told, Resolved
  PROVE  Told'
<1> DEFINE n == Len(stack)
           T == Top.type
           S == stringMarshallers_
<1> USE DEF Told
<1>1. /\ n \in Nat \ {0} /\ DOMAIN stack = 1 .. n /\ n \in DOMAIN stack /\ stack # << >>
      /\ Top = stack[n] /\ T \in Types /\ Top.mSize \in Nat
      /\ Top.next = Len(descs_[T]) + 1
  BY ResolvedIs DEF Resolved, Top
<1>2. /\ DOMAIN stack' = 1 .. n - 1
      /\ \A i \in DOMAIN stack' : i \in DOMAIN stack /\ i # n /\ stack'[i] = stack[i]
  BY ResolvedIs
<1>3. /\ S' = S \cup {T} /\ UNCHANGED <<descs_, toResolve_, startup, registered>>
      /\ maxMarshalledSize_' = [maxMarshalledSize_ EXCEPT ![T] = Top.mSize]
      /\ T \notin S /\ T \notin DOMAIN toResolve_
  BY ResolvedIs
<1>4. descs_[T] \in Seq(Types) /\ Len(descs_[T]) \in Nat
      /\ DOMAIN descs_[T] = 1 .. Len(descs_[T])
  <2>1. descs_[T] \in Seq(Types)
    BY <1>1, ManagerAssumption DEF Good, TablesTyped
  <2> QED
    BY <2>1, LenProperties
<1>5. \A k \in 1 .. Len(descs_[T]) : descs_[T][k] \in S
  BY <1>1, <1>4 DEF Good, Passed
<1>6. \A m \in S : maxMarshalledSize_'[m] = maxMarshalledSize_[m]
  BY <1>3 DEF Good, Kinds, TablesTyped
<1>7. maxMarshalledSize_'[T] = Top.mSize
  BY <1>1, <1>3 DEF Good, Kinds
<1> HIDE DEF n, T, S
<1>8. Sized'
  <2> SUFFICES ASSUME NEW i \in DOMAIN stack'
               PROVE  AddsUp(stack[i].type, stack[i].next - 1, stack[i].mSize)'
    BY DEF Sized
  <2>1. i \in DOMAIN stack /\ stack'[i] = stack[i]
    BY <1>2
  <2>2. AddsUp(stack[i].type, stack[i].next - 1, stack[i].mSize)
    BY <2>1 DEF Sized
  <2>3. \A k \in 1 .. stack[i].next - 1 : descs_[stack[i].type][k] \in S
    BY <2>1 DEF Good, Passed, S
  <2>4. \A k \in 1 .. stack[i].next - 1 :
          maxMarshalledSize_'[descs_[stack[i].type][k]]
            = maxMarshalledSize_[descs_[stack[i].type][k]]
    BY <1>6, <2>3
  <2>5. PICK f \in [0 .. stack[i].next - 1 -> 1 .. stack[i].mSize] :
          /\ f[0] = 1 /\ f[stack[i].next - 1] = stack[i].mSize
          /\ \A k \in 1 .. stack[i].next - 1 :
               f[k] = f[k - 1] + maxMarshalledSize_[descs_[stack[i].type][k]]
    BY <2>2 DEF AddsUp
  <2>6. \A k \in 1 .. stack[i].next - 1 :
          f[k] = f[k - 1] + maxMarshalledSize_'[descs_'[stack'[i].type][k]]
    BY <1>3, <2>1, <2>4, <2>5
  <2> QED
    BY <2>1, <2>5, <2>6 DEF AddsUp
<1>9. FoundSizes'
  <2> SUFFICES ASSUME NEW t \in S'
               PROVE  AddsUp(t, Len(descs_[t]), maxMarshalledSize_[t])'
    BY DEF FoundSizes, S
  <2>1. CASE t = T
    <3>1. AddsUp(T, Len(descs_[T]), Top.mSize)
      <4>1. AddsUp(Top.type, Top.next - 1, Top.mSize)
        BY <1>1 DEF Sized
      <4>2. Top.next - 1 = Len(descs_[T])
        BY <1>1, <1>4
      <4> QED
        BY <4>1, <4>2 DEF T
    <3> DEFINE L == Len(descs_[T])
    <3>2. PICK f \in [0 .. L -> 1 .. Top.mSize] :
            /\ f[0] = 1 /\ f[L] = Top.mSize
            /\ \A k \in 1 .. L : f[k] = f[k - 1] + maxMarshalledSize_[descs_[T][k]]
      BY <3>1 DEF AddsUp
    <3>3. maxMarshalledSize_'[T] = Top.mSize
      BY <1>7
    <3>4. \A k \in 1 .. L : maxMarshalledSize_'[descs_[T][k]] = maxMarshalledSize_[descs_[T][k]]
      BY <1>5, <1>6
    <3>5. descs_' = descs_
      BY <1>3
    <3>6. \A k \in 1 .. L : f[k] = f[k - 1] + maxMarshalledSize_'[descs_'[T][k]]
      BY <3>2, <3>4, <3>5
    <3>7. Len(descs_'[T]) = L
      BY <3>5
    <3> DEFINE M == Top.mSize
               E == \E g \in [0 .. L -> 1 .. M] :
                      /\ g[0] = 1 /\ g[L] = M
                      /\ \A k \in 1 .. L :
                           g[k] = g[k - 1] + maxMarshalledSize_'[descs_'[T][k]]
    <3>8. E
      <4>1. f \in [0 .. L -> 1 .. M]
        OBVIOUS
      <4> HIDE DEF L, M
      <4> QED
        BY ONLY <3>2, <3>6, <4>1 DEF M
    <3>9. AddsUp(t, Len(descs_[t]), maxMarshalledSize_[t])' <=> E
      <4> HIDE DEF L
      <4> QED
        BY ONLY <2>1, <3>3, <3>7 DEF AddsUp, M
    <3> HIDE DEF E
    <3> QED
      BY ONLY <3>8, <3>9
  <2>2. CASE t \in S
    <3>1. AddsUp(t, Len(descs_[t]), maxMarshalledSize_[t])
      BY <2>2 DEF FoundSizes, S
    <3>2. \A k \in 1 .. Len(descs_[t]) : descs_[t][k] \in S
      <4>1. ToSet(descs_[t]) \subseteq S
        BY <2>2 DEF Good, MembersFound, S
      <4>2. descs_[t] \in Seq(Types)
        BY <2>2, ManagerAssumption DEF Good, TablesTyped, S
      <4>3. DOMAIN descs_[t] = 1 .. Len(descs_[t])
        BY <4>2, LenProperties
      <4> QED
        BY <4>1, <4>3 DEF ToSet
    <3> QED
      BY <1>3, <1>6, <2>2, <3>1, <3>2 DEF AddsUp
  <2> QED
    BY <1>3, <2>1, <2>2
<1>10. InOrder'
  <2> DEFINE c == Cardinality(S)
  <2>1. PICK rank \in [S -> 1 .. c] : Follows(rank, S)
    BY DEF InOrder, S
  <2>2. IsFiniteSet(S) /\ c \in Nat
    BY FoundFinite DEF Good, S
  <2>3. Cardinality(S') = c + 1
    BY <1>3, <2>2, FS_AddElement
  <2> DEFINE after == [t \in S \cup {T} |-> IF t = T THEN c + 1 ELSE rank[t]]
  <2> HIDE DEF c
  <2>4. after \in [S' -> 1 .. c + 1]
    BY <1>3, <2>1, <2>2
  <2>5. ASSUME NEW t \in S', NEW m \in ToSet(descs_[t])
        PROVE  m \in S' /\ after[m] < after[t]
    <3>1. CASE t = T
      <4>1. m \in S
        BY <1>4, <1>5, <2>5, <3>1 DEF ToSet
      <4> QED
        BY <1>3, <2>1, <2>2, <3>1, <4>1
    <3>2. CASE t \in S
      <4>1. m \in S /\ rank[m] < rank[t]
        BY <2>1, <2>5, <3>2 DEF Follows
      <4> QED
        BY <1>3, <2>1, <3>2, <4>1
    <3> QED
      BY <1>3, <3>1, <3>2
  <2> HIDE DEF after
  <2> QED
    BY <1>3, <2>3, <2>4, <2>5 DEF InOrder, Follows, S
<1>11. Asked'
  BY <1>2, <1>3 DEF Asked, Follows
<1>12. NoneLost'
  <2>1. phase \in {"startup", "lookup"} /\ phase' \in {phase, "main"} /\ (phase = "startup" => phase' = phase)
    BY <1>1 DEF Good, Calls, Resolved
  <2>2. startup # Null => startup # "ok" /\ phase # "startup"
    BY <1>1 DEF NoneLost
  <2>3. ASSUME phase = "startup", NEW u \in DOMAIN registered
        PROVE  \/ u \in DOMAIN toResolve_ \cup S'
               \/ \E i \in DOMAIN stack' : stack'[i].type = u
    <3>1. CASE u \in DOMAIN toResolve_ \cup S
      BY <1>3, <3>1
    <3>2. CASE \E i \in DOMAIN stack : stack[i].type = u
      <4>1. PICK i \in DOMAIN stack : stack[i].type = u
        BY <3>2
      <4>2. CASE i = n
        BY <1>1, <1>3, <4>1, <4>2 DEF T
      <4>3. CASE i # n
        BY <1>1, <1>2, <4>1, <4>3
      <4> QED
        BY <4>2, <4>3
    <3> QED
      BY <2>3, <3>1, <3>2 DEF NoneLost, S
  <2>4. phase = "startup" => startup = Null
    BY DEF NoneLost
  <2> QED
    BY <1>3, <2>1, <2>2, <2>3, <2>4 DEF NoneLost, S
<1>13. StartupTells'
  <2>1. startup # Null => startup # "ok"
    BY <1>1 DEF NoneLost
  <2> QED
    BY <1>3, <2>1 DEF StartupTells, WellFounded
<1> QED
  BY <1>8, <1>9, <1>10, <1>11, <1>12, <1>13

\* A member that is nowhere: if it is registered, it is being resolved, and no
\* order can have it both before and after the type on top of the stack.
LEMMA UnwindTold ==
  ASSUME Good, Told, Unwind
  PROVE  Told'
<1> DEFINE n == Len(stack)
<1> USE DEF Told
<1>1. /\ stack' = << >> /\ phase' = "main"
      /\ startup' = IF phase = "startup" THEN "error" ELSE startup
      /\ UNCHANGED <<descs_, tables, maxMarshalledSize_, registered>>
      /\ stack # << >> /\ Wanted \notin DOMAIN toResolve_ \cup stringMarshallers_
  BY DEF Unwind
<1>2. DOMAIN stack' = {}
  BY <1>1
<1>3. Sized' /\ FoundSizes' /\ InOrder' /\ Asked'
  BY <1>1, <1>2 DEF Sized, FoundSizes, AddsUp, InOrder, Follows, Asked, tables
<1>4. startup # Null => startup # "ok" /\ phase # "startup"
  BY <1>1 DEF NoneLost
<1>5. NoneLost'
  BY <1>1, <1>4 DEF NoneLost
<1>6. /\ n \in Nat \ {0} /\ DOMAIN stack = 1 .. n /\ n \in DOMAIN stack /\ Top = stack[n]
      /\ Top \in Frames
  BY <1>1, LenProperties, EmptySeq DEF Good, Kinds, Top
<1>7. Wanted \in ToSet(descs_[Top.type])
  <2>1. Top.next \in 1 .. Len(descs_[Top.type]) + 1 /\ Top.next <= Len(descs_[Top.type])
    BY <1>6 DEF Good, TablesTyped, Unwind, More
  <2>2. descs_[Top.type] \in Seq(Types)
    BY <1>6, ManagerAssumption DEF Good, TablesTyped, Frames
  <2>3. Len(descs_[Top.type]) \in Nat /\ DOMAIN descs_[Top.type] = 1 .. Len(descs_[Top.type])
    BY <2>2, LenProperties
  <2>4. Top.next \in DOMAIN descs_[Top.type]
    BY <2>1, <2>3
  <2> QED
    BY <2>4 DEF Wanted, ToSet
<1>8. ASSUME phase = "startup" PROVE ~WellFounded
  <2> SUFFICES ASSUME NEW rank \in [DOMAIN registered -> Types],
                      Follows(rank, DOMAIN registered)
               PROVE  FALSE
    BY DEF WellFounded, Follows
  <2>1. Top.type \in DOMAIN registered
    BY <1>6 DEF Good, OwnIds
  <2>2. Wanted \in DOMAIN registered /\ rank[Wanted] < rank[Top.type]
    BY <1>7, <2>1 DEF Follows
  <2>3. PICK i \in DOMAIN stack : stack[i].type = Wanted
    BY <1>1, <1>8, <2>2 DEF NoneLost
  <2>4. i # n => rank[Top.type] < rank[Wanted]
    BY <1>6, <2>3 DEF Asked
  <2>5. rank[Top.type] \in Nat /\ rank[Wanted] \in Nat
    BY <2>1, <2>2, ManagerAssumption DEF Types
  <2>6. CASE i = n
    BY <1>6, <2>2, <2>3, <2>5, <2>6
  <2>7. CASE i # n
    BY <2>2, <2>4, <2>5, <2>7
  <2> QED
    BY <2>6, <2>7
<1>9. WellFounded' = WellFounded
  <2>1. registered' = registered /\ descs_' = descs_
    BY <1>1
  <2> QED
    BY <2>1 DEF WellFounded
<1>a. WellFounded \in BOOLEAN
  BY DEF WellFounded
<1>10. StartupTells'
  <2>1. CASE phase = "startup"
    <3>1. startup' = "error" /\ WellFounded' = FALSE
      BY <1>1, <1>8, <1>9, <1>a, <2>1, Zenon
    <3> QED
      BY <3>1 DEF StartupTells
  <2>2. CASE phase # "startup"
    BY <1>1, <1>4, <1>9, <2>2 DEF StartupTells
  <2> QED
    BY <2>1, <2>2
<1> QED
  BY <1>3, <1>5, <1>10

\* startup() succeeds: everything is found, so that the order in which it was
\* found is one of all types.
LEMMA StartupReturnsTold ==
  ASSUME Good, Told, StartupReturns
  PROVE  Told'
<1> USE DEF Told
<1>1. /\ phase = "startup" /\ stack = << >> /\ toResolve_ = << >>
      /\ startup' = "ok" /\ phase' = "main"
      /\ UNCHANGED <<descs_, tables, maxMarshalledSize_, stack, registered>>
  BY DEF StartupReturns
<1>2. DOMAIN stack = {} /\ DOMAIN toResolve_ = {}
  BY <1>1
<1>3. stringMarshallers_ = DOMAIN registered
  BY <1>1, <1>2 DEF NoneLost, Good, OwnIds
<1>4. WellFounded
  <2>1. PICK rank \in [stringMarshallers_ -> 1 .. Cardinality(stringMarshallers_)] :
          Follows(rank, stringMarshallers_)
    BY DEF InOrder
  <2>2. rank \in [DOMAIN registered -> Types]
    <3>1. 1 .. Cardinality(stringMarshallers_) \subseteq 1 .. N
      BY FoundFinite, ManagerAssumption DEF Good
    <3> QED
      BY <1>3, <2>1, <3>1 DEF Types
  <2> QED
    BY <1>3, <2>1, <2>2 DEF WellFounded, Follows
<1>5. Sized' /\ FoundSizes' /\ InOrder' /\ Asked'
  BY <1>1, <1>2 DEF Sized, FoundSizes, AddsUp, InOrder, Follows, Asked, tables
<1>6. NoneLost'
  BY <1>1, <1>2 DEF NoneLost, tables
<1>7. StartupTells'
  BY <1>1, <1>3, <1>4 DEF StartupTells, WellFounded, tables
<1> QED
  BY <1>5, <1>6, <1>7

\* Before main().
LEMMA StaticTold ==
  ASSUME Good, Told, phase = "static", phase' \in {"static", "aborted", "startup"},
         phase' = "startup" => UNCHANGED <<toResolve_, registered>>,
         UNCHANGED <<descs_, stringMarshallers_, maxMarshalledSize_, stack, startup>>
  PROVE  Told'
<1> USE DEF Told
<1>1. startup = Null /\ startup' = Null /\ stack = << >> /\ stack' = << >>
      /\ stringMarshallers_ = {} /\ toResolve_ = registered
  BY DEF NoneLost, Good, Calls
<1>2. DOMAIN stack' = {}
  BY <1>1
<1>3. Sized' /\ FoundSizes' /\ InOrder' /\ Asked'
  BY <1>1, <1>2 DEF Sized, FoundSizes, InOrder, Follows, Asked
<1>4. NoneLost' /\ StartupTells'
  BY <1>1 DEF NoneLost, StartupTells
<1> QED
  BY <1>3, <1>4

LEMMA ToldInit == ASSUME ManagerInit PROVE Told
<1>1. /\ stack = << >> /\ stringMarshallers_ = {} /\ phase = "static" /\ startup = Null
      /\ DOMAIN stack = {}
  BY DEF ManagerInit
<1>2. Sized /\ FoundSizes /\ Asked /\ NoneLost /\ StartupTells
  BY <1>1 DEF Sized, FoundSizes, Asked, NoneLost, StartupTells
<1>3. InOrder
  <2> DEFINE rank == [t \in {} |-> 1]
  <2>1. rank \in [{} -> 1 .. Cardinality({})] /\ Follows(rank, {})
    BY DEF Follows
  <2> HIDE DEF rank
  <2> QED
    BY <1>1, <2>1 DEF InOrder
<1> QED
  BY <1>2, <1>3 DEF Told

LEMMA ToldNext ==
  ASSUME Good, Told, [ManagerNext]_managerVars
  PROVE  Told'
<1>1. ASSUME NEW t \in Types, NEW id \in Ids \cup {0}, SetMarshaller(t, id)
      PROVE  Told'
  <2>1. /\ phase = "static" /\ phase' \in {"static", "aborted"}
        /\ UNCHANGED <<descs_, stringMarshallers_, maxMarshalledSize_, stack, startup>>
    BY <1>1 DEF SetMarshaller
  <2> QED
    BY <2>1, StaticTold
<1>2. CASE Startup
  <2>1. /\ phase = "static" /\ phase' = "startup"
        /\ UNCHANGED <<descs_, toResolve_, registered, stringMarshallers_,
                       maxMarshalledSize_, stack, startup>>
    BY <1>2 DEF Startup, tables
  <2> QED
    BY <2>1, StaticTold
<1>3. ASSUME NEW t \in Types, Lookup(t)
      PROVE  Told'
  <2>1. phase = "main" /\ phase' = "lookup" /\ stack = << >>
        /\ t \in DOMAIN toResolve_ /\ Resolve(t, TRUE)
    BY <1>3 DEF Lookup, Good, Calls
  <2> QED
    BY <2>1, ResolveTold
<1>4. CASE ResolveNext
  <2>1. PICK t \in DOMAIN toResolve_ : Resolve(t, FALSE)
    BY <1>4 DEF ResolveNext
  <2>2. phase = "startup" /\ phase' = phase /\ stack = << >>
    BY <1>4 DEF ResolveNext
  <2> QED
    BY <2>1, <2>2, ResolveTold
<1>5. CASE ResolveMember
  <2>1. /\ Wanted \in DOMAIN toResolve_ /\ Resolve(Wanted, TRUE) /\ phase' = phase
        /\ stack # << >> /\ More
    BY <1>5 DEF ResolveMember
  <2>2. phase \in {"startup", "lookup"}
    BY <2>1 DEF Good, Calls
  <2>3. Wanted \in ToSet(descs_[Top.type])
    <3>1. Len(stack) \in DOMAIN stack /\ Top = stack[Len(stack)] /\ Top \in Frames
      BY <2>1, LenProperties, EmptySeq DEF Good, Kinds, Top
    <3>2. Top.next \in 1 .. Len(descs_[Top.type]) + 1 /\ Top.next <= Len(descs_[Top.type])
      BY <2>1, <3>1 DEF Good, TablesTyped, More
    <3>3. descs_[Top.type] \in Seq(Types)
      BY <3>1, ManagerAssumption DEF Good, TablesTyped, Frames
    <3>4. /\ Len(descs_[Top.type]) \in Nat
          /\ DOMAIN descs_[Top.type] = 1 .. Len(descs_[Top.type])
      BY <3>3, LenProperties
    <3>5. Top.next \in DOMAIN descs_[Top.type]
      BY <3>2, <3>4
    <3> QED
      BY <3>5 DEF Wanted, ToSet
  <2>4. phase' \in {"startup", "lookup"} /\ (phase' = "startup" => phase = "startup")
        /\ (phase = "startup" => phase' = "startup")
    BY <2>1, <2>2
  <2> HIDE DEF Wanted, Resolve
  <2> QED
    BY <2>1, <2>3, <2>4, ResolveTold
<1>6. CASE UNCHANGED managerVars
  <2>1. UNCHANGED <<descs_, toResolve_, stringMarshallers_, maxMarshalledSize_, stack, phase,
                    startup, registered>>
    BY <1>6 DEF managerVars, tables
  <2>2. Sized' /\ FoundSizes'
    BY <2>1 DEF Told, Sized, FoundSizes, AddsUp
  <2>3. InOrder' /\ Asked'
    BY <2>1 DEF Told, InOrder, Asked, Follows
  <2>4. NoneLost' /\ StartupTells'
    BY <2>1 DEF Told, NoneLost, StartupTells, WellFounded
  <2> QED
    BY <2>2, <2>3, <2>4 DEF Told
<1> QED
  BY <1>1, <1>2, <1>3, <1>4, <1>5, <1>6, AddMemberTold, ResolvedTold, UnwindTold,
     StartupReturnsTold
  DEF ManagerNext, Work

LEMMA AlwaysTold == ManagerSpec => [](Good /\ Told)
<1>1. ManagerInit => Good /\ Told
  BY GoodInit, ToldInit
<1>2. (Good /\ Told) /\ [ManagerNext]_managerVars => (Good /\ Told)'
  BY GoodNext, ToldNext
<1> QED
  BY <1>1, <1>2, PTL DEF ManagerSpec

\* A type that is found has members that are found, and a size that counts
\* theirs: in whatever order types are resolved and whatever fails.
THEOREM CompleteHolds == ManagerSpec => []Complete
<1>1. Good /\ Told => Complete
  BY DEF Good, Told, MembersFound, FoundSizes, Complete
<1> QED
  BY <1>1, AlwaysTold, PTL

\* startup() fails exactly for types that cannot be put in an order, or need one
\* that is not registered; else all are found (marshal.h 160-167).
THEOREM StartupTellsHolds == ManagerSpec => []StartupTells
<1>1. Good /\ Told => StartupTells
  BY DEF Told
<1> QED
  BY <1>1, AlwaysTold, PTL
=============================================================================

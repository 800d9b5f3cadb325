----------------------------- MODULE TypeMarshal -----------------------------
(***************************************************************************)
(* class TypeMarshal (lib/marshal.cpp 442-472), the marshaller of a struct *)
(* whose members may be structs again, and the Block it writes to and      *)
(* reads from (lib/block.cpp).  The caller marshals, demarshals and seeks  *)
(* as it likes, and fills the block with what came from the network.       *)
(*                                                                         *)
(* A call takes one step for each member, with a stack for the members     *)
(* that are structs.                                                       *)
(***************************************************************************)
EXTENDS Marshallers

CONSTANTS
  Types,        \* [names of types -> sequences of members]
  Sample(_),    \* values a member is tried with
  Noise,        \* contents of a block that came from elsewhere
  Size,         \* size of the block
  Places,       \* bound: where calls begin and the caller seeks to
  NULL, Thrown

\* A member that is a struct.
Struct(t) == [kind |-> "type", type |-> t]

Members == UNION {{Types[t][i] : i \in DOMAIN Types[t]} : t \in DOMAIN Types}

\* No type is a member of its own, through whatever others: resolve() refuses it.
ASSUME TypeMarshalAssumption ==
  /\ Size \in Nat /\ Noise \subseteq [1 .. Size -> Byte]
  /\ Places \subseteq 0 .. Size
  /\ Types \in [DOMAIN Types -> Seq(Members) \ {<<>>}] /\ IsFiniteSet(DOMAIN Types)
  /\ \A m \in Members :
       IF m.kind = "type"
         THEN m.type \in DOMAIN Types
         ELSE IsMarshaller(m) /\ \A v \in Sample(m) : IsValue(m, v)
  /\ \E rank \in [DOMAIN Types -> 0 .. Cardinality(DOMAIN Types)] :
       \A t \in DOMAIN Types : \A i \in DOMAIN Types[t] :
         Types[t][i].kind = "type" => rank[Types[t][i].type] < rank[t]
  /\ NULL \notin Nat /\ Thrown \notin Nat

VARIABLES
  bytes, pos, atEof,    \* the block
  call,                 \* "none", "marshal" or "demarshal"
  stack,                \* <<type, next member, pos>> of each call in progress
  members,              \* those done, with their values
  begun,                \* the call, the type and the place where it began
  returned,             \* what it returned, or Thrown, or NULL
  written               \* history: the last record marshalled, if it is still there

block == <<bytes, pos, atEof>>
vars == <<block, call, stack, members, begun, returned, written>>

Left == Size - pos
Top == stack[Len(stack)]
Member == Types[Top.type][Top.next]
More == Top.next <= Len(Types[Top.type])
Unread == SubSeq(bytes, pos + 1, Size)

Init ==
  /\ bytes \in Noise /\ pos = 0 /\ atEof = FALSE
  /\ call = "none" /\ stack = <<>> /\ members = <<>>
  /\ begun = NULL /\ returned = NULL /\ written = NULL

(***************************************************************************)
(* The caller.                                                             *)
(***************************************************************************)
MoveTo(p) == pos' = p /\ atEof' = FALSE

\* What the caller does to the block itself.
Direct ==
  /\ call = "none"
  /\ returned' = NULL /\ members' = <<>> /\ begun' = NULL
  /\ UNCHANGED <<call, stack>>

Seek(p) == Direct /\ MoveTo(p) /\ UNCHANGED <<bytes, written>>

Fill(b) == Direct /\ bytes' = b /\ MoveTo(0) /\ written' = NULL

Least(x, y) == IF x < y THEN x ELSE y

Read(n) ==
  /\ Direct
  /\ pos' = pos + Least(n, Left)
  /\ atEof' = (atEof \/ (Left < n /\ Left = 0))
  /\ UNCHANGED <<bytes, written>>

\* write(), and operator<< of another block, with n bytes b.
Write(n, b) ==
  /\ Direct
  /\ bytes' = [i \in 1 .. Size |-> IF i \in pos + 1 .. pos + n THEN b ELSE bytes[i]]
  /\ pos' = pos + Least(n, Left)
  /\ atEof' = (atEof \/ Left < n)
  /\ written' = NULL

\* operator>> writes the whole block, wherever its cursor is, to another one
\* with room for that many bytes.
Extract(room) ==
  /\ Direct
  /\ atEof' = (atEof \/ room < Size)
  /\ UNCHANGED <<bytes, pos, written>>

Frame(t) == [type |-> t, next |-> 1, start |-> pos]

Call(which, t) ==
  /\ call = "none" /\ pos \in Places
  /\ call' = which
  /\ stack' = <<Frame(t)>> /\ members' = <<>>
  /\ begun' = [call |-> which, type |-> t, pos |-> pos] /\ returned' = NULL
  /\ written' = IF which = "marshal" THEN NULL ELSE written
  /\ UNCHANGED block

(***************************************************************************)
(* The ways a call ends.  Every struct around a member that fails seeks    *)
(* back to its own beginning, the outermost last; an exception leaves the  *)
(* block where it is.                                                      *)
(***************************************************************************)
Return(r) == call' = "none" /\ stack' = <<>> /\ returned' = r

FailsInside ==
  /\ Return(0)
  /\ MoveTo(Top.start)
  /\ UNCHANGED <<bytes, members, begun, written>>

Fails ==
  /\ Return(0)
  /\ MoveTo(stack[1].start)
  /\ UNCHANGED <<bytes, members, begun, written>>

Throws ==
  /\ Return(Thrown)
  /\ UNCHANGED <<block, members, begun, written>>

(***************************************************************************)
(* One member.                                                             *)
(***************************************************************************)
NextMember == stack' = [stack EXCEPT ![Len(stack)].next = @ + 1]

Did(m, v) == members' = Append(members, [member |-> m, value |-> v])

FitsCode(out) == Left >= Bytes(Member)

HasRoom(out) == Left >= Len(out)

Put(out) ==
  bytes' = [i \in 1 .. Size |->
              IF i \in pos + 1 .. pos + Len(out) THEN out[i - pos] ELSE bytes[i]]

MarshalMember(v) ==
  LET out == Marshalled(Member, v)
  IN  \/ /\ ~Legal(Member, v)
         /\ Throws
      \/ /\ Legal(Member, v) /\ (~HasRoom(out) \/ out = <<>>)
         /\ Fails
      \/ /\ Legal(Member, v) /\ HasRoom(out) /\ out # <<>>
         /\ Put(out)
         /\ pos' = pos + Len(out)
         /\ atEof' = (Member.kind = "bool" /\ atEof)
         /\ Did(Member, v) /\ NextMember
         /\ UNCHANGED <<call, begun, returned, written>>

\* demarshal() of a string tests the length it has read, but reads it only if
\* it is there.
DemarshalMember ==
  /\ call = "demarshal" /\ More /\ Member.kind # "type"
  /\ LET coded == Left >= Bytes(Member)
     IN  \/ /\ coded /\ ~Accepts(Member, Unread)
            /\ Throws
         \/ /\ coded => Accepts(Member, Unread)
            /\ ~(Complete(Member, Unread) /\ Taken(Member, Unread) > 0)
            /\ Fails
         \/ /\ Complete(Member, Unread) /\ Accepts(Member, Unread)
            /\ Taken(Member, Unread) > 0
            /\ pos' = pos + Taken(Member, Unread)
            /\ atEof' = (Member.kind = "bool" /\ atEof)
            /\ Did(Member, Demarshalled(Member, Unread)) /\ NextMember
            /\ UNCHANGED <<bytes, call, begun, returned, written>>

Enter ==
  /\ call # "none" /\ More /\ Member.kind = "type"
  /\ stack' = Append(stack, Frame(Member.type))
  /\ UNCHANGED <<block, call, members, begun, returned, written>>

\* A struct is done; if it took no bytes, that is a failure to the one around.
Leave ==
  /\ call # "none" /\ ~More
  /\ \/ /\ Len(stack) = 1
        /\ Return(pos - Top.start)
        /\ written' = IF call = "marshal"
                        THEN [type |-> Top.type, start |-> Top.start,
                              size |-> pos - Top.start, members |-> members]
                        ELSE written
        /\ UNCHANGED <<block, members, begun>>
     \/ /\ Len(stack) > 1 /\ pos = Top.start
        /\ Fails
     \/ /\ Len(stack) > 1 /\ pos # Top.start
        /\ stack' = [Front(stack) EXCEPT ![Len(stack) - 1].next = @ + 1]
        /\ UNCHANGED <<block, call, members, begun, returned, written>>

-----------------------------------------------------------------------------
Marshal ==
  /\ call = "marshal" /\ More /\ Member.kind # "type"
  /\ \E v \in Sample(Member) : MarshalMember(v)

Next ==
  \/ \E p \in Places : Seek(p)
  \/ \E b \in Noise : Fill(b)
  \/ \E n \in {1, Size} : Read(n) \/ Write(n, 0) \/ Extract(n)
  \/ \E which \in {"marshal", "demarshal"}, t \in DOMAIN Types : Call(which, t)
  \/ Marshal
  \/ DemarshalMember
  \/ Enter
  \/ Leave

Spec == Init /\ [][Next]_vars

-----------------------------------------------------------------------------
(***************************************************************************)
(* Properties                                                              *)
(***************************************************************************)
\* The type invariant: the cursor is never beyond the end of the block.
TypeOK ==
  /\ bytes \in [1 .. Size -> Byte] /\ pos \in 0 .. Size /\ atEof \in BOOLEAN
  /\ call \in {"none", "marshal", "demarshal"}
  /\ (call = "none") = (stack = <<>>)
  /\ \A i \in DOMAIN stack :
       /\ stack[i].type \in DOMAIN Types
       /\ stack[i].next \in 1 .. Len(Types[stack[i].type]) + 1
       /\ stack[i].start \in begun.pos .. pos
  /\ returned \in {NULL, Thrown} \cup 0 .. Size

\* A call that fails leaves the cursor where it was, however deep the member
\* is that failed; one that succeeds moves it by what it returns
\* (marshal.h 181-190).
Rewinds == returned \in Nat => pos = begun.pos + returned

\* A block with room for maxMarshalledSize() is never too small, and no record
\* takes more: the sizes that resolve() adds up are right for every value.
MaxSizeOf[t \in DOMAIN Types] ==
  LET size(m) == IF m.kind = "type" THEN MaxSizeOf[m.type] ELSE MaxMarshalledSize(m)
      mSize[i \in 0 .. Len(Types[t])] ==
        IF i = 0 THEN 0 ELSE mSize[i - 1] + size(Types[t][i])
  IN  mSize[Len(Types[t])]

EnoughRoom ==
  returned # NULL /\ begun.call = "marshal" =>
    /\ returned = 0 => Size - begun.pos < MaxSizeOf[begun.type]
    /\ returned \in Nat => returned <= MaxSizeOf[begun.type]

\* A float comes back with less than its precision lost.
Alike(m, v, w) ==
  IF m.kind = "float" THEN w <= v /\ v - w < m.prec ELSE v = w

\* demarshal() of an int adds min, although marshal() subtracts nothing; zero
\* changes nothing.
FromZero(m) == m.kind = "int" => m.min = 0

Again ==
  /\ returned # NULL /\ written # NULL /\ begun.call = "demarshal"
  /\ begun.type = written.type /\ begun.pos = written.start

FromZeros == \A i \in DOMAIN written.members : FromZero(written.members[i].member)

Back ==
  /\ returned = written.size /\ Len(members) = Len(written.members)
  /\ \A i \in DOMAIN members :
       Alike(members[i].member, written.members[i].value, members[i].value)

\* What was marshalled comes back, from the place where it was put, whatever
\* the caller has read or looked for in between (marshal.h 145-153), when the
\* ranges of its ints begin at zero.
ComesBack == Again /\ FromZeros => Back

\* What marshal.h asserts (145-153), for the values of every type.
RoundTripEqual == Again => Back

=============================================================================

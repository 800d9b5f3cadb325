--------------------------- MODULE MarshalManager ---------------------------
(***************************************************************************)
(* class MarshalManager and TypeMarshal::resolve() (lib/marshal.cpp        *)
(* 394-440 and 566-675): types register before main(); startup() resolves  *)
(* them one after the other, and a struct asks for the marshallers of its  *)
(* members, which resolves those first.  Afterwards the program looks      *)
(* marshallers up.                                                         *)
(*                                                                         *)
(* A type is its number in alphabetical order, and stands for its          *)
(* marshaller, too: the registrar makes one for each.  Members that are no *)
(* structs have their marshallers from the beginning, and are left out.    *)
(***************************************************************************)
EXTENDS Naturals, Sequences, FiniteSets, SequencesExt

CONSTANTS
  N,            \* number of types
  Ids,          \* ids, without 0
  Structs,      \* choices of [1 .. N -> Seq(types)]: the members of each
  Null

Types == 1 .. N

ASSUME ManagerAssumption ==
  /\ N \in Nat
  /\ Structs \subseteq [Types -> Seq(Types)]
  /\ Ids \subseteq Nat \ {0}

VARIABLES
  descs_,               \* the members of each type
  toResolve_,           \* type :> id (or 0)
  stringMarshallers_,   \* the types that can be found
  intMarshallers_,      \* id :> type
  id_,                  \* of each marshaller
  maxMarshalledSize_,   \* of each marshaller
  stack,                \* each resolve() running: its type, next member, mSize,
                        \* the id, and whether marshaller() has called it
  phase,                   \* "static", "main", "startup", "lookup" or "aborted"
  startup,              \* what startup() returned: Null, "ok" or "error"
  registered            \* history: type :> id, before startup()

tables == <<toResolve_, stringMarshallers_, intMarshallers_, id_>>
managerVars == <<descs_, tables, maxMarshalledSize_, stack, phase, startup, registered>>

Top == stack[Len(stack)]
More == Top.next <= Len(descs_[Top.type])
Wanted == descs_[Top.type][Top.next]

ManagerInit ==
  /\ descs_ \in Structs
  /\ toResolve_ = <<>> /\ stringMarshallers_ = {} /\ intMarshallers_ = <<>>
  /\ id_ = [t \in Types |-> 0] /\ maxMarshalledSize_ = [t \in Types |-> 0]
  /\ stack = <<>> /\ phase = "static" /\ startup = Null /\ registered = <<>>

With(f, x, y) == [z \in DOMAIN f \cup {x} |-> IF z = x THEN y ELSE f[z]]
Without(f, x) == [z \in DOMAIN f \ {x} |-> f[z]]

(***************************************************************************)
(* Before main().  To register a type again throws where nothing catches.  *)
(***************************************************************************)
SetMarshaller(t, id) ==
  /\ phase = "static"
  /\ \/ /\ t \in DOMAIN toResolve_
        /\ phase' = "aborted"
        /\ UNCHANGED <<toResolve_, registered>>
     \/ /\ t \notin DOMAIN toResolve_
        /\ toResolve_' = With(toResolve_, t, id)
        /\ registered' = With(registered, t, id)
        /\ UNCHANGED phase
  /\ UNCHANGED <<descs_, stringMarshallers_, intMarshallers_, id_,
                 maxMarshalledSize_, stack, startup>>

Startup ==
  /\ phase = "static"
  /\ phase' = "startup"
  /\ UNCHANGED <<descs_, tables, maxMarshalledSize_, stack, startup, registered>>

(***************************************************************************)
(* A type is taken out of toResolve_ before it is resolved, so that one    *)
(* that is asked for in a circle is not found.                             *)
(***************************************************************************)
Kept(t) == toResolve_

Taken(t) == Without(toResolve_, t)

Resolve(t, recursive) ==
  /\ toResolve_' = Taken(t)
  /\ stack' = Append(stack, [type |-> t, next |-> 1, mSize |-> 1,
                             id |-> toResolve_[t], recursive |-> recursive])
  /\ UNCHANGED <<descs_, stringMarshallers_, intMarshallers_, id_,
                 maxMarshalledSize_, startup, registered>>

\* The loop of resolve().
ResolveNext ==
  /\ phase = "startup" /\ stack = <<>>
  /\ \E t \in DOMAIN toResolve_ :
       /\ \A u \in DOMAIN toResolve_ : t <= u
       /\ Resolve(t, FALSE)
  /\ UNCHANGED phase

StartupReturns ==
  /\ phase = "startup" /\ stack = <<>> /\ toResolve_ = <<>>
  /\ startup' = "ok" /\ phase' = "main"
  /\ UNCHANGED <<descs_, tables, maxMarshalledSize_, stack, registered>>

\* A member whose type is resolved counts with its size.
AddMember ==
  /\ stack # <<>> /\ More
  /\ Wanted \in stringMarshallers_
  /\ stack' = [stack EXCEPT ![Len(stack)].next = @ + 1,
                            ![Len(stack)].mSize = @ + maxMarshalledSize_[Wanted]]
  /\ UNCHANGED <<descs_, tables, maxMarshalledSize_, phase, startup, registered>>

\* marshaller(type) for a member that is not resolved yet.
ResolveMember ==
  /\ stack # <<>> /\ More
  /\ Wanted \in DOMAIN toResolve_ \ stringMarshallers_
  /\ Resolve(Wanted, TRUE)
  /\ UNCHANGED phase

SkipMember ==
  /\ stack # <<>> /\ More
  /\ Wanted \notin DOMAIN toResolve_ \cup stringMarshallers_
  /\ stack' = [stack EXCEPT ![Len(stack)].next = @ + 1]
  /\ UNCHANGED <<descs_, tables, maxMarshalledSize_, phase, startup, registered>>

RetryLater ==
  /\ stack # <<>> /\ More
  /\ Wanted \notin DOMAIN toResolve_ \cup stringMarshallers_
  /\ toResolve_' = With(toResolve_, Top.type, Top.id)
  /\ stack' = Front(stack)
  /\ UNCHANGED <<descs_, stringMarshallers_, intMarshallers_, id_,
                 maxMarshalledSize_, phase, startup, registered>>

UnwindInSilence ==
  /\ stack # <<>> /\ More
  /\ Wanted \notin DOMAIN toResolve_ \cup stringMarshallers_
  /\ stack' = <<>> /\ phase' = "main"
  /\ startup' = IF phase = "startup" THEN "ok" ELSE startup
  /\ UNCHANGED <<descs_, tables, maxMarshalledSize_, registered>>

\* One that is nowhere: the exception leaves every resolve(), and startup()
\* returns its text.
Unwind ==
  /\ stack # <<>> /\ More
  /\ Wanted \notin DOMAIN toResolve_ \cup stringMarshallers_
  /\ stack' = <<>> /\ phase' = "main"
  /\ startup' = IF phase = "startup" THEN "error" ELSE startup
  /\ UNCHANGED <<descs_, tables, maxMarshalledSize_, registered>>

ById(frame) ==
  IF frame.id = 0 THEN intMarshallers_
                  ELSE With(intMarshallers_, frame.id, frame.type)

\* The end of a resolve().  The manager sets the id of the marshaller only
\* when its own loop has called.
Resolved ==
  /\ stack # <<>> /\ ~More
  /\ maxMarshalledSize_' = [maxMarshalledSize_ EXCEPT ![Top.type] = Top.mSize]
  /\ stringMarshallers_' = stringMarshallers_ \cup {Top.type}
  /\ intMarshallers_' = ById(Top)
  /\ id_' = IF Top.recursive THEN id_ ELSE [id_ EXCEPT ![Top.type] = Top.id]
  /\ stack' = Front(stack)
  /\ phase' = IF phase = "lookup" /\ Len(stack) = 1 THEN "main" ELSE phase
  /\ UNCHANGED <<descs_, toResolve_, startup, registered>>

\* The program asks for a marshaller by type: one that startup() has not
\* reached is resolved now.
Lookup(t) ==
  /\ phase = "main"
  /\ t \in DOMAIN toResolve_ \ stringMarshallers_
  /\ phase' = "lookup"
  /\ Resolve(t, TRUE)

-----------------------------------------------------------------------------
Work ==
  ResolveNext \/ StartupReturns \/ AddMember \/ ResolveMember \/ Unwind \/ Resolved

ManagerNext ==
  \/ \E t \in Types, id \in Ids \cup {0} : SetMarshaller(t, id)
  \/ Startup
  \/ \E t \in Types : Lookup(t)
  \/ Work

ManagerSpec == ManagerInit /\ [][ManagerNext]_managerVars

\* A call that has begun goes on.
ManagerFairness == WF_managerVars(Work)

ManagerLiveSpec == ManagerSpec /\ ManagerFairness

-----------------------------------------------------------------------------
(***************************************************************************)
(* Properties                                                              *)
(***************************************************************************)
\* The type invariant.
TablesTyped ==
  /\ descs_ \in Structs
  /\ DOMAIN toResolve_ \subseteq Types /\ stringMarshallers_ \subseteq Types
  /\ \A id \in DOMAIN intMarshallers_ : id \in Ids /\ intMarshallers_[id] \in Types
  /\ phase \in {"static", "main", "startup", "lookup", "aborted"}
  /\ startup \in {Null, "ok", "error"}
  /\ \A i \in DOMAIN stack :
       stack[i].type \in Types /\ stack[i].next \in 1 .. Len(descs_[stack[i].type]) + 1

\* A registered type is in one place: still to be resolved, being resolved
\* (once, in a chain in which each asks for the next), found by name, or lost
\* to an error.
OnePlace ==
  /\ DOMAIN toResolve_ \cap stringMarshallers_ = {}
  /\ \A i \in DOMAIN stack :
       stack[i].type \notin DOMAIN toResolve_ \cup stringMarshallers_
  /\ \A i, j \in DOMAIN stack : stack[i].type = stack[j].type => i = j

\* size is what resolve() makes of the first k members of t: 1 for those that
\* are no structs, and then one size after the other.
AddsUp(t, k, size) ==
  \E mSize \in [0 .. k -> 1 .. size] :
    /\ mSize[0] = 1 /\ mSize[k] = size
    /\ \A i \in 1 .. k : mSize[i] = mSize[i - 1] + maxMarshalledSize_[descs_[t][i]]

\* A marshaller that is found by name is complete: those of its members are
\* found, too, and its size counts theirs, each after it was computed, in
\* whatever order the names come and whatever went wrong elsewhere.
Complete ==
  \A t \in stringMarshallers_ :
    /\ ToSet(descs_[t]) \subseteq stringMarshallers_
    /\ AddsUp(t, Len(descs_[t]), maxMarshalledSize_[t])

\* startup() succeeds exactly if the types can be put in an order in which
\* each comes after its members, all registered (marshal.h 160-167), and then
\* every type is found.
WellFounded ==
  \E rank \in [DOMAIN registered -> Types] :
    \A t \in DOMAIN registered :
      \A m \in ToSet(descs_[t]) : m \in DOMAIN registered /\ rank[m] < rank[t]

StartupTells ==
  startup # Null =>
    /\ (startup = "ok") = WellFounded
    /\ startup = "ok" => stringMarshallers_ = DOMAIN registered

\* A marshaller that is found by name is found by its id, if no other type has
\* the same (the manager does not notice; the one resolved last has it).
FoundById ==
  \A t \in stringMarshallers_ :
    LET id == registered[t]
    IN  id # 0 /\ (\A u \in DOMAIN registered \ {t} : registered[u] # id) =>
          id \in DOMAIN intMarshallers_ /\ intMarshallers_[id] = t

\* startup() and marshaller() return, in circles too.
ResolvingReturns == phase \in {"startup", "lookup"} ~> phase = "main"

=============================================================================

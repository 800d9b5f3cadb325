--------------------------- MODULE MCBufferAndTypes ---------------------------
(* EtworkBuffer, as in MCEtworkBuffer, and MarshalManager with every choice   *)
(* of at most two members for each type: two parts of the library that run    *)
(* by themselves and have to come to an end.  They share no state: the first  *)
(* state says which of them a behaviour is about, and the other one rests.    *)
EXTENDS MCEtworkBuffer, MarshalManager

Members ==
  {<<>>} \cup {<<t>> : t \in Types}
    \cup {m \in Types \X Types : m[1] # m[2]}

MCStructs == [Types -> Members]

VARIABLE part   \* "buffer" or "types"

\* The part that rests has one initial state.
BothInit ==
  /\ Init /\ ManagerInit
  /\ \/ part = "types" /\ mode = "local"
     \/ part = "buffer" /\ descs_ = [t \in Types |-> <<>>]

BothNext ==
  /\ UNCHANGED part
  /\ \/ part = "buffer" /\ Next /\ UNCHANGED managerVars
     \/ part = "types" /\ ManagerNext /\ UNCHANGED vars

BothSpec ==
  /\ BothInit /\ [][BothNext]_<<part, vars, managerVars>>
  /\ Fairness /\ ManagerFairness
=============================================================================

------------------------------- MODULE MCErrors -------------------------------
(* Lifecycle, as in MCLifecycle, and ErrorText, the errors it reports, with   *)
(* two errors and a spare block, so that freed blocks are used again by the   *)
(* other one.  The two share no state: the first state says which of them a   *)
(* behaviour is about, and the other one rests.                               *)
EXTENDS MCLifecycle, ErrorText

MCOptions == {"EO_no_error", "EO_internal_error"}

VARIABLE part   \* "managers" or "texts"

\* Lifecycle has one initial state when it rests.
ErrorsInit ==
  /\ Init /\ TextInit
  /\ part = "managers" \/ (part = "texts" /\ ~gErrorNotify)

ErrorsNext ==
  /\ UNCHANGED part
  /\ \/ part = "managers" /\ Next /\ UNCHANGED textVars
     \/ part = "texts" /\ TextNext /\ UNCHANGED vars

ErrorsSpec ==
  ErrorsInit /\ [][ErrorsNext]_<<part, vars, textVars>> /\ Fairness
=============================================================================

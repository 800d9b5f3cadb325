----------------------------- MODULE MCEtworkLink -----------------------------
(* EtworkLink for TLC: what each end writes. *)
EXTENDS EtworkLink

\* One way messages and keepalives, the other way one keepalive.
MostlyOneWaySizes == [e \in End |-> IF e = Client THEN {0, 2} ELSE {0}]
MostlyOneWayWrites == [e \in End |-> IF e = Client THEN 2 ELSE 1]
=============================================================================

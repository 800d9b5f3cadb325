---------------------------- MODULE MCEtworkBuffer ----------------------------
(* EtworkBuffer for TLC: small bytes, so that two length bytes matter. *)
EXTENDS EtworkBuffer
=============================================================================

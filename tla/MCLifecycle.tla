---------------------------- MODULE MCLifecycle ----------------------------
(* Two managers in two threads, of which one has a notifier of its own, and *)
(* fewer descriptors than they would like to have.                          *)
EXTENDS Lifecycle
=============================================================================

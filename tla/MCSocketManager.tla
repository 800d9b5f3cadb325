-------------------------- MODULE MCSocketManager --------------------------
(* Instances of SocketManager for TLC: a few sockets and addresses, which are *)
(* interchangeable.                                                           *)
EXTENDS SocketManager, TLC

Symmetry == Permutations(Sockets) \cup Permutations(Addrs)
=============================================================================

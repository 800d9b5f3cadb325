------------------------------ MODULE MCChatHost ------------------------------
(* ChatHost with names of which one begins with the other. *)
EXTENDS ChatHost, TLC

CONSTANTS a, ab     \* the names

MCPrefixes ==
  {<<n, n>> : n \in AllNames} \cup {<<NoName, a>>, <<NoName, ab>>, <<a, ab>>}

Symmetry == Permutations(Clients) \cup Permutations(Sockets)
=============================================================================

---------------------------- MODULE MCChatSession ----------------------------
(* Two users who want the same name. *)
EXTENDS ChatSession

CONSTANTS a     \* the name

MCPrefixes == {<<n, n>> : n \in AllNames} \cup {<<NoName, a>>}
MCNameOf == [u \in Sockets |-> a]
=============================================================================

----------------------------- MODULE MessageQueue -----------------------------
(***************************************************************************)
(* What a Buffer promises whoever uses it, whatever the framing and the    *)
(* fragments: a first-in first-out queue of whole messages, bounded in the *)
(* size of a message, in the number of messages and in their total size.   *)
(* Only the sizes are recorded.                                            *)
(***************************************************************************)
EXTENDS Integers, Sequences

CONSTANTS MaxMsgSize, QueueSize, MaxNumMessages

VARIABLES
  q,        \* sizes of the messages in the queue, oldest first
  used      \* their total

vars == <<q, used>>

Init == q = <<>> /\ used = 0

Put(n) ==
  /\ n <= MaxMsgSize
  /\ Len(q) < MaxNumMessages
  /\ used + n <= QueueSize
  /\ q' = Append(q, n)
  /\ used' = used + n

Get ==
  /\ q # <<>>
  /\ q' = Tail(q)
  /\ used' = used - Head(q)

Next == (\E n \in 0 .. MaxMsgSize : Put(n)) \/ Get

Spec == Init /\ [][Next]_vars
=============================================================================

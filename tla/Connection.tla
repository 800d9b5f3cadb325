------------------------------ MODULE Connection ------------------------------
(***************************************************************************)
(* What a connection promises the two applications, whatever becomes of    *)
(* its bytes on the way: in each direction a first-in first-out queue of   *)
(* whole messages.  An end whose peer has written more than a buffer may   *)
(* hold, unread, may lose messages, and of what it reads from then on      *)
(* nothing is said.  Only the sizes are recorded.                          *)
(***************************************************************************)
EXTENDS Integers, Sequences

CONSTANTS
  End, Other,   \* the two ends; Other[e]: the other one
  MaxMsgSize, QueueSize, MaxNumMessages   \* the limits of the reader's buffer

VARIABLES
  way,      \* way[e]: sizes written at e and not read yet at its peer
  got,      \* got[e]: sizes read at e
  lossy,    \* the ends that have lost messages
  using     \* the ends not disposed

vars == <<way, got, lossy, using>>

Init ==
  /\ way = [e \in End |-> <<>>] /\ got = [e \in End |-> <<>>]
  /\ lossy = {} /\ using = End

Total(sizes) ==
  LET sum[i \in 0 .. Len(sizes)] == IF i = 0 THEN 0 ELSE sum[i - 1] + sizes[i]
  IN  sum[Len(sizes)]

\* More messages, or more bytes, than may wait to be read.
TooMuch(sizes) == Len(sizes) > MaxNumMessages \/ Total(sizes) > QueueSize

Write(e, n) ==
  /\ e \in using
  /\ way' = IF Other[e] \in lossy THEN way ELSE [way EXCEPT ![e] = Append(@, n)]
  /\ UNCHANGED <<got, lossy, using>>

Read(e) ==
  /\ e \in using \ lossy
  /\ way[Other[e]] # <<>>
  /\ got' = [got EXCEPT ![e] = Append(@, Head(way[Other[e]]))]
  /\ way' = [way EXCEPT ![Other[e]] = Tail(@)]
  /\ UNCHANGED <<lossy, using>>

Lose(e) ==
  /\ e \in using \ lossy
  /\ TooMuch(way[Other[e]])
  /\ lossy' = lossy \cup {e}
  /\ way' = [way EXCEPT ![Other[e]] = <<>>]
  /\ got' = [got EXCEPT ![e] = <<>>]
  /\ UNCHANGED using

Dispose(e) ==
  /\ e \in using
  /\ using' = using \ {e}
  /\ UNCHANGED <<way, got, lossy>>

Next ==
  \E e \in End :
    \/ \E n \in 0 .. MaxMsgSize : Write(e, n)
    \/ Read(e)
    \/ Lose(e)
    \/ Dispose(e)

Spec == Init /\ [][Next]_vars
=============================================================================

---------------------------- MODULE SocketService ----------------------------
(***************************************************************************)
(* What a SocketManager promises the application, whatever descriptors,    *)
(* rounds and lists it keeps: a socket is handed out once, in the order in *)
(* which connections came, works until it ends or is disposed, and never   *)
(* works again; and no poll returns before the application has been told   *)
(* of everything that happened to its sockets, but for a failed send().    *)
(***************************************************************************)
EXTENDS Integers, Sequences

CONSTANT Sockets

VARIABLES
  free,      \* the sockets not used yet
  queue,     \* those that wait for accept(), oldest first
  held,      \* those that work and are the application's
  news,      \* those on which something happened that it has not been told of
  polling

vars == <<free, queue, held, news, polling>>

Init ==
  free = Sockets /\ queue = <<>> /\ held = {} /\ news = {} /\ polling = FALSE

Connect(s) ==
  /\ ~polling /\ s \in free
  /\ free' = free \ {s} /\ held' = held \cup {s}
  /\ UNCHANGED <<queue, news, polling>>

Accept(k) ==
  /\ ~polling /\ k <= Len(queue)
  /\ held' = held \cup {queue[i] : i \in 1 .. k}
  /\ queue' = SubSeq(queue, k + 1, Len(queue))
  /\ UNCHANGED <<free, news, polling>>

\* Outside poll(), or in a callback of it.
Dispose(s) ==
  /\ held' = held \ {s} /\ news' = news \ {s}
  /\ UNCHANGED <<free, queue, polling>>

\* poll() begins with the sockets that time out.
Poll(late) ==
  /\ ~polling /\ polling'
  /\ late \subseteq held
  /\ held' = held \ late /\ news' = late
  /\ UNCHANGED <<free, queue>>

Arrive(s) ==
  /\ polling /\ s \in free
  /\ free' = free \ {s} /\ queue' = Append(queue, s)
  /\ UNCHANGED <<held, news, polling>>

\* Data, or the end, or an error.
Happens(s) ==
  /\ polling /\ s \in held
  /\ news' = news \cup {s} /\ held' \in {held, held \ {s}}
  /\ UNCHANGED <<free, queue, polling>>

SendFails(s) ==
  /\ polling /\ s \in held
  /\ held' = held \ {s}
  /\ UNCHANGED <<free, queue, news, polling>>

Tell(s) ==
  /\ polling /\ news' = news \ {s}
  /\ UNCHANGED <<free, queue, held, polling>>

\* Whoever called poll() is told the rest.
PollReturns ==
  /\ polling /\ ~polling' /\ news' = {}
  /\ UNCHANGED <<free, queue, held>>

Next ==
  \/ \E k \in 1 .. Len(queue) : Accept(k)
  \/ \E late \in SUBSET held : Poll(late)
  \/ \E s \in Sockets : Connect(s) \/ Dispose(s) \/ Arrive(s) \/ Happens(s)
                        \/ SendFails(s) \/ Tell(s)
  \/ PollReturns

Spec == Init /\ [][Next]_vars
=============================================================================

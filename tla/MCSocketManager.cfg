SPECIFICATION Spec
CONSTANTS
  Sockets = {s1, s2}
  Addrs = {a1, a2}
  Listening = Listening
  NULL = NULL
  MaxOut = 2
  MaxActives = {1, 2}
  MaxRounds = 2
SYMMETRY Symmetry
INVARIANT TypeOK
INVARIANT Registered
INVARIANT Findable
INVARIANT ReportsLive
INVARIANT MaxActiveKept
INVARIANT Reported
PROPERTY IsSocketService
\* A poll may use an erased iterator and crash; that ends a behaviour.
CHECK_DEADLOCK FALSE

SPECIFICATION Spec
CONSTANTS
  a = a
  ab = ab
  Clients = {c1, c2}
  Sockets = {s1, s2, s3}
  Names = {a, ab}
  NoName = NoName
  Prefixes <- MCPrefixes
  Reliable = FALSE
  MaxClients = 2
  MaxWaiting = 2
  NULL = NULL
INVARIANTS
  TypeOK
  NameOwned
  SocketOwned
  ServesItsClients
  ListShown
SYMMETRY Symmetry
CHECK_DEADLOCK FALSE

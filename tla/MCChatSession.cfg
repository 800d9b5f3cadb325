SPECIFICATION LiveSpec
CONSTANTS
  a = a
  Clients = {c1, c2}
  Sockets = {u1, u2}
  Names = {a}
  NoName = NoName
  Prefixes <- MCPrefixes
  Reliable = FALSE
  MaxClients = 2
  MaxWaiting = 1
  NULL = NULL
  NameOf <- MCNameOf
  Talkers = {u1}
  Nothing = Nothing
INVARIANTS
  TableAgrees
  LoggedInTruly
PROPERTIES
  LogsIn
  GoneForgotten
CHECK_DEADLOCK FALSE

SPECIFICATION Spec
CONSTANTS
  a = a
  ab = ab
  Clients = {c1, c2}
  Sockets = {s1, s2}
  Names = {a, ab}
  NoName = NoName
  Prefixes <- MCPrefixes
  Reliable = TRUE
  MaxClients = 2
  MaxWaiting = 2
  NULL = NULL
INVARIANT HostSurvives
CHECK_DEADLOCK FALSE

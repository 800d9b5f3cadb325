SPECIFICATION ErrorsSpec
CONSTANTS
  Managers = {m1, m2}
  Sockets = {s1, s2}
  Fds = {f1, f2}
  Hosts = {h1, h2}
  Notifying = {m1}
  NULL = NULL
  Objects = {o1, o2}
  Blocks = {b1, b2, b3}
  Options <- MCOptions
  Custom = "custom"
  NoText = NoText
INVARIANTS
  DescriptorsOwned
  FailureHeard
  ConnectsWhereAsked
  OwnedOnce
  TextKept
PROPERTY CallsReturn

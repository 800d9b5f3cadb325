SPECIFICATION Spec
CONSTANTS
  Managers = {m1, m2}
  Sockets = {s1, s2}
  Fds = {f1, f2}
  Hosts = {h1, h2}
  Notifying = {m1}
  NULL = NULL
INVARIANT OwnNotifierHears

CONSTANTS
  c1 = c1
  c2 = c2
  none = none
  f1 = f1
  f2 = f2
  g1 = g1
  quik = quik
  other = other
  server = server
  Conns = {c1}
  NoConn = none
  Callbacks = {f1, f2}
  Owner <- MCOwner
  Fun <- MCFun
  Threads = {quik}
  ServerThread = server
  MaxCalls = 2
  Garbage = {0, 1}
SPECIFICATION Spec
INVARIANT
  SilentClientHarmless
CHECK_DEADLOCK FALSE

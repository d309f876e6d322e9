CONSTANTS
  c1 = c1
  c2 = c2
  none = none
  f1 = f1
  f2 = f2
  g1 = g1
  quik = quik
  other = other
  server = server
  Conns = {c1}
  NoConn = none
  Callbacks = {f1}
  Owner <- MCOwner
  Fun <- MCFun
  Threads = {quik, other, server}
  ServerThread = server
  MaxCalls = 2
  Garbage = {0, 1}
SPECIFICATION LiveSpec
PROPERTIES
  CallersAreWoken
  EveryCallReturns
  ImplementsRemoteCall
CHECK_DEADLOCK FALSE

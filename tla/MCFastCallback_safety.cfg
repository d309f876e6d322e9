CONSTANTS
  c1 = c1
  c2 = c2
  none = none
  f1 = f1
  f2 = f2
  g1 = g1
  quik = quik
  other = other
  server = server
  Conns = {c1, c2}
  NoConn = none
  Callbacks = {f1, f2, g1}
  Owner <- MCOwner
  Fun <- MCFun
  Threads = {quik, server}
  ServerThread = server
  MaxCalls = 3
  Garbage = {1}
SPECIFICATION Spec
INVARIANTS
  TypeOK
  PointerIsLive
  StrayAnswersHaveCause
  UndefinedBehaviourCauses
CHECK_DEADLOCK FALSE

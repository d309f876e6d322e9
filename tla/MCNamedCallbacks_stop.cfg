CONSTANTS
  c1 = c1
  c2 = c2
  quik = quik
  other = other
  server = server
  Conns = {c1, c2}
  Threads = {quik, other}
  ServerThread = server
  Predefined = {"OnStop", "OnParam"}
  Names = {"OnStop", "OnParam", "mine"}
  Reserved <- MCReserved
  Updates = {"OnParam"}
  Wanted <- MCWanted
  Stop = "OnStop"
  MaxCalls = 2
SPECIFICATION FairSpec
INVARIANTS
  TypeOK
  EachSubscriberIsTold
  CallbacksStayInOrder
  UndefinedBehaviourCauses
PROPERTY
  StopEndsMain
CHECK_DEADLOCK FALSE

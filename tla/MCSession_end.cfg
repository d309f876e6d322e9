CONSTANTS
  Messages = {"ver", "req1", "req2", "req3", "ans", "bad", "end"}
  Text <- MCText
  Streams <- MCStreams
  Requests = {"req1", "req2", "req3"}
  Unknown = {"req3"}
  Malformed = {"bad"}
  End = "end"
  MaxUpdates = 1
SPECIFICATION Spec
INVARIANT
  OrderlyEndIsHarmless
CHECK_DEADLOCK FALSE

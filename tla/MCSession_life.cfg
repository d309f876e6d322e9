CONSTANTS
  Messages = {"ver", "req1", "req2", "req3", "ans", "bad", "end"}
  Text <- MCText
  Streams <- MCStreams
  Requests = {"req1", "req2", "req3"}
  Unknown = {"req3"}
  Malformed = {"bad"}
  End = "end"
  MaxUpdates = 1
SPECIFICATION FairSpec
INVARIANTS
  TypeOK
  MessagesAreFound
  AnswersFollowRequests
  WireOrder
  UndefinedBehaviourCauses
  DeadConnectionsAreForgotten
PROPERTY
  EndCompletes
CHECK_DEADLOCK FALSE

CONSTANTS
  canonical = canonical
  Conns = {a, b}
  Classes = {canonical}
  Canon <- MCCanon
  Secs = {s1}
  Params = {p1, p2}
  Ids = {1}
  Values = {v1, v2}
  NoValue = noValue
SPECIFICATION Spec
SYMMETRY Symmetries
CONSTRAINT OneRefusal
INVARIANTS
  TypeOK
  TreeIsMinimal
  ConsumersAreLive
  LoopsAreSafe
  SecSubsLostOnlyByDisconnect
  NoChangeIsLost
  QuikServesSubscribers
  LeftoversComeFromDisconnects
CHECK_DEADLOCK FALSE

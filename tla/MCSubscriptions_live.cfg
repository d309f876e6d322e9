CONSTANTS
  canonical = canonical
  Conns = {a, b}
  Classes = {canonical}
  Canon <- MCCanon
  Secs = {s1}
  Params = {p1}
  Ids = {1}
  Values = {v1, v2}
  NoValue = noValue
SPECIFICATION FairSpec
PROPERTIES
  UpdatesArrive
  ImplementsSubscriptionService
CHECK_DEADLOCK FALSE

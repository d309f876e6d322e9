CONSTANTS
  canonical = canonical
  Conns = {a}
  Classes = {canonical}
  Canon <- MCCanon
  Secs = {s1}
  Params = {p1, p2}
  Ids = {1}
  Values = {v1}
  NoValue = noValue
SPECIFICATION Spec
INVARIANT
  PassCopesWithCancellation
CHECK_DEADLOCK FALSE

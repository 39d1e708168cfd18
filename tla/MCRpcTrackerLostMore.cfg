SPECIFICATION Spec
CONSTANTS
  s1 = s1
  s2 = s2
  c1 = c1
  c2 = c2
  Servers = {s1, s2}
  Clients = {c1}
  Priority <- Equal
  MaxRetry = 2
  MayDie = {s2}
  MaxLost = 1
INVARIANTS
  KeyHandedOutOnce
  FreeEntryIsCurrent
PROPERTIES
  RequestReturns
  AnswerIsFinal

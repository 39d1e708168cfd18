SPECIFICATION Spec
CONSTANTS
  s1 = s1
  s2 = s2
  c1 = c1
  c2 = c2
  Servers = {s1}
  Clients = {c1, c2}
  Priority <- FirstIsUrgent
  MaxRetry = 2
  MayDie = {c1}
  MaxLost = 0
INVARIANTS
  KeyHandedOutOnce
  FreeEntryIsCurrent
  OneClientPerServer
PROPERTIES
  RequestReturns

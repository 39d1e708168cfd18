CONSTANTS
  Servers = {s1, s2}
  Clients = {c1}
  NumKeys = 9
  MaxServerData = 1
  MaxClientData = 1
  MaxLost = 1
SPECIFICATION Spec
CHECK_DEADLOCK FALSE
PROPERTY PendingIsSent

SPECIFICATION Spec
CONSTANTS
  HostNonces = {1, 60, 171}
  DeviceNonces = {7}
  LogSizes = {"shown", "unshown"}
  BufferPackets = 16
  MaxConnects = 2
  MaxResets = 1
  MaxRetries = 2
  MaxEarlyRetries = 1
INVARIANTS
  NoStaleDelivery
  SessionIsShared
  NeverBackToReset
PROPERTIES
  StartEnds
  CallEnds
CHECK_DEADLOCK FALSE

SPECIFICATION Spec
CONSTANTS
  HostNonces = {1, 60, 171}
  DeviceNonces = {7}
  LogSizes = {"shown"}
  BufferPackets = 16
  MaxConnects = 2
  MaxResets = 0
  MaxRetries = 1
  MaxEarlyRetries = 0
PROPERTIES
  StartsRegardless
CHECK_DEADLOCK FALSE

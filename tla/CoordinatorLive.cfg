SPECIFICATION LiveSpec
CONSTANTS
  a = a
  b = b
  None = None
  Devices = {1}
  Clients = {a, b}
  Threads <- MCThreads
  Policy <- AnyDevice
  MaxPlugs = 1
PROPERTIES
  ShutdownTerminates
  RequestsAreRendered
CHECK_DEADLOCK FALSE

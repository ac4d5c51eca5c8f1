SPECIFICATION Spec
CONSTANTS
  a = a
  b = b
  None = None
  Devices = {1}
  Clients = {a}
  Threads <- MCThreads
  Policy <- AnyDevice
  MaxPlugs = 1
CHECK_DEADLOCK FALSE
INVARIANT NoCallIntoDestroyedClient

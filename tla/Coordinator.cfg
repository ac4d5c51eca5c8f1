SPECIFICATION SafeSpec
CONSTANTS
  a = a
  b = b
  None = None
  Devices = {1}
  Clients = {a, b}
  Threads <- MCThreads
  Policy <- AnyDevice
  MaxPlugs = 2
SYMMETRY ClientSymmetry
INVARIANTS
  CallbacksAreSerialized
  LocksAreOrdered
  HandleStaysDuringTick
  ListIsCurrent
CHECK_DEADLOCK FALSE

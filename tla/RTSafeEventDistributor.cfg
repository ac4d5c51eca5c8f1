SPECIFICATION FairSpec
CONSTANTS
  high = high
  low = low
  screen = screen
  RTObservers = {high, low}
  UIObservers = {screen}
  Priority <- Priorities
  QueueCapacity = 1
  MaxUIEventsPerCall = 2
  MaxRTEventsPerCall = 1
  Durations = {0, 1}
  MaxEvents = 2
  MaxStarts = 2
INVARIANTS
  CountersAgree
  ObservedInOrder
PROPERTIES
  QueuedIsDelivered
  SentIsDispatched
CHECK_DEADLOCK FALSE

\* Four slots hold three items: the ring wraps, fills up and runs empty, and a
\* late index can be up to three positions behind.
CONSTANTS
  Capacity = 4
  Items = {a, b}
  Nothing = Nothing

SPECIFICATION FairSpec

INVARIANTS
  TypeOK
  NoSlotRace
  SizeBrackets
  CheckStaysValid

PROPERTIES
  ImplementsFifo
  AcceptedIsDelivered

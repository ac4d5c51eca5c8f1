\* Each part by itself, and the samples of the pure algorithms.
CONSTANTS
  Recorders = {r1, r2}
  \* Every assignment of two names, or none, to two ports.
  Ports = {1, 2}
  PortNames = {"A", "B"}
  NoName = ""
  \* A canvas of four chunks, the last one higher than the others.
  W = 8
  H = 6
  NCHUNKS = 4
  MaxDraws = 2
  Drawings <- SomeDrawings
  Texts <- SomeTexts
  Sixteenths <- SomeNumbers
  \* A ring that wraps, and scopes that begin and end in one microsecond.
  kEventsPerThread = 2
  MaxEvents = 3
  MaxTime = 1
  MaxReports = 3
  \* Reports of the pads are taken in one of two tries; in the code in one of eight.
  MaxSlots = 4
  PadSlots = 2
  MaxSent = 3
SPECIFICATION Spec
SYMMETRY RecorderSymmetry
INVARIANTS
  DrawingsAreRight
  LookupsAreRight
  PictureIsShown
  TextsAreShown
  RestingThreadsAreWhole
  DevicesAreListed
  ReportsAreWhole
CHECK_DEADLOCK FALSE

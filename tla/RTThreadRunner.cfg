SPECIFICATION FairSpec
CONSTANTS
  owner = owner
  f = f
  g = g
  None = None
  Starters = {owner}
  Stoppers = {owner}
  Workers = {1, 2}
  Fns = {f, g}
  Period = 3
  MaxTick = 7
  MaxLate = 8
  Cycle = 4
INVARIANTS
  OneThreadTicks
  QuietAfterStop
  KeepsCadence
  StopIsBounded
  StartIsSafe
PROPERTY
  StopTerminates
CHECK_DEADLOCK FALSE

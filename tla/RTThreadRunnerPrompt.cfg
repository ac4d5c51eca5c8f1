SPECIFICATION Spec
CONSTANTS
  owner = owner
  f = f
  g = g
  None = None
  Starters = {owner}
  Stoppers = {owner}
  Workers = {1, 2}
  Fns = {f, g}
  Period = 4
  MaxTick = 2
  MaxLate = 0
  Cycle = 1
INVARIANT StopIsPrompt
CHECK_DEADLOCK FALSE

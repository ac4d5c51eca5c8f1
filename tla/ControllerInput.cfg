\* All eight classes of controllers, every part of them.
CONSTANTS
  MaxTurns = 4
  MaxSlots = 32
  MessageSizes = {2, 3}
  MaxIn = 3
  MaxExtra = 2
SPECIFICATION MCSpec
INVARIANTS
  PictureIsCurrent
  TurnsKeepDirection
  MidiInIsFramed
CHECK_DEADLOCK FALSE

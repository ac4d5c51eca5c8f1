SPECIFICATION FairSpec
CONSTANTS
  DisplaySeq <- OneDisplay
  GroupSeq <- OneGroup
  Values = {"black", "lit"}
  Chunks = 2
  kMaxSendFrameRetries = 3
  QueueCapacity = 1
  MaxOps = 2
INVARIANTS
  TypeOK
  CleanIsShown
  MidiInOrder
PROPERTIES
  DirtyIsServed
  MidiIsSent
CHECK_DEADLOCK FALSE

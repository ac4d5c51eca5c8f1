\* All eight kinds, up to three devices, every write may fail.
CONSTANTS
  Kinds <- AllKinds
  Pictures <- TwoPictures
  MaxPresent = 3
SPECIFICATION Spec
INVARIANTS
  CleanIsShown
  CatchesUp
  TablesAreConsistent

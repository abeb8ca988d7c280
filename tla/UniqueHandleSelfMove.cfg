CONSTANTS
  s1 = s1
  s2 = s2
  s3 = s3
  d1 = d1
  d2 = d2
  Slots <- MCSlots
  Descriptors <- MCDescriptors
  MaxFiles = 3
  MaxRefs = 2
  DeadStores = TRUE
  UsesDestroyed = TRUE
SYMMETRY Symmetric
SPECIFICATION Spec
INVARIANTS ReleasesOwnFile
CHECK_DEADLOCK FALSE

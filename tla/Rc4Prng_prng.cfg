CONSTANTS
  N = 4
  SeedSizes = {0, 1, 3}
SPECIFICATION Spec
INVARIANTS
  TypeOK
  BufferIsPermutation
  NeverShortCycle
PROPERTY ReadLosesNothing

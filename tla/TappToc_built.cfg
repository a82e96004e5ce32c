SPECIFICATION Spec
CHECK_DEADLOCK FALSE
CONSTANTS
  Taid <- SomeTaids
  Size = {3, 5}
  InfoSize = 2
  MaxFiles = 4
  BufferSize = 67
  Slot = {s1, s2}
INVARIANT
  BuiltFound

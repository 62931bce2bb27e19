\* Writes that wait for space: "skip" is false.
SPECIFICATION Spec
CONSTANTS
  FrameBytes = 2
  Size = 4
  Rows = 2
  ReadFrames = 1
  Skip = FALSE
  MaxBlock = 2
  MaxFrames = 2
  MaxChanges = 1
PROPERTIES EveryByteIsRead
CHECK_DEADLOCK FALSE

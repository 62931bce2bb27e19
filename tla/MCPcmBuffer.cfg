\* Timed writes, as is the default, and a buffer that may be closed anytime.
SPECIFICATION Spec
CONSTANTS
  FrameBytes = 2
  Size = 4
  Rows = 2
  ReadFrames = 1
  Skip = TRUE
  MaxBlock = 2
  MaxFrames = 3
  MaxChanges = 3
INVARIANTS CountsMatchRing CurrentTrackFinished
PROPERTIES InRightPositions EverythingIsRead CloseEndsEncoder
CHECK_DEADLOCK FALSE

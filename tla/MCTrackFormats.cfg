\* Two tracks in every format.
SPECIFICATION Spec
CONSTANTS
  Formats <- All
  Block = 2
  Lookahead = 1
  Threshold = 3
  Width = 16
  Failing = TRUE
  BlockSizes = {1, 3}
  MaxFrames = 5
  MaxTracks = 2
  MaxHeld = 2
INVARIANTS
  FramesAddUp
  PagesNotHeld
  StreamsEnd
PROPERTIES
  MethodsReturn
CHECK_DEADLOCK FALSE

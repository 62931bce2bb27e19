\* A frame is two ticks and a bit, a block one frame, the margin twice that.
SPECIFICATION Spec
CONSTANTS
  Consumers <- Tested
  Second = 9
  Rate = 4
  Size = 3
  Margin = 4
  Threshold = 2
  Burst = 2
  Tracks = {4}
  Packets = {1, 7}
  Horizon = 28
INVARIANTS ClockExact PacedInTime DroppedOnlyIfStarved HeldNoLonger
PROPERTIES SignalEnds
CHECK_DEADLOCK FALSE

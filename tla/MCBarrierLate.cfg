\* An encoder may reach the next round while another one is still to leave the last.
SPECIFICATION BarrierSpec
CONSTANTS
  Encoders = {a, b}
  Half = 8
  MaxSyncs = 5
INVARIANTS Lockstep
CHECK_DEADLOCK FALSE

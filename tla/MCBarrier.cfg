\* Three encoders, and tokens of two bits.
SPECIFICATION BarrierSpec
CONSTANTS
  Encoders = {a, b, c}
  Half = 2
  MaxSyncs = 5
INVARIANTS LockstepUnlessLate
PROPERTIES EveryoneReturns
CHECK_DEADLOCK FALSE

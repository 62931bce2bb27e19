\* The end of the program after a quit command or a signal.
SPECIFICATION Spec
CONSTANTS
  e1 = e1
  e2 = e2
  Encoders = {e1, e2}
  Configurations <- Programs
INVARIANTS
  EverythingPlayed
  BuffersExclusive
PROPERTIES
  ProgramEnds
  FailureStaysLocal
CHECK_DEADLOCK FALSE

\* A file or a card that may fail, or a server that does not, and a broca that
\* discards.
SPECIFICATION Spec
CONSTANTS
  a = a
  d = d
  Brocas = {a, d}
  Order <- FirstA
  Outputs <- AnyKind
  Size = 3
  HeaderSize = 2
  CallbackSize = 3
  Failing = {"file", "portaudio"}
  DataSizes = {0, 2}
  MaxPackets = 2
INVARIANTS Framed EveryPacketHeard
PROPERTIES EncoderIsServed BrocasEnd
CHECK_DEADLOCK FALSE

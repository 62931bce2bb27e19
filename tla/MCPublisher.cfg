\* Two encoders, a broca behind one of them, and one publish queue with little room.
SPECIFICATION PublisherSpec
CONSTANTS
  Decoder = Decoder
  e1 = e1
  b1 = b1
  Encoders = {e1, e2}
  Brocas = {b1}
  Source <- OneBroca
  Queues = {q}
  Room = 2
  MaxCommands = 2
INVARIANTS AcknowledgedInOrder EventsAccounted
PROPERTIES PublisherEnds
CHECK_DEADLOCK FALSE

SPECIFICATION Spec
CONSTANTS
  Readers = {r}
  Writers = {w, p}
  NoWaitWriters = {p}
  Values = {a, b}
  Size = 2
  MaxChunk = 3
  MaxOffered = 3
INVARIANTS TypeOK NoLostWakeup
PROPERTIES FifoSpec CloseIsFinal

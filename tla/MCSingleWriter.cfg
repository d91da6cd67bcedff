CONSTANTS
  Names = {a, b}
  Writes = {w, stubbytes}
  None = None
  Torn = Torn
  MaxFaults = 1
  w1 = w1
  w2 = w2
  Workers = {w1, w2}
  Ops <- TwoWriters
  StubBytes = stubbytes
  Evictions = FALSE
  MaxIno = 3
SPECIFICATION SerialSpec
SYMMETRY Files
INVARIANTS ServerInv WriterInv ExclusiveInv SafeWritesKept ReadsFresh ExclusiveCreatesNew
PROPERTIES FileidsNotReused

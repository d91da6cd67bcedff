CONSTANTS
  Names = {a}
  Writes = {w, stubbytes}
  None = None
  Torn = Torn
  MaxFaults = 0
  w1 = w1
  w2 = w2
  Workers = {w1, w2}
  Ops <- Evicted
  StubBytes = stubbytes
  Evictions = TRUE
  MaxIno = 3
SPECIFICATION NfsSpec
INVARIANTS NoPlaceholderServed
PROPERTIES FileidsNotReused RequestsAnswered

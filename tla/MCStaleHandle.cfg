CONSTANTS
  Names = {a}
  Writes = {w, stubbytes}
  None = None
  Torn = Torn
  MaxFaults = 0
  w1 = w1
  w2 = w2
  Workers = {w1}
  Ops <- OneClient
  StubBytes = stubbytes
  Evictions = FALSE
  MaxIno = 3
SPECIFICATION NfsSpec
INVARIANTS StagedPathsPresent

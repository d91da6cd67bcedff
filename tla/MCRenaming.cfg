CONSTANTS
  Names = {a, b}
  Writes = {stubbytes}
  None = None
  Torn = Torn
  MaxFaults = 0
  w1 = w1
  w2 = w2
  Workers = {w1}
  Ops <- Renaming
  StubBytes = stubbytes
  Evictions = TRUE
  MaxIno = 3
SPECIFICATION NfsSpec
SYMMETRY Files
PROPERTIES ImplementsLayer

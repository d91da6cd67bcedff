CONSTANTS
  Paths = {file}
  StubPaths = {}
  Calls = {c1, c2}
  None = None
  DaemonStops = FALSE
SPECIFICATION SessionSpec
INVARIANTS CallsIndependent

CONSTANTS
  Paths = {file}
  StubPaths = {}
  Calls = {c1, c2}
  None = None
  DaemonStops = TRUE
SPECIFICATION SessionSpec
INVARIANTS SessionInv NoInvalidTransition
PROPERTIES FailureRecorded ConnectionsEnd CacheConverges ImplementsService

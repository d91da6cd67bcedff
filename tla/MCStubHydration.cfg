CONSTANTS
  Paths = {stubfile}
  StubPaths = {stubfile}
  Calls = {c1}
  None = None
SPECIFICATION Spec
INVARIANTS LocalFileFound

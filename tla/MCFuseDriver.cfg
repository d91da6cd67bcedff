CONSTANTS
  Names = {a}
  Threads = {t1, t2}
  MaxIno = 4
  MaxFh = 2
  MaxRefs = 3
  None = None
SPECIFICATION Spec
INVARIANTS DriverInv RefsCounted OpenFilesReal OpensFindInode
PROPERTIES TasksEnd

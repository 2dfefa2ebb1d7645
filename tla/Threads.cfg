CONSTANTS
  Children = 2
  Fds = {1, 2}
  Room <- MCRoom
  MainRoom = 1
  Programs = {"threads", "echo"}
SPECIFICATION FairSpec
INVARIANTS MemoryIntact OneCloser
PROPERTIES OneUser Released
CHECK_DEADLOCK FALSE

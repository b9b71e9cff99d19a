\* One handle and the checkpointer; two kills or power failures.
SPECIFICATION Spec
CONSTANTS
  Conns = {c1}
  None = None
  Pages = {1, 2}
  WAL_NREADER = 3
  Faults = {"kill", "power"}
  maxStamp = 2
  maxSalt = 3
  maxFaults = 2
PROPERTY RecoversCommits
CHECK_DEADLOCK FALSE

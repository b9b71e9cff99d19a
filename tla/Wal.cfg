\* Two handles and the checkpointer, no faults.
SPECIFICATION Spec
CONSTANTS
  Conns = {c1, c2}
  None = None
  Pages = {1, 2}
  WAL_NREADER = 3
  Faults = {}
  maxStamp = 2
  maxSalt = 2
  maxFaults = 0
SYMMETRY ConnSymmetry
INVARIANT SnapshotReads
CHECK_DEADLOCK FALSE

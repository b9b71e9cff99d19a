\* Two views, two URLs, two loads: shared, replaced and cancelled downloads.
SPECIFICATION Spec
CONSTANTS
  Views = {v1, v2}
  URLs = {u1, u2}
  None = None
  maxLoads = 2
  maxDownloads = 2
INVARIANTS TypeOK NoStaleImage EntryIsKnown
PROPERTY LoadsEnd
CHECK_DEADLOCK FALSE

SPECIFICATION Spec
CONSTANTS
  s1 = s1  s2 = s2  s3 = s3
  SongIDs <- MCSongIDs
  Size <- MCSize
  maxCacheSize = 4
  maxTasks = 1
  maxClock = 4
INVARIANTS TypeOK SizeBound MissingOnlyMidReplace
PROPERTIES PruneIsLRU EvictsTrulyOldest

SPECIFICATION Spec
CONSTANTS
  SongIDs = {s1, s2}
  WriteResults = {TRUE, FALSE}
  maxTasks = 2
INVARIANTS TypeOK FileIffRow ShownRowsExist
PROPERTY OrphanIsForever

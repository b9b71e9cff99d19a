\* The manager with its views: a list of two objects of one song, one user download.
SPECIFICATION ViewSpec
CONSTANTS
  m1 = m1  m2 = m2  s1 = s1  None = None
  Models <- MCModels
  SongIDs <- MCSongIDs
  songID <- MCsongID
  Lists <- MCLists
  maxPending = 1
  maxBackground = 2
  maxBlocks = 2
  maxTasks = 1
INVARIANTS TypeOK RunningImpliesIsPlaying PreloadFlagBacked ButtonsAgree DrainedPageIsCurrent

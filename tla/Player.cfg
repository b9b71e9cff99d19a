\* The manager with a free user: two songs as three objects, lists of three and of one.
SPECIFICATION FairSpec
CONSTANTS
  m1 = m1  m2 = m2  m3 = m3  s1 = s1  s2 = s2  None = None
  Models <- MCModels
  SongIDs <- MCSongIDs
  songID <- MCsongID
  Lists <- MCLists
  maxPending = 1
  maxBackground = 1
INVARIANTS CurrentIsPlaylistEntry SettledPlaybackMatches
PROPERTIES QueueIsCursor AutoPlayInOrder StallsOnlyOnFailure

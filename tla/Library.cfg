\* Three songs, recents cut at two; reads may overtake each other.
SPECIFICATION Spec
CONSTANTS
  SongIDs = {s1, s2, s3}
  limit = 2
  maxChanges = 4
  maxReads = 2
INVARIANTS LikedListExact CompleteBelowLimit

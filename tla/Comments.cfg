SPECIFICATION FairSpec
CONSTANTS
  feedSize = 8
  limit = 3
  maxPosts = 5
INVARIANTS TypeOK NothingSkipped RepeatsOnlyFromPosts EndMeansAll
PROPERTY PagingEnds
CHECK_DEADLOCK FALSE

\* Two keywords; requests, blocks and edits in any order.
SPECIFICATION SearchSpec
CONSTANTS
  Keywords = {a, b}
  Empty = Empty
  maxRequests = 1
  maxBlocks = 2
INVARIANTS SearchTypeOK SettledResultsMatch
PROPERTY TextIsSearched

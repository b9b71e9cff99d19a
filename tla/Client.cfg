\* Two calls of GET; init's callback may list any live task.
SPECIFICATION Spec
CONSTANTS
  Requests = {r1, r2}
  None = None
  maxChunks = 2
INVARIANTS TypeOK WholeBody DelegatesFreed
PROPERTIES AnswersOnce AnsweredUnlessReplaced
CHECK_DEADLOCK FALSE

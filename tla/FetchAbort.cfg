SPECIFICATION FetchSpec
CONSTANTS
  Requests = {r1}
  Size = 1
INVARIANT AbortIsReal
CHECK_DEADLOCK FALSE

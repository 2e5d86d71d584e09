SPECIFICATION WatchSpec
CONSTANTS
  Watchers = {w1, w2}
  Iterators = {w2}
  Limit = 1
  MaxEvents = 1
INVARIANT EmittersNeverHold
CHECK_DEADLOCK FALSE

SPECIFICATION CompatFair
CONSTANTS
  Requests = {r1}
  Size = 2
  Watchers = {w1, w2}
  Iterators = {w2}
  Limit = 1
  MaxEvents = 3
  Rows = 3
  MaxReads = 3
INVARIANTS
  NoBodyIsLost EndIsWhole
  GapIsTold OnlyFailedLinger
  OkIsWhole EncoderFreed
PROPERTIES GivenUpEnds IteratorServed PipelineEnds
CHECK_DEADLOCK FALSE

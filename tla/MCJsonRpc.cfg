SPECIFICATION FairSpec
CONSTANTS
  p1 = p1
  s1 = s1
  None = None
  Opener = Opener
  Prompts = {p1}
  Sessions = {s1}
  SessionOf <- Single
  MaxChatter = 2
  Repeated = {p1}
  MaxAnswers = 2
  Bodies = {"ok", "error"}
INVARIANTS IntervalExact NoLostWakeup StuckByARepeat EndIsAhead
PROPERTIES ImplementsCarrier PromptsReturn ExitEndsCalls CloseReturns

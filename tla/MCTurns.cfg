SPECIFICATION FairSpec
CONSTANTS
  r1 = r1
  r2 = r2
  r3 = r3
  s1 = s1
  s2 = s2
  None = None
  Runs = {r1, r2, r3}
  Sessions = {s1, s2}
  SessionOf <- TwoSessions
  Answers = {s1}
  Impatient = {r1, r3}
  Steady = {s1}
INVARIANTS OutcomeIsOwn WaiterHasWork ServedOnce
PROPERTIES ImplementsSerialJobs RunsReturn CancelledRunsReturn

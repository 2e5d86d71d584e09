SPECIFICATION InProcessFairSpec
CONSTANTS
  r1 = r1
  r2 = r2
  s1 = s1
  None = None
  Runs = {r1, r2}
  Sessions = {s1}
  SessionOf <- Alone
  Answers = {}
  Steady = {}
  Impatient = {r1}
  Capacity = 2
  MaxEvents = 1
INVARIANT InWireOrder
PROPERTIES ImplementsCarrier SilentAfterClose ReachesItsRun CallersReturn CancelledRunReturns

SPECIFICATION Spec
CONSTANTS
  r1 = r1
  r2 = r2
  r3 = r3
  s1 = s1
  s2 = s2
  None = None
  Runs = {r1, r2}
  Sessions = {s1}
  SessionOf <- Alone
  Answers = {}
  Impatient = {r1, r2}
  Steady = {s1}
INVARIANT OneAtATime

SPECIFICATION FairSpec
CONSTANTS
  m1 = m1
  m2 = m2
  e1 = e1
  w1 = w1
  Close = Close
  None = None
  Teardown = Teardown
  Mounts = {m1, m2}
  Effects = {e1}
  Workers = {w1}
  MountOf <- Both
  MaxDisposers = 2
INVARIANTS
  CallsAreAnswered
  RevertedBeforeDisposers
  NothingForgotten
PROPERTIES
  DisposedOnce
  CloseWakes
\* The program ends when the bridge is closed and nobody is inside it; that it
\* ends nowhere else, once the harness closes, is what CloseWakes says.
CHECK_DEADLOCK FALSE

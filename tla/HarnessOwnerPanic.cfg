CONSTANTS
  Calls = {c1, c2}
  Starts = {s1}
  Closes = {k1}
  None = None
  HasPlugins = TRUE
SPECIFICATION Spec
INVARIANT SafeFromAnyGoroutine

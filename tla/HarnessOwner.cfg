SPECIFICATION FairSpec
CONSTANTS
  Calls = {c1, c2}
  Starts = {s1}
  Closes = {k1}
  None = None
  HasPlugins = TRUE
INVARIANTS StoppedMeansReleased ChannelsClosedOnce NobodyWaitsInVain
PROPERTIES ImplementsSerialJobs CancelledJobEnds CallersReturn

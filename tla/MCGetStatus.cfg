SPECIFICATION PollSpec
CONSTANTS
  s1 = s1
  s2 = s2
  s3 = s3
  k1 = k1
  k2 = k2
  None = None
  Streams <- TwoStreams
  RunIds <- TwoRunIds
  MaxRuns = 2
  Workers = 2
  MaxActive = 2
  MaxIteration = 1
  MaxCrashes = 1
  MaxFaults = 0
SYMMETRY Symmetry
INVARIANTS
  StatusAfterTerminal
PROPERTIES
  CheckpointNeverRegresses

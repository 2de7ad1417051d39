SPECIFICATION PollSpec
CONSTANTS
  s1 = s1
  s2 = s2
  s3 = s3
  k1 = k1
  k2 = k2
  None = None
  Streams <- TwoStreams
  RunIds <- OneRunId
  MaxRuns = 1
  Workers = 1
  MaxActive = 1
  MaxIteration = 1
  MaxCrashes = 0
  MaxFaults = 0
SYMMETRY Symmetry
INVARIANTS
  FailedAnswerHasMessage

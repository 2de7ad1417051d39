SPECIFICATION Spec
CONSTANTS
  s1 = s1
  s2 = s2
  s3 = s3
  k1 = k1
  k2 = k2
  k3 = k3
  None = None
  Streams <- TwoStreams
  RunIds <- OneRunId
  MaxRuns = 1
  Workers = 2
  MaxActive = 1
  MaxIteration = 0
  MaxCrashes = 0
  MaxFaults = 1
PROPERTIES
  DisconnectFreesRunId

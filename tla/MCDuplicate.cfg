SPECIFICATION SafetySpec
CONSTANTS
  s1 = s1
  s2 = s2
  s3 = s3
  k1 = k1
  k2 = k2
  k3 = k3
  None = None
  Streams <- ThreeStreams
  RunIds <- TwoRunIds
  MaxRuns = 1
  Workers = 1
  MaxActive = 3
  MaxIteration = 1
  MaxCrashes = 0
  MaxFaults = 0
SYMMETRY Symmetry
PROPERTIES
  DuplicateRejected

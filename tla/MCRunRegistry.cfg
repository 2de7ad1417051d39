SPECIFICATION SafetySpec
CONSTANTS
  s1 = s1
  s2 = s2
  s3 = s3
  k1 = k1
  k2 = k2
  k3 = k3
  None = None
  Streams <- ThreeStreams
  RunIds <- ThreeRunIds
  MaxRuns = 2
  Workers = 1
  MaxActive = 2
  MaxIteration = 1
  MaxCrashes = 1
  MaxFaults = 1
SYMMETRY Symmetry
INVARIANTS
  TypeOK
  RegistryTracksActive
  ExclusiveRunDir
  TerminalAgreesWithStatus
  TableIsBounded
  OnlyFaultsLoseRuns

SPECIFICATION ServerSpec
CONSTANTS
  s1 = s1
  s2 = s2
  s3 = s3
  k1 = k1
  k2 = k2
  p1 = p1
  None = None
  Streams <- TwoStreams
  RunIds <- OneRunId
  Polls <- OnePoll
  MaxRuns = 1
  Workers = 1
  MaxActive = 2
  MaxIteration = 0
  MaxCrashes = 0
  MaxFaults = 0
INVARIANTS
  ExitIsClean
PROPERTIES
  ShutdownCompletes
  WorkerComesBack
  PollIsServed
  DisconnectFreesRunId

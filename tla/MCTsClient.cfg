SPECIFICATION TsSpec
CONSTANTS
  q1 = q1
  q2 = q2
  q3 = q3
  None = None
  Requests <- ThreeRequests
  MaxProgress = 1
  MaxUplink = 2
INVARIANTS
  ResolvedIsQuiet
PROPERTIES
  IsRunStreamClient
  RejectedEndsRun
  PromiseSettles

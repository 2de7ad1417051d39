SPECIFICATION RustSpec
CONSTANTS
  q1 = q1
  q2 = q2
  q3 = q3
  None = None
  Requests <- ThreeRequests
  MaxProgress = 1
  MaxUplink = 2
  ChannelSize = 2
INVARIANTS
  OkIsComplete
  SendNeverWaits
PROPERTIES
  IsRunStreamClient
  ReturnEndsRun
  FutureReturns

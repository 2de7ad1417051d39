SPECIFICATION Spec
CONSTANTS
  main = main
  helper = helper
  q1 = q1
  q2 = q2
  q3 = q3
  None = None
  Callers <- TwoCallers
  MainCaller = main
  Requests <- TwoRequests
INVARIANTS
  OneOwner
  SettledOnce
  NoOrphanedCall
PROPERTIES
  ImplementsRemoteCall
  CancelWakesCallers
  ResponseWakesCaller

SPECIFICATION Spec
CONSTANTS
  c1 = c1
  c2 = c2
  NoCandidate = NoCandidate
  Candidates <- TwoCandidates
  MaxScore = 2
  Float32 <- Rounded
  MaxCalls = 3
  MaxUpdates = 2
SYMMETRY Symmetry
INVARIANTS
  UpdatesRise
  BestWasSeen
  StatusNotBehind

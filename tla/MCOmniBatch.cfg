SPECIFICATION Spec
CONSTANTS
  c1 = c1
  c2 = c2
  c3 = c3
  Candidates <- ThreeCandidates
  Dataset <- OneExample
  OwnExamples <- NoExample
  Text <- TwoTexts
  MaxPairs = 3
INVARIANTS
  ReturnsPairwise
  RequestsPartitionBatch
  StatesAligned
  HistoryReadBack
  ClientSeesItsExamples

SPECIFICATION Spec
CONSTANTS
  Requests = {c1, c2, c3, c4}
  BlockNum = 3
  TotalSize = 4
  Sizes = {1, 2}
  MaxInFlight = 1
  MaxFaults = 2
  NoFile = NoFile
  Torn = Torn
INVARIANT TypeOK
INVARIANT ProcessedIsWhole
INVARIANT AnsweredStaysSaved
INVARIANT InfoMatchesDisk
SYMMETRY AnyRequest
CHECK_DEADLOCK FALSE

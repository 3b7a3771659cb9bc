SPECIFICATION Spec
CONSTANTS
  Requests = {c1, c2, c3}
  BlockNum = 2
  TotalSize = 3
  Sizes = {1, 2}
  MaxInFlight = 2
  MaxFaults = 0
  NoFile = NoFile
  Torn = Torn
INVARIANT ProcessedIsWhole
SYMMETRY AnyRequest
CHECK_DEADLOCK FALSE

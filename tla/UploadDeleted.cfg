SPECIFICATION FairSpec
CONSTANTS
  u1 = u1
  u2 = u2
  p1 = p1
  p2 = p2
  d1 = d1
  r1 = r1
  v1 = v1
  Users = {u1}
  Requests = {p1, d1}
  Account <- OneAccount
  Fragments = {"f"}
  Seconds = {"1", "2", "3"}
  Second <- DistinctSeconds
  Deletes = {d1}
  Restores = {}
  Views = {}
  Chunked = {}
  Downloads = FALSE
  OtherGateway = {}
  Deauthorisable = {}
  MaxFaults = 0
  NoRecord = NoRecord
  Torn = Torn
  NoOrder = NoOrder
PROPERTY DeletedStaysDeleted
CHECK_DEADLOCK FALSE

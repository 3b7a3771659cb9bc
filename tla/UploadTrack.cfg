SPECIFICATION Spec
CONSTANTS
  u1 = u1
  u2 = u2
  p1 = p1
  p2 = p2
  d1 = d1
  r1 = r1
  v1 = v1
  Users = {u1, u2}
  Requests = {p1, p2, r1, v1}
  Account <- TwoAccounts
  Fragments = {"f"}
  Seconds = {"1", "2", "3"}
  Second <- DistinctSeconds
  Deletes = {}
  Restores = {r1}
  Views = {v1}
  Chunked = {}
  Downloads = TRUE
  OtherGateway = {u2}
  Deauthorisable = {}
  MaxFaults = 1
  NoRecord = NoRecord
  Torn = Torn
  NoOrder = NoOrder
INVARIANT TypeOK
INVARIANT NoAckedFileLost
INVARIANT PendingOrderIsRecorded
PROPERTY ViewMissesOnlyStored
CHECK_DEADLOCK FALSE

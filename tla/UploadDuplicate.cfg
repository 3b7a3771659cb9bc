SPECIFICATION Spec
CONSTANTS
  u1 = u1
  u2 = u2
  p1 = p1
  p2 = p2
  d1 = d1
  r1 = r1
  v1 = v1
  Users = {u1, u2}
  Requests = {p1}
  Account <- OneAccount
  Fragments = {"f"}
  Seconds = {"1", "2", "3"}
  Second <- DistinctSeconds
  Deletes = {}
  Restores = {}
  Views = {}
  Chunked = {}
  Downloads = FALSE
  OtherGateway = {u2}
  Deauthorisable = {}
  MaxFaults = 0
  NoRecord = NoRecord
  Torn = Torn
  NoOrder = NoOrder
INVARIANT AckedNotForgotten
CHECK_DEADLOCK FALSE

SPECIFICATION FairSpec
CONSTANTS
  u1 = u1
  u2 = u2
  p1 = p1
  p2 = p2
  c1 = c1
  e1 = e1
  g1 = g1
  Users = {u1, u2}
  Requests = {p1, p2, c1, e1, g1}
  Account <- AccountOf
  Puts = {p1, p2, e1}
  Chunked = {c1}
  Exempt = {u2}
  Length <- LengthOf
  Size <- SizeOf
  Space <- SpaceOf
  max_concurrent_req = 2
  max_concurrent_get = 1
  Access = "public"
  Accounts = {}
  MaxFaults = 1
INVARIANT TypeOK
INVARIANT TokensConserved
PROPERTY RefusedOnlyOvertaken
PROPERTY EveryoneServed

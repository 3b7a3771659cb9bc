SPECIFICATION FairSpec
CONSTANTS
  Batches = {1, 2}
  Segments = 2
  Peers = {q1, q2, q3}
  NoPeer = NoPeer
  MaxFaults = 2
INVARIANT TypeOK
INVARIANT LoggedGotFirst
PROPERTY SentWhereMissing
PROPERTY OrderCompletes
CHECK_DEADLOCK FALSE

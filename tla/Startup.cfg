SPECIFICATION FairSpec
CONSTANTS
  Miners = {"m1", "m2"}
  MaxChanges = 2
  MaxFaults = 2
  MaxExits = 1
INVARIANT TypeOK
INVARIANT RunsAnnounced
INVARIANT NilOnlyIfFailed
PROPERTY RecordsSurvive
PROPERTY EventuallyRuns
PROPERTY PeersSettle

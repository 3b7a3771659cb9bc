\* A download beside an open, two requests at a time, any two faults.
SPECIFICATION FairSpec
CONSTANTS
  NoFile = NoFile
  Clients = {"get", "open"}
  Opens = {"open"}
  Segments = 2
  MaxInFlight = 2
  MaxFaults = 2
INVARIANT TypeOK
PROPERTY NoLeftovers
PROPERTY DownloadRecovers


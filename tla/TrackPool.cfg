SPECIFICATION FairSpec
CONSTANTS
  Files <- MCFiles
  MaxTrackThread = 2
  MaxFaults = 1
INVARIANT TypeOK
INVARIANT OneThreadPerFile
INVARIANT ThreadsBounded
INVARIANT RegistrationInv
PROPERTY WorkersSpec
PROPERTY ServedWhenRoomy

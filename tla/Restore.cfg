SPECIFICATION FairSpec
CONSTANTS
  a = a
  b = b
  c = c
  Torn = Torn
  Files = {a, b, c}
  Chain <- MCChain
  MaxCrashes = 2
  MaxFailures = 2
INVARIANT TypeOK
INVARIANT CrashLosesNothing
INVARIANT OncePerLife
INVARIANT RestoreTruthful
PROPERTY CatchesUp
CHECK_DEADLOCK FALSE

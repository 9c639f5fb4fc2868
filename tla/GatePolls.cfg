\* A finder at each tier, two other requests in flight; handlers, Redis and the server may fail.
SPECIFICATION FairSpec
CONSTANTS
  p1 = p1  p2 = p2
  Pollers <- TwoPollers
  Mode <- TwoModes
  Calls = {1, 2}
  RowIds = {1, 2}
  Faults = TRUE
  MaxCalls = 3
INVARIANTS
  TypeOK
  NoMissedWork
  NoMissedResume
PROPERTIES
  WorkIsServed

\* Two entries, two scripts, three faults.
CONSTANTS
  NumEntries = 2
  NumScripts = 2
  MaxFaults = 3
SPECIFICATION FairSpec
INVARIANT TypeOK
INVARIANT AsIsIsComplete
PROPERTY ServedIsKept
PROPERTY Recovers
CHECK_DEADLOCK FALSE

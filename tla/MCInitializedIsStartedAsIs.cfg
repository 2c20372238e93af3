\* Two faults: the marker cannot be removed, the container restarts.
CONSTANTS
  NumEntries = 1
  NumScripts = 1
  MaxFaults = 2
SPECIFICATION Spec
INVARIANT InitializedIsStartedAsIs
CHECK_DEADLOCK FALSE

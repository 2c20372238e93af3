\* Two entries: one that the wipe has passed and one it has yet to reach.
CONSTANTS
  NumEntries = 2
  NumScripts = 1
  MaxFaults = 1
SPECIFICATION Spec
INVARIANT OnlyKillLeavesPartial
CHECK_DEADLOCK FALSE

CONSTANTS
  Interval = 3
  Timeout = 2
  StaleBounds = {9}
SPECIFICATION Spec
INVARIANT TimeoutBoundsCycle

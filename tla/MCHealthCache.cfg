\* The smallest interval with two lengths of wait below it, and the factors 1 and 3.
CONSTANTS
  Interval = 3
  Timeout = 2
  StaleBounds = {3, 9}
SPECIFICATION Spec
INVARIANT TypeOK
INVARIANT ReplacedInTime
INVARIANT StaysLive
INVARIANT ReadyIsHonest
INVARIANT LastSuccessKept
INVARIANT StatsFollowCheck
PROPERTY ImplementsCycle

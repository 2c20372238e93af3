\* Two orphans beside the server.  The reaper's channel holds two signals (eight in
\* the code), so that three deaths fill it before its post and at any time after.
CONSTANTS
  Orphans = {o1, o2}
  ChldCap = 2
  SigCap = 2
  ExitCodes = {0, 3}
  DeathSignals = {9}
SPECIFICATION FairSpec
INVARIANT TypeOK
INVARIANT NoLostWakeup
INVARIANT ReaperBlocksOnlyOnBurst
INVARIANT ExitZeroIsClean
PROPERTY ZombiesReaped
PROPERTY AcceptedTermEnds
PROPERTY ImplementsService
CHECK_DEADLOCK FALSE

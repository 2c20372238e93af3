\* One orphan is enough: the counterexample needs a started server and a signal.
CONSTANTS
  Orphans = {o1}
  ChldCap = 2
  SigCap = 2
  ExitCodes = {0, 3}
  DeathSignals = {9}
SPECIFICATION Spec
INVARIANT TermAlwaysDrains
CHECK_DEADLOCK FALSE

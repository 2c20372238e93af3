\* One table and the action whose tables are dropped at the end.
CONSTANTS
  Tables = {t1}
  Actions = {"create-drop"}
SPECIFICATION Spec
INVARIANT CreateDropDropsTables
CHECK_DEADLOCK FALSE

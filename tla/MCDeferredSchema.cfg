\* One table, there or not; `create` acts as `create-drop` but for the drop.
CONSTANTS
  Tables = {t1}
  Actions = {"none", "validate", "update", "create-drop"}
SPECIFICATION Spec
INVARIANT TypeOK
INVARIANT ReadyMeansApplied
INVARIANT CloseWakesWorker
INVARIANT NothingAfterDrop
PROPERTY AppliedTablesKept
PROPERTY AppliedInTimeIsDropped
PROPERTY StartsWithoutDatabase
PROPERTY ReadyWhenDatabaseStays
CHECK_DEADLOCK FALSE

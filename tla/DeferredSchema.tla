--------------------------- MODULE DeferredSchema ---------------------------
(***************************************************************************)
(* The Backend between the start of its context and its exit.  Five actors *)
(* share volatile fields without a lock: the thread that delivers the      *)
(* ready event (main), the health checker, the schema-action thread        *)
(* (worker), the thread that closes the session factory (closer), and the  *)
(* signal handler with its drain thread.                                   *)
(*                                                                         *)
(* Hibernate, Spring and PostgreSQL are external.  A schema action is its  *)
(* statements, one table each; it throws when it gets no connection, when  *)
(* it loses it or when `validate` misses a table, but may also skip a      *)
(* statement that fails, as Hibernate does unless told to halt; it         *)
(* registers the delayed drop of `create-drop` last.  Spring closes a      *)
(* context once, and not before it has been refreshed.  How long a         *)
(* snapshot stays fresh is left to HealthCache.                            *)
(***************************************************************************)
CONSTANTS
  Tables,     \* the mapped tables
  Actions     \* the schema actions to consider, all of ActionNames or some

ActionNames == {"none", "validate", "update", "create", "create-drop"}

ASSUME SchemaConstants == Actions \subseteq ActionNames

VARIABLES
  action,       \* SPRING_JPA_HIBERNATE_DDL_AUTO
  main,         \* next step of the ready event, then "install" and "up"
  registered,   \* the checks registered with the checker
  contextReady, started, draining,    \* HealthState's flags
  loop,         \* where the checker is in its cycle
  sawReady,     \* runCycle's local contextReady
  current, waiting, failed,           \* runCycle's copy of the checks; those without an outcome;
                                      \* the failed results
  snapshot,     \* the published results: the names, and those that failed
  workerSet,    \* the field worker is not null
  worker,       \* where the schema-action thread is
  interrupted,  \* its interrupt status
  stopped, applied, delayedDrop,      \* DeferredSchemaAction's fields
  closer,       \* where the closing of the session factory is
  hook,         \* the JVM runs its shutdown hooks: a signal came before install()
  initiated,    \* SignalShutdown.initiated: a signal was handled
  dbUp, tables, \* the database accepts connections; the tables it has
  dropped, dropFailed                 \* history: how the delayed drop ended

readiness == <<registered, contextReady>>
cycle     == <<sawReady, current, waiting, failed>>
checker   == <<loop, cycle, snapshot, started>>
thread    == <<workerSet, worker, interrupted>>
fields    == <<stopped, applied, delayedDrop>>
closing   == <<closer, dropped, dropFailed>>
signals   == <<hook, initiated, draining>>
database  == <<dbUp, tables>>
vars == <<action, main, readiness, checker, thread, fields, closing, signals, database>>

Checks == {"database", "schema"}

NoSnapshot == [names |-> {}, failed |-> {}]

TypeOK ==
  /\ action \in Actions
  /\ main \in {"refresh", "database", "schema", "action", "thread", "mark", "install", "up"}
  /\ registered \subseteq Checks
  /\ contextReady \in BOOLEAN /\ started \in BOOLEAN /\ draining \in BOOLEAN
  /\ loop \in {"begin", "copy", "collect", "latch", "sleep"}
  /\ sawReady \in BOOLEAN
  /\ current \subseteq Checks /\ waiting \subseteq current
  /\ failed \subseteq Checks \cup {"spring-context"}
  /\ snapshot \in [names : SUBSET (Checks \cup {"spring-context"}),
                   failed : SUBSET (Checks \cup {"spring-context"})]
  /\ workerSet \in BOOLEAN /\ interrupted \in BOOLEAN
  /\ worker \in {"new", "test", "process", "ddl", "returned", "caught", "sleep", "done"}
  /\ stopped \in BOOLEAN /\ applied \in BOOLEAN /\ delayedDrop \in BOOLEAN
  /\ closer \in {"none", "interrupt", "join", "read", "drop", "closed", "exited"}
  /\ hook \in BOOLEAN /\ initiated \in BOOLEAN
  /\ dbUp \in BOOLEAN /\ tables \subseteq Tables
  /\ dropped \in BOOLEAN /\ dropFailed \in BOOLEAN

\* System.exit and the end of the shutdown hooks stop every thread.
Running == closer # "exited"

Init ==
  /\ action \in Actions
  /\ main = "refresh"
  /\ registered = {} /\ contextReady = FALSE /\ started = FALSE /\ draining = FALSE
  /\ loop = "begin" /\ sawReady = FALSE /\ current = {} /\ waiting = {} /\ failed = {}
  /\ snapshot = NoSnapshot
  /\ workerSet = FALSE /\ worker = "new" /\ interrupted = FALSE
  /\ stopped = FALSE /\ applied = FALSE /\ delayedDrop = FALSE
  /\ closer = "none" /\ hook = FALSE /\ initiated = FALSE
  /\ dbUp \in BOOLEAN /\ tables \in SUBSET Tables
  /\ dropped = FALSE /\ dropFailed = FALSE

-----------------------------------------------------------------------------
(* main: the ready event's listener, then SignalShutdown.install.          *)

\* SpringApplication.run refreshes the context and delivers the ready event.
Refreshed ==
  /\ main = "refresh" /\ main' = "database"
  /\ UNCHANGED <<readiness, thread, applied>>

\* Variant: the context counts as ready before the last check is registered.
RegisterDatabaseAndMark ==
  /\ main = "database" /\ main' = "schema"
  /\ registered' = registered \cup {"database"}
  /\ contextReady' = TRUE
  /\ UNCHANGED <<thread, applied>>

RegisterDatabase ==
  /\ main = "database" /\ main' = "schema"
  /\ registered' = registered \cup {"database"}
  /\ UNCHANGED <<contextReady, thread, applied>>

RegisterSchema ==
  /\ main = "schema" /\ main' = "action"
  /\ registered' = registered \cup {"schema"}
  /\ UNCHANGED <<contextReady, thread, applied>>

\* Variant: the thread is started without its field set.
StartActionUnset ==
  /\ main = "action"
  /\ IF action = "none"
     THEN main' = "mark" /\ applied' = TRUE
     ELSE main' = "thread" /\ UNCHANGED applied
  /\ UNCHANGED <<readiness, thread>>

\* start(): applied at once without an action, otherwise the field is set first.
StartAction ==
  /\ main = "action"
  /\ IF action = "none"
     THEN main' = "mark" /\ applied' = TRUE /\ UNCHANGED workerSet
     ELSE main' = "thread" /\ workerSet' = TRUE /\ UNCHANGED applied
  /\ UNCHANGED <<readiness, worker, interrupted>>

StartThread ==
  /\ main = "thread" /\ main' = "mark"
  /\ worker' = "test"
  /\ UNCHANGED <<readiness, workerSet, interrupted, applied>>

MarkContextReady ==
  /\ main = "mark" /\ main' = "install"
  /\ contextReady' = TRUE
  /\ UNCHANGED <<registered, thread, applied>>

Install ==
  /\ main = "install" /\ main' = "up"
  /\ UNCHANGED <<readiness, thread, applied>>

Main ==
  /\ Running
  /\ \/ Refreshed \/ RegisterDatabase \/ RegisterSchema \/ StartAction \/ StartThread
     \/ MarkContextReady \/ Install
  /\ UNCHANGED <<action, checker, stopped, delayedDrop, closing, signals, database>>

-----------------------------------------------------------------------------
(* HealthChecker.runCycle.  Its locals are cleared after their last use.    *)

ReadContext ==
  /\ loop = "begin" /\ loop' = "copy"
  /\ sawReady' = contextReady
  /\ failed' = IF contextReady THEN {} ELSE {"spring-context"}
  /\ UNCHANGED <<current, waiting, snapshot, started>>

\* Variant: the checks submitted are not those of the copy.
CopyChecksLive ==
  /\ loop = "copy" /\ loop' = "collect"
  /\ waiting' = registered
  /\ UNCHANGED <<sawReady, current, failed, snapshot, started>>

CopyChecks ==
  /\ loop = "copy" /\ loop' = "collect"
  /\ current' = registered /\ waiting' = registered
  /\ UNCHANGED <<sawReady, failed, snapshot, started>>

\* A check's worker runs it at any time before its outcome is collected; the
\* database check also fails when it times out, and then its late outcome is
\* dropped.
Passes(c) == IF c = "database" THEN dbUp ELSE applied

RunCheck(c) ==
  /\ loop = "collect" /\ c \in waiting
  /\ waiting' = waiting \ {c}
  /\ failed' = IF Passes(c) THEN failed ELSE failed \cup {c}
  /\ UNCHANGED <<loop, sawReady, current, snapshot, started>>

SwapSnapshot ==
  /\ loop = "collect" /\ waiting = {}
  /\ loop' = "latch"
  /\ snapshot' = [names |-> current \cup {"spring-context"}, failed |-> failed]
  /\ current' = {} /\ failed' = {}
  /\ UNCHANGED <<sawReady, waiting, started>>

\* Variant: startup waits for a fully successful cycle.
LatchStartedOnAllOk ==
  /\ loop = "latch" /\ loop' = "sleep"
  /\ started' = (started \/ snapshot.failed = {}) /\ sawReady' = FALSE
  /\ UNCHANGED <<current, waiting, failed, snapshot>>

LatchStarted ==
  /\ loop = "latch" /\ loop' = "sleep"
  /\ started' = (started \/ sawReady) /\ sawReady' = FALSE
  /\ UNCHANGED <<current, waiting, failed, snapshot>>

CycleSlept ==
  /\ loop = "sleep" /\ loop' = "begin"
  /\ UNCHANGED <<cycle, snapshot, started>>

Checker ==
  /\ Running
  /\ \/ ReadContext \/ CopyChecks \/ SwapSnapshot \/ LatchStarted \/ CycleSlept
     \/ \E c \in Checks : RunCheck(c)
  /\ UNCHANGED <<action, main, readiness, thread, fields, closing, signals, database>>

AllOk == snapshot.names # {} /\ snapshot.failed = {}

\* /readyz.  The empty snapshot from before the first cycle is never fresh, a
\* published one is taken to be.
Ready == AllOk /\ ~draining

-----------------------------------------------------------------------------
(* DeferredSchemaAction.apply.                                             *)

TestStopped ==
  /\ worker = "test"
  /\ worker' = IF stopped THEN "done" ELSE "process"
  /\ UNCHANGED <<applied, delayedDrop, tables>>

\* `create` and `create-drop` drop what is there first.
Connect ==
  /\ worker = "process"
  /\ dbUp /\ worker' = "ddl"
  /\ tables' = IF action \in {"create", "create-drop"} THEN {} ELSE tables
  /\ UNCHANGED <<applied, delayedDrop>>

Creates == action # "validate" /\ tables # Tables

CreateTable ==
  /\ worker = "ddl" /\ dbUp /\ Creates
  /\ \E t \in Tables \ tables : tables' = tables \cup {t}
  /\ UNCHANGED <<worker, applied, delayedDrop>>

ProcessThrows ==
  /\ \/ worker \in {"process", "ddl"} /\ (~dbUp \/ interrupted)
     \/ worker = "ddl" /\ action = "validate" /\ tables # Tables
  /\ worker' = "caught"
  /\ UNCHANGED <<applied, delayedDrop, tables>>

ProcessReturns ==
  /\ worker = "ddl"
  /\ action = "validate" => dbUp /\ tables = Tables
  /\ delayedDrop' = (delayedDrop \/ action = "create-drop")
  /\ worker' = "returned"
  /\ UNCHANGED <<applied, tables>>

\* Variant: the thread goes on after it has set applied.
SetAppliedAndLoop ==
  /\ worker = "returned" /\ worker' = "test"
  /\ applied' = TRUE
  /\ UNCHANGED <<delayedDrop, tables>>

SetApplied ==
  /\ worker = "returned" /\ worker' = "done"
  /\ applied' = TRUE
  /\ UNCHANGED <<delayedDrop, tables>>

\* Variant: an attempt that failed ends the thread.
CaughtGivesUp ==
  /\ worker = "caught" /\ worker' = "done"
  /\ UNCHANGED <<applied, delayedDrop, tables>>

CatchFailure ==
  /\ worker = "caught"
  /\ worker' = IF stopped THEN "done" ELSE "sleep"
  /\ UNCHANGED <<applied, delayedDrop, tables>>

RetrySleep ==
  /\ worker = "sleep"
  /\ worker' = IF interrupted THEN "done" ELSE "test"
  /\ UNCHANGED <<applied, delayedDrop, tables>>

Apply ==
  \/ TestStopped \/ Connect \/ CreateTable \/ ProcessThrows \/ ProcessReturns
  \/ SetApplied \/ CatchFailure \/ RetrySleep

Worker ==
  /\ Running /\ Apply
  /\ UNCHANGED <<action, main, readiness, checker, workerSet, interrupted, stopped, closing,
                 signals, dbUp>>

-----------------------------------------------------------------------------
(* Signals: the JVM's own handler before install(), one drain thread after.*)

SignalEarly ==
  /\ main # "up" /\ ~hook /\ hook' = TRUE
  /\ UNCHANGED <<initiated, draining, closing, thread, fields, tables>>

Initiate ==
  /\ main = "up" /\ ~initiated /\ initiated' = TRUE
  /\ UNCHANGED <<hook, draining, closing, thread, fields, tables>>

\* The drain thread stays here for the drain delay.
LatchDraining ==
  /\ initiated /\ ~draining /\ draining' = TRUE
  /\ UNCHANGED <<hook, initiated, closing, thread, fields, tables>>

-----------------------------------------------------------------------------
(* DeferredSchemaAction.sessionFactoryClosing, in context.close(): of the  *)
(* drain thread after its delay, or of the shutdown hook.                  *)

Stop ==
  /\ closer = "none" /\ closer' = "interrupt"
  /\ main # "refresh" /\ (hook \/ draining)
  /\ stopped' = TRUE
  /\ UNCHANGED <<signals, dropped, dropFailed, thread, applied, delayedDrop, tables>>

\* Variant: with no live thread there is nothing to close.
InterruptLiveWorker ==
  /\ closer = "interrupt"
  /\ IF workerSet /\ worker # "done"
     THEN /\ closer' = "join"
          /\ IF worker = "new" THEN interrupted' \in BOOLEAN ELSE interrupted' = TRUE
     ELSE closer' = "closed" /\ UNCHANGED interrupted
  /\ UNCHANGED <<signals, dropped, dropFailed, workerSet, worker, fields, tables>>

\* Whether a thread that has not started keeps an interrupt is up to the JVM.
InterruptWorker ==
  /\ closer = "interrupt"
  /\ IF workerSet
     THEN /\ closer' = "join"
          /\ IF worker = "new" THEN interrupted' \in BOOLEAN ELSE interrupted' = TRUE
     ELSE closer' = "read" /\ UNCHANGED interrupted
  /\ UNCHANGED <<signals, dropped, dropFailed, workerSet, worker, fields, tables>>

\* join(2000): the thread is not alive, or two seconds have passed.
Joined ==
  /\ closer = "join" /\ closer' = "read"
  /\ UNCHANGED <<signals, dropped, dropFailed, thread, fields, tables>>

ReadDelayedDrop ==
  /\ closer = "read"
  /\ closer' = IF delayedDrop THEN "drop" ELSE "closed"
  /\ UNCHANGED <<signals, dropped, dropFailed, thread, fields, tables>>

\* Without the database the drop fails; Spring logs that and goes on.
PerformDrop ==
  /\ closer = "drop" /\ closer' = "closed"
  /\ IF dbUp
     THEN tables' = {} /\ dropped' = TRUE /\ UNCHANGED dropFailed
     ELSE dropFailed' = TRUE /\ UNCHANGED <<dropped, tables>>
  /\ UNCHANGED <<signals, thread, fields>>

Exit ==
  /\ closer = "closed" /\ closer' = "exited"
  /\ UNCHANGED <<signals, dropped, dropFailed, thread, fields, tables>>

Shutdown ==
  /\ Running
  /\ \/ SignalEarly \/ Initiate \/ LatchDraining
     \/ Stop \/ InterruptWorker \/ Joined \/ ReadDelayedDrop \/ PerformDrop \/ Exit
  /\ UNCHANGED <<action, main, readiness, checker, dbUp>>

\* The database comes and goes.
Database ==
  /\ Running
  /\ dbUp' = ~dbUp
  /\ UNCHANGED <<action, main, readiness, checker, thread, fields, closing, signals, tables>>

-----------------------------------------------------------------------------

Next == Main \/ Checker \/ Worker \/ Shutdown \/ Database

\* Threads run.  Nothing is assumed of signals, of closing, or of the database.
Fairness == WF_vars(Main) /\ WF_vars(Checker) /\ WF_vars(Worker)

Spec == Init /\ [][Next]_vars /\ Fairness

Stopping == hook \/ initiated

(* The schema check keeps /readyz at 503 until the action has been applied, *)
(* although the check is registered after the checker has begun its cycles: *)
(* runCycle reads contextReady before it copies the list, and the listener  *)
(* sets it after the last registration.                                     *)
ReadyMeansApplied == Ready => applied

(* Once sessionFactoryClosing has interrupted the thread it knows, no       *)
(* schema-action thread sleeps a retry interval through: one that start()   *)
(* makes later, one it had not started and one that failed just now all end.*)
CloseWakesWorker ==
  closer \in {"join", "read", "drop", "closed", "exited"} /\ worker = "sleep" => interrupted

(* After the delayed drop nothing creates tables again, even if the thread  *)
(* outlived the join: it registers the drop when its DDL is done.           *)
NothingAfterDrop == dropped => tables = {}

(* The tables of a service whose action was applied are left alone until   *)
(* the delayed drop: no retry, and no thread that outlived the join, runs  *)
(* a statement on them any more.                                           *)
AppliedTablesKept == [][applied /\ tables' # tables => closer = "drop"]_vars

(* An action that was applied before the closing is done with the drop     *)
(* gets it: its tables are gone when the closing ends, unless the drop     *)
(* itself failed.                                                          *)
AppliedInTimeIsDropped ==
  [][/\ action = "create-drop" /\ applied
     /\ closer # "closed" /\ closer' = "closed"
     => tables' = {} \/ dropFailed']_vars

(* "The database is never a startup condition": once the context is ready,  *)
(* startup completes whatever the database does.                            *)
StartsWithoutDatabase == contextReady ~> (started \/ Stopping)

(* "Retried until the database accepts it": if the database stays, the      *)
(* service gets ready and stays so, unless it is told to stop.              *)
ReadyWhenDatabaseStays ==
  action # "validate" /\ <>[]dbUp => <>[](Ready \/ Stopping)

(* "create-drop drops its tables when the process stops", except if the     *)
(* drop itself fails.                                                       *)
CreateDropDropsTables ==
  closer = "exited" /\ action = "create-drop" /\ applied /\ ~dropFailed => tables = {}
=============================================================================

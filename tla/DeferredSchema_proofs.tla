------------------------ MODULE DeferredSchema_proofs ------------------------
(***************************************************************************)
(* Proofs about DeferredSchema for every set of tables and of schema       *)
(* actions: types, that readiness means the schema action was applied,     *)
(* that closing wakes the schema-action thread, and that nothing is        *)
(* created after the delayed drop.                                         *)
(***************************************************************************)
EXTENDS DeferredSchema, TLAPS

BeforeThread == {"refresh", "database", "schema", "action", "thread"}
AfterSchema  == {"action", "thread", "mark", "install", "up"}

(* What the ready event's order guarantees.                                *)
EventOrder ==
  /\ main \in AfterSchema => "schema" \in registered
  /\ contextReady => main \in {"install", "up"}

(* Where the knowledge that the action was applied is kept in a cycle.     *)
CycleKnows ==
  /\ sawReady => contextReady
  /\ loop \in {"copy", "collect"} /\ ~sawReady => "spring-context" \in failed
  /\ loop = "collect" /\ sawReady => "schema" \in waiting \cup failed \/ applied

ReadyInv == EventOrder /\ CycleKnows /\ (AllOk => applied)

(* The thread exists only once its field is set, and a failed attempt does *)
(* not sleep once stopped is set, which closing does before it interrupts. *)
CloseInv ==
  /\ closer \in {"none", "interrupt", "join", "read", "drop", "closed", "exited"}
  /\ closer # "none" => stopped
  /\ main = "thread" \/ worker # "new" => workerSet
  /\ CloseWakesWorker

(* The drop is registered by a thread that has finished its statements.    *)
DropInv ==
  /\ main \in BeforeThread => worker = "new"
  /\ delayedDrop => worker \in {"returned", "done"}
  /\ closer = "drop" => delayedDrop
  /\ dropped => delayedDrop /\ tables = {}

-----------------------------------------------------------------------------
(* Types.  The Boolean-valued and the other variables are typed apart.     *)

Flags ==
  /\ contextReady \in BOOLEAN /\ started \in BOOLEAN /\ draining \in BOOLEAN
  /\ sawReady \in BOOLEAN
  /\ workerSet \in BOOLEAN /\ interrupted \in BOOLEAN
  /\ stopped \in BOOLEAN /\ applied \in BOOLEAN /\ delayedDrop \in BOOLEAN
  /\ hook \in BOOLEAN /\ initiated \in BOOLEAN
  /\ dbUp \in BOOLEAN
  /\ dropped \in BOOLEAN /\ dropFailed \in BOOLEAN

Names == Checks \cup {"spring-context"}

Places ==
  /\ action \in Actions
  /\ main \in {"refresh", "database", "schema", "action", "thread", "mark", "install", "up"}
  /\ loop \in {"begin", "copy", "collect", "latch", "sleep"}
  /\ worker \in {"new", "test", "process", "ddl", "returned", "caught", "sleep", "done"}
  /\ closer \in {"none", "interrupt", "join", "read", "drop", "closed", "exited"}

Collections ==
  /\ registered \subseteq Checks
  /\ current \subseteq Checks /\ waiting \subseteq current
  /\ failed \subseteq Names
  /\ snapshot \in [names : SUBSET Names, failed : SUBSET Names]
  /\ tables \subseteq Tables

LEMMA TypeParts == TypeOK <=> Flags /\ Places /\ Collections
BY DEF TypeOK, Flags, Places, Collections, Names

LEMMA InitTypes == Init => TypeOK
<1>1. SUFFICES ASSUME Init PROVE TypeOK
  OBVIOUS
<1>2. Flags
  BY <1>1 DEF Init, Flags
<1>3. Places
  BY <1>1 DEF Init, Places
<1>4. Collections
  BY <1>1 DEF Init, Collections, NoSnapshot
<1>5. QED
  BY <1>2, <1>3, <1>4, TypeParts

LEMMA PlacesStep ==
  ASSUME Places, [Next]_vars PROVE Places'
<1> USE DEF Places, readiness, cycle, checker, thread, fields, closing, signals, database
<1>1. CASE Main
  BY <1>1 DEF Main, Refreshed, RegisterDatabase, RegisterSchema, StartAction, StartThread,
              MarkContextReady, Install
<1>2. CASE Checker
  BY <1>2 DEF Checker, ReadContext, CopyChecks, RunCheck, SwapSnapshot, LatchStarted, CycleSlept
<1>3. CASE Worker
  BY <1>3 DEF Worker, Apply, TestStopped, Connect, CreateTable, ProcessThrows, ProcessReturns,
              SetApplied, CatchFailure, RetrySleep
<1>4. CASE Shutdown
  BY <1>4 DEF Shutdown, SignalEarly, Initiate, LatchDraining, Stop, InterruptWorker, Joined,
              ReadDelayedDrop, PerformDrop, Exit
<1>5. CASE Database
  BY <1>5 DEF Database
<1>6. CASE UNCHANGED vars
  BY <1>6 DEF vars
<1>7. QED
  BY <1>1, <1>2, <1>3, <1>4, <1>5, <1>6 DEF Next

LEMMA CollectionsStep ==
  ASSUME Collections, [Next]_vars PROVE Collections'
<1> USE DEF Collections, readiness, cycle, checker, thread, fields, closing, signals, database
<1>1. CASE Main
  BY <1>1 DEF Main, Refreshed, RegisterDatabase, RegisterSchema, StartAction, StartThread,
              MarkContextReady, Install, Checks
<1>2. CASE Checker
  BY <1>2 DEF Checker, ReadContext, CopyChecks, RunCheck, SwapSnapshot, LatchStarted, CycleSlept,
              Names
<1>3. CASE Worker
  BY <1>3 DEF Worker, Apply, TestStopped, Connect, CreateTable, ProcessThrows, ProcessReturns,
              SetApplied, CatchFailure, RetrySleep
<1>4. CASE Shutdown
  BY <1>4 DEF Shutdown, SignalEarly, Initiate, LatchDraining, Stop, InterruptWorker, Joined,
              ReadDelayedDrop, PerformDrop, Exit
<1>5. CASE Database
  BY <1>5 DEF Database
<1>6. CASE UNCHANGED vars
  BY <1>6 DEF vars
<1>7. QED
  BY <1>1, <1>2, <1>3, <1>4, <1>5, <1>6 DEF Next

LEMMA FlagsStep ==
  ASSUME Flags, [Next]_vars PROVE Flags'
<1> USE DEF Flags, readiness, cycle, checker, thread, fields, closing, signals, database
<1>1. CASE Main
  <2>1. CASE StartAction
    <3>1. (applied' = TRUE /\ workerSet' = workerSet) \/ (workerSet' = TRUE /\ applied' = applied)
      BY <2>1 DEF StartAction
    <3>2. (applied \in BOOLEAN /\ workerSet \in BOOLEAN)'
      BY <3>1, Zenon
    <3>3. UNCHANGED <<readiness, checker, interrupted, stopped, delayedDrop, closing, signals,
                      database>>
      BY <1>1, <2>1 DEF Main, StartAction
    <3>4. QED
      BY <3>2, <3>3
  <2>2. CASE MarkContextReady
    BY <1>1, <2>2 DEF Main, MarkContextReady
  <2>3. CASE UNCHANGED <<contextReady, workerSet, interrupted, applied>>
    BY <1>1, <2>3 DEF Main
  <2>4. QED
    BY <1>1, <2>1, <2>2, <2>3
    DEF Main, Refreshed, RegisterDatabase, RegisterSchema, StartThread, Install
<1>2. CASE Checker
  <2>1. (sawReady \in BOOLEAN /\ started \in BOOLEAN)'
    <3>1. CASE ReadContext
      <4>1. sawReady' = contextReady /\ started' = started
        BY <3>1 DEF ReadContext
      <4>2. QED
        BY <4>1, Zenon
    <3>2. CASE LatchStarted
      <4>1. sawReady' = FALSE
        BY <3>2 DEF LatchStarted
      <4>2. started' = (started \/ sawReady)
        BY <3>2, Zenon DEF LatchStarted
      <4>3. QED
        BY <4>1, <4>2, Zenon
    <3>3. CASE UNCHANGED <<sawReady, started>>
      BY <3>3, Zenon
    <3>4. QED
      BY <1>2, <3>1, <3>2, <3>3
      DEF Checker, CopyChecks, RunCheck, SwapSnapshot, CycleSlept
  <2>2. UNCHANGED <<readiness, thread, fields, closing, signals, database>>
    BY <1>2 DEF Checker
  <2>3. QED
    BY <2>1, <2>2, ZenonT(40)
<1>3. CASE Worker
  <2>1. (applied \in BOOLEAN /\ delayedDrop \in BOOLEAN)'
    <3>1. CASE ProcessReturns
      <4>1. delayedDrop' = (delayedDrop \/ action = "create-drop")
        BY <3>1, Zenon DEF ProcessReturns
      <4>2. applied' = applied
        BY <3>1 DEF ProcessReturns
      <4>3. QED
        BY <4>1, <4>2, Zenon
    <3>2. CASE SetApplied
      <4>1. applied' = TRUE /\ delayedDrop' = delayedDrop
        BY <3>2 DEF SetApplied
      <4>2. QED
        BY <4>1, Zenon
    <3>3. CASE UNCHANGED <<applied, delayedDrop>>
      BY <3>3, Zenon
    <3>4. QED
      BY <1>3, <3>1, <3>2, <3>3
      DEF Worker, Apply, TestStopped, Connect, CreateTable, ProcessThrows, CatchFailure, RetrySleep
  <2>2. UNCHANGED <<readiness, checker, workerSet, interrupted, stopped, closing, signals, dbUp>>
    BY <1>3 DEF Worker
  <2>3. QED
    BY <2>1, <2>2, ZenonT(40)
<1>4. CASE Shutdown
  <2>1. UNCHANGED <<readiness, checker, dbUp>>
    BY <1>4 DEF Shutdown
  <2>2. CASE SignalEarly \/ Initiate \/ LatchDraining
    <3>1. UNCHANGED <<closing, thread, fields>>
      BY <2>2 DEF SignalEarly, Initiate, LatchDraining
    <3>2. hook' = TRUE \/ hook' = hook
      BY <2>2 DEF SignalEarly, Initiate, LatchDraining
    <3>3. initiated' = TRUE \/ initiated' = initiated
      BY <2>2 DEF SignalEarly, Initiate, LatchDraining
    <3>4. draining' = TRUE \/ draining' = draining
      BY <2>2 DEF SignalEarly, Initiate, LatchDraining
    <3>5. (hook \in BOOLEAN /\ initiated \in BOOLEAN /\ draining \in BOOLEAN)'
      BY <3>2, <3>3, <3>4, Zenon
    <3>6. QED
      BY <2>1, <3>1, <3>5
  <2>3. CASE Stop \/ Joined \/ ReadDelayedDrop \/ Exit
    <3>1. UNCHANGED <<signals, dropped, dropFailed, thread, applied, delayedDrop>>
      BY <2>3 DEF Stop, Joined, ReadDelayedDrop, Exit
    <3>2. stopped' = TRUE \/ stopped' = stopped
      BY <2>3 DEF Stop, Joined, ReadDelayedDrop, Exit
    <3>3. (stopped \in BOOLEAN)'
      BY <3>2, Zenon
    <3>4. QED
      BY <2>1, <3>1, <3>3
  <2>4. CASE InterruptWorker
    <3>1. interrupted' \in BOOLEAN \/ interrupted' = TRUE \/ interrupted' = interrupted
      BY <2>4 DEF InterruptWorker
    <3>2. (interrupted \in BOOLEAN)'
      BY <3>1, Zenon
    <3>3. UNCHANGED <<signals, dropped, dropFailed, workerSet, worker, fields, tables>>
      BY <2>4 DEF InterruptWorker
    <3>4. QED
      BY <2>1, <3>2, <3>3
  <2>5. CASE PerformDrop
    <3>1. (dropped \in BOOLEAN /\ dropFailed \in BOOLEAN)'
      BY <2>5, Zenon DEF PerformDrop
    <3>2. UNCHANGED <<signals, thread, fields>>
      BY <2>5 DEF PerformDrop
    <3>3. QED
      BY <2>1, <3>1, <3>2
  <2>6. QED
    BY <1>4, <2>2, <2>3, <2>4, <2>5 DEF Shutdown
<1>5. CASE Database
  <2>1. dbUp' = ~dbUp
    BY <1>5, Zenon DEF Database
  <2>2. (dbUp \in BOOLEAN)'
    BY <2>1, Zenon
  <2>3. UNCHANGED <<readiness, checker, thread, fields, closing, signals>>
    BY <1>5 DEF Database
  <2>4. QED
    BY <2>2, <2>3
<1>6. CASE UNCHANGED vars
  BY <1>6 DEF vars
<1>7. QED
  BY <1>1, <1>2, <1>3, <1>4, <1>5, <1>6 DEF Next

(* Every variable keeps its type: the checks collected in a cycle are      *)
(* those of the cycle's copy, whatever is registered meanwhile.            *)
THEOREM TypeCorrect == Spec => []TypeOK
<1>1. TypeOK /\ [Next]_vars => TypeOK'
  <2>1. SUFFICES ASSUME TypeOK, [Next]_vars PROVE TypeOK'
    OBVIOUS
  <2>2. Flags' /\ Places' /\ Collections'
    BY <2>1, TypeParts, FlagsStep, PlacesStep, CollectionsStep
  <2>3. QED
    BY <2>2 DEF TypeOK, Flags, Places, Collections, Names
<1>2. QED
  BY InitTypes, <1>1, PTL DEF Spec

-----------------------------------------------------------------------------

LEMMA ReadyStep ==
  ASSUME ReadyInv, [Next]_vars PROVE ReadyInv'
<1> USE DEF ReadyInv, EventOrder, CycleKnows, AllOk, AfterSchema,
            readiness, cycle, checker, thread, fields, closing, signals, database
<1>1. CASE Main
  BY <1>1 DEF Main, Refreshed, RegisterDatabase, RegisterSchema, StartAction, StartThread,
              MarkContextReady, Install
<1>2. CASE Checker
  <2> USE <1>2 DEF Checker
  <2>1. CASE ReadContext
    BY <2>1 DEF ReadContext
  <2>2. CASE CopyChecks
    BY <2>2 DEF CopyChecks
  <2>3. ASSUME NEW c \in Checks, RunCheck(c) PROVE ReadyInv'
    BY <2>3 DEF RunCheck, Passes, Checks
  <2>4. CASE SwapSnapshot
    BY <2>4 DEF SwapSnapshot
  <2>5. CASE LatchStarted \/ CycleSlept
    BY <2>5 DEF LatchStarted, CycleSlept
  <2>6. QED
    BY <2>1, <2>2, <2>3, <2>4, <2>5
<1>3. CASE Worker
  BY <1>3 DEF Worker, Apply, TestStopped, Connect, CreateTable, ProcessThrows, ProcessReturns,
              SetApplied, CatchFailure, RetrySleep
<1>4. CASE Shutdown
  BY <1>4 DEF Shutdown, SignalEarly, Initiate, LatchDraining, Stop, InterruptWorker, Joined,
              ReadDelayedDrop, PerformDrop, Exit
<1>5. CASE Database
  BY <1>5 DEF Database
<1>6. CASE UNCHANGED vars
  BY <1>6 DEF vars
<1>7. QED
  BY <1>1, <1>2, <1>3, <1>4, <1>5, <1>6 DEF Next

(* /readyz never answers 200 before the schema action has been applied.    *)
THEOREM ReadyCorrect == Spec => []ReadyMeansApplied
<1>1. Init => ReadyInv
  BY DEF Init, ReadyInv, EventOrder, CycleKnows, AllOk, AfterSchema, NoSnapshot
<1>2. ReadyInv /\ [Next]_vars => ReadyInv'
  BY ReadyStep
<1>3. ReadyInv => ReadyMeansApplied
  BY DEF ReadyInv, ReadyMeansApplied, Ready
<1>4. QED
  BY <1>1, <1>2, <1>3, PTL DEF Spec

-----------------------------------------------------------------------------

LEMMA CloseStep ==
  ASSUME CloseInv, [Next]_vars PROVE CloseInv'
<1> USE DEF CloseInv, CloseWakesWorker,
            readiness, cycle, checker, thread, fields, closing, signals, database
<1>1. CASE Main
  BY <1>1 DEF Main, Refreshed, RegisterDatabase, RegisterSchema, StartAction, StartThread,
              MarkContextReady, Install
<1>2. CASE Checker
  BY <1>2 DEF Checker
<1>3. CASE Worker
  BY <1>3 DEF Worker, Apply, TestStopped, Connect, CreateTable, ProcessThrows, ProcessReturns,
              SetApplied, CatchFailure, RetrySleep
<1>4. CASE Shutdown
  BY <1>4 DEF Shutdown, SignalEarly, Initiate, LatchDraining, Stop, InterruptWorker, Joined,
              ReadDelayedDrop, PerformDrop, Exit
<1>5. CASE Database
  BY <1>5 DEF Database
<1>6. CASE UNCHANGED vars
  BY <1>6 DEF vars
<1>7. QED
  BY <1>1, <1>2, <1>3, <1>4, <1>5, <1>6 DEF Next

(* Closing the session factory leaves no schema-action thread in an        *)
(* uninterrupted sleep, whenever the thread was made or started.           *)
THEOREM CloseCorrect == Spec => []CloseWakesWorker
<1>1. Init => CloseInv
  BY DEF Init, CloseInv, CloseWakesWorker
<1>2. CloseInv /\ [Next]_vars => CloseInv'
  BY CloseStep
<1>3. CloseInv => CloseWakesWorker
  BY DEF CloseInv
<1>4. QED
  BY <1>1, <1>2, <1>3, PTL DEF Spec

-----------------------------------------------------------------------------

LEMMA DropStep ==
  ASSUME DropInv, [Next]_vars PROVE DropInv'
<1> USE DEF DropInv, BeforeThread,
            readiness, cycle, checker, thread, fields, closing, signals, database
<1>1. CASE Main
  BY <1>1 DEF Main, Refreshed, RegisterDatabase, RegisterSchema, StartAction, StartThread,
              MarkContextReady, Install
<1>2. CASE Checker
  BY <1>2 DEF Checker
<1>3. CASE Worker
  BY <1>3 DEF Worker, Apply, TestStopped, Connect, CreateTable, ProcessThrows, ProcessReturns,
              SetApplied, CatchFailure, RetrySleep
<1>4. CASE Shutdown
  BY <1>4 DEF Shutdown, SignalEarly, Initiate, LatchDraining, Stop, InterruptWorker, Joined,
              ReadDelayedDrop, PerformDrop, Exit
<1>5. CASE Database
  BY <1>5 DEF Database
<1>6. CASE UNCHANGED vars
  BY <1>6 DEF vars
<1>7. QED
  BY <1>1, <1>2, <1>3, <1>4, <1>5, <1>6 DEF Next

(* No table is created after the delayed drop, even by a thread that       *)
(* outlived the two seconds of the join.                                   *)
THEOREM DropCorrect == Spec => []NothingAfterDrop
<1>1. Init => DropInv
  BY DEF Init, DropInv, BeforeThread
<1>2. DropInv /\ [Next]_vars => DropInv'
  BY DropStep
<1>3. DropInv => NothingAfterDrop
  BY DEF DropInv, NothingAfterDrop
<1>4. QED
  BY <1>1, <1>2, <1>3, PTL DEF Spec

-----------------------------------------------------------------------------
(* After the action was applied.                                           *)

(* An applied action has no thread that still runs, and a `create-drop`    *)
(* that is done with its statements has registered its drop.               *)
AppliedInv ==
  /\ applied => worker = "done" \/ (worker = "new" /\ main \in {"mark", "install", "up"})
  /\ action = "create-drop" /\ (worker = "returned" \/ applied) => delayedDrop

LEMMA AppliedStep ==
  ASSUME DropInv, AppliedInv, [Next]_vars PROVE AppliedInv'
<1> USE DEF AppliedInv, DropInv, BeforeThread,
            readiness, cycle, checker, thread, fields, closing, signals, database
<1>1. CASE Main
  BY <1>1 DEF Main, Refreshed, RegisterDatabase, RegisterSchema, StartAction, StartThread,
              MarkContextReady, Install
<1>2. CASE Checker
  BY <1>2 DEF Checker
<1>3. CASE Worker
  <2>1. CASE ProcessReturns
    <3>1. delayedDrop' = (delayedDrop \/ action = "create-drop")
      BY <2>1, Zenon DEF ProcessReturns
    <3>2. action' = action /\ applied' = applied /\ ~applied
      BY <1>3, <2>1 DEF Worker, ProcessReturns
    <3> QED
      BY <3>1, <3>2, Zenon
  <2>2. CASE SetApplied
    BY <1>3, <2>2 DEF Worker, SetApplied
  <2>3. CASE TestStopped \/ Connect \/ CreateTable \/ ProcessThrows \/ CatchFailure \/ RetrySleep
    BY <1>3, <2>3 DEF Worker, TestStopped, Connect, CreateTable, ProcessThrows, CatchFailure,
                      RetrySleep
  <2> QED
    BY <1>3, <2>1, <2>2, <2>3 DEF Worker, Apply
<1>4. CASE Shutdown
  BY <1>4 DEF Shutdown, SignalEarly, Initiate, LatchDraining, Stop, InterruptWorker, Joined,
              ReadDelayedDrop, PerformDrop, Exit
<1>5. CASE Database
  BY <1>5 DEF Database
<1>6. CASE UNCHANGED vars
  BY <1>6 DEF vars
<1> QED
  BY <1>1, <1>2, <1>3, <1>4, <1>5, <1>6 DEF Next

(* Only the drop touches the tables of an applied action.                  *)
LEMMA KeptStep ==
  ASSUME AppliedInv, [Next]_vars, applied, tables' # tables PROVE closer = "drop"
<1> USE DEF AppliedInv, checker, thread, fields, closing, signals, database
<1>1. CASE Worker
  BY <1>1 DEF Worker, Apply, TestStopped, Connect, CreateTable, ProcessThrows, ProcessReturns,
              SetApplied, CatchFailure, RetrySleep
<1>2. CASE Shutdown
  BY <1>2 DEF Shutdown, SignalEarly, Initiate, LatchDraining, Stop, InterruptWorker, Joined,
              ReadDelayedDrop, PerformDrop, Exit
<1> QED
  BY <1>1, <1>2 DEF Next, Main, Checker, Database, vars

(* The closing of an applied `create-drop` ends with the drop or its       *)
(* failure.                                                                *)
LEMMA ClosedStep ==
  ASSUME AppliedInv, [Next]_vars, action = "create-drop", applied,
         closer # "closed", closer' = "closed"
  PROVE  \/ dropped' /\ tables' = {}
         \/ dropFailed'
<1>1. Shutdown
  BY DEF Next, Main, Checker, Worker, Database, vars, closing
<1>2. ReadDelayedDrop \/ PerformDrop
  BY <1>1 DEF Shutdown, SignalEarly, Initiate, LatchDraining, Stop, InterruptWorker, Joined, Exit,
              closing
<1>3. CASE ReadDelayedDrop
  BY <1>3 DEF ReadDelayedDrop, AppliedInv
<1>4. CASE PerformDrop
  BY <1>4 DEF PerformDrop
<1> QED
  BY <1>2, <1>3, <1>4

LEMMA AppliedHolds == Spec => [](DropInv /\ AppliedInv)
<1>1. Init => DropInv /\ AppliedInv
  BY DEF Init, DropInv, BeforeThread, AppliedInv
<1>2. DropInv /\ AppliedInv /\ [Next]_vars => (DropInv /\ AppliedInv)'
  BY DropStep, AppliedStep
<1> QED
  BY <1>1, <1>2, PTL DEF Spec

(* No statement of the schema action reaches the tables once it counts as  *)
(* applied, whatever retries, interrupts and signals come later.           *)
THEOREM KeptCorrect == Spec => AppliedTablesKept
<1>1. AppliedInv /\ [Next]_vars => [applied /\ tables' # tables => closer = "drop"]_vars
  BY KeptStep
<1> QED
  BY AppliedHolds, <1>1, PTL DEF Spec, AppliedTablesKept

(* The closing drops the tables of every `create-drop` that was applied by *)
(* then: only an action that finishes after the closing has read the       *)
(* delayed drop escapes it.                                                *)
THEOREM InTimeCorrect == Spec => AppliedInTimeIsDropped
<1> DEFINE Dropping == /\ action = "create-drop" /\ applied
                       /\ closer # "closed" /\ closer' = "closed"
                       => tables' = {} \/ dropFailed'
<1>1. AppliedInv /\ [Next]_vars => [Dropping]_vars
  BY ClosedStep
<1> QED
  BY AppliedHolds, <1>1, PTL DEF Spec, AppliedInTimeIsDropped

(* And so it stays: no table is left at the exit.                          *)
THEOREM DroppedAtExit ==
  Spec => [](action = "create-drop" /\ applied /\ closer \notin {"closed", "exited"}
               => [](closer = "exited" => tables = {} \/ dropFailed))
<1> DEFINE Owed == action = "create-drop" /\ applied /\ closer \notin {"closed", "exited"}
           Kept == closer \in {"closed", "exited"} /\ (dropped \/ dropFailed)
           Goal == closer = "exited" => tables = {} \/ dropFailed
           J == Owed \/ Kept
<1>1. Owed => J
  OBVIOUS
<1>2. DropInv /\ J => Goal
  BY DEF DropInv
<1>3. DropInv /\ AppliedInv /\ J /\ [Next]_vars => J'
  <2> SUFFICES ASSUME AppliedInv, J, [Next]_vars PROVE J'
    OBVIOUS
  <2> USE DEF checker, thread, fields, closing, signals, database
  <2>1. action' = action /\ (applied => applied')
    BY DEF Next, Main, Refreshed, RegisterDatabase, RegisterSchema, StartAction, StartThread,
           MarkContextReady, Install, Checker, Worker, Apply, TestStopped, Connect, CreateTable,
           ProcessThrows, ProcessReturns, SetApplied, CatchFailure, RetrySleep, Shutdown,
           SignalEarly, Initiate, LatchDraining, Stop, InterruptWorker, Joined, ReadDelayedDrop,
           PerformDrop, Exit, Database, vars
  <2>2. CASE Kept
    <3>1. CASE Shutdown
      BY <2>2, <3>1 DEF Shutdown, SignalEarly, Initiate, LatchDraining, Stop, InterruptWorker,
                        Joined, ReadDelayedDrop, PerformDrop, Exit
    <3>2. CASE UNCHANGED closing
      BY <2>2, <3>2
    <3> QED
      BY <3>1, <3>2 DEF Next, Main, Checker, Worker, Database, vars
  <2>3. CASE Owed /\ closer' = "closed"
    BY <2>3, ClosedStep
  <2>4. CASE Owed /\ closer' # "closed"
    <3>1. closer' # "exited"
      BY <2>4 DEF Next, Main, Checker, Worker, Shutdown, SignalEarly, Initiate, LatchDraining, Stop,
                  InterruptWorker, Joined, ReadDelayedDrop, PerformDrop, Exit, Database, vars
    <3> QED
      BY <2>1, <2>4, <3>1
  <2> QED
    BY <2>2, <2>3, <2>4
<1> HIDE DEF Owed, J, Goal
<1>4. Spec => [](Owed => []Goal)
  BY AppliedHolds, <1>1, <1>2, <1>3, PTL DEF Spec
<1> QED
  BY <1>4 DEF Owed, Goal
=============================================================================

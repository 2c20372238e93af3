------------------------- MODULE PgFirstInit_proofs -------------------------
(***************************************************************************)
(* PgFirstInit's safety for every number of entries, scripts and faults.   *)
(* The inductive invariant follows the volume through the phases: who has  *)
(* listed the cluster's entries while they disappear, where the marker is, *)
(* and where the cluster must be whole.                                    *)
(***************************************************************************)
EXTENDS PgFirstInit, TLAPS

Excused == blame \cap {"killInInitdb", "killInWipe", "endInWipe", "writeInWipe",
                    "wipeFails"} # {}
Kept    == blame \cap {"markerStuck", "lateSignal"} = {}

\* Nothing waits on initSignals before the password check and on the as-is path.
WatcherOff ==
  pc \in {"down", "boot", "rewipe", "password", "startAsIs"} => watcher = "off"

\* A wipe has yet to remove every cluster entry that is still there.
Listed ==
  /\ watcher = "wiping" /\ ~Excused => files \cap Cluster \subseteq watchList
  /\ pc \in {"rewipe", "failWipe"} /\ ~Excused => files \cap Cluster \subseteq wipeList

\* A stopped container's volume tells a damaged cluster from a complete one.
Detectable ==
  pc \in {"down", "boot"} =>
    files \cap Cluster = {} \/ Marker \in files \/ Complete \/ Excused

\* What main() has established where it is, while the goroutine is not wiping.
Phases ==
  /\ pc \in {"password", "initdb0"} => files \cap Cluster = {} \/ Excused
  /\ pc \in {"stopOk", "unmark", "disarm", "start"} => work = AllWork
  /\ pc = "startAsIs" => Complete \/ Excused
  /\ watcher # "wiping" =>
       /\ pc \in {"hba", "mark", "scripts", "stopOk", "stopFail", "unmark",
                  "disarm", "start"} => Cluster \subseteq files
       /\ pc \in {"scripts", "stopOk", "stopFail"} => Marker \in files
       /\ pc = "serving" => Complete \/ Excused

\* A served cluster carries no marker and is never under initialization.
ServedSafe ==
  /\ served /\ Kept =>
       /\ Complete /\ Marker \notin files /\ watcher = "off"
       /\ pc \in {"down", "boot", "startAsIs", "serving"}
  /\ pc \in {"disarm", "start", "startAsIs"} /\ Kept => Marker \notin files

IInv == TypeOK /\ WatcherOff /\ Listed /\ Detectable /\ Phases /\ ServedSafe

-----------------------------------------------------------------------------
(* The initial volumes.                                                    *)

LEMMA InitIInv == Init => IInv
<1> SUFFICES ASSUME Init PROVE IInv
  OBVIOUS
<1>1. Marker \notin Cluster /\ Hidden \notin Cluster /\ Marker # Hidden
  BY InitConstants DEF Cluster, Marker, Hidden
<1>2. files \subseteq Names /\ Marker \notin files
  BY <1>1 DEF Init, Names
<1>3. TypeOK
  <2>1. pc \in PCs
    BY DEF Init, PCs, Listening
  <2>2. work \in 0 .. AllWork /\ faults \in 0 .. MaxFaults
    BY InitConstants DEF Init, AllWork
  <2>3. QED BY <1>2, <2>1, <2>2 DEF Init, TypeOK
<1>4. files \cap Cluster = {} \/ Complete
  BY <1>1 DEF Init, Complete
<1>5. WatcherOff /\ Listed /\ Detectable /\ Phases
  BY <1>4 DEF Init, WatcherOff, Listed, Detectable, Phases
<1>6. ServedSafe
  BY <1>2 DEF Init, ServedSafe, Complete
<1>7. QED BY <1>3, <1>5, <1>6 DEF IInv

-----------------------------------------------------------------------------
(* Type correctness.                                                       *)

\* Every action keeps every variable in its type.
LEMMA TypeStep == TypeOK /\ [Next]_vars => TypeOK'
<1> SUFFICES ASSUME TypeOK, [Next]_vars
             PROVE  TypeOK'
  OBVIOUS
<1> USE DEF TypeOK, Goto
<1>0. Cluster \subseteq Names /\ Marker \in Names
  BY DEF Cluster, Marker, Names
<1>1. /\ work' \in 0 .. AllWork
      /\ faults' \in 0 .. MaxFaults
  <2>1. 0 \in 0 .. AllWork /\ 1 \in 0 .. AllWork
    BY InitConstants DEF AllWork
  <2>2. work < AllWork => work + 1 \in 0 .. AllWork
    BY InitConstants DEF AllWork
  <2>3. Fault => faults' \in 0 .. MaxFaults
    BY InitConstants DEF Fault
  <2>4. ASSUME Next PROVE work' \in {work, 0, 1} \/ (work < AllWork /\ work' = work + 1)
    BY <2>4 DEF Next, Boot, MainStep, ChildStep, WatcherStep, Failure, NeedsInit, MainWipes,
       RewipeDone, ArmWatcher, AppendHba, WriteMarker, ScriptsDone, WipedAfterFailure,
       RemoveMarker, Disarm, StartPostgres, InitdbBegins, ChildCreates, InitdbSucceeds,
       RunScript, ProvisioningStopped, WatcherWakes, WatcherWipes, WatcherExits, BootFails,
       PasswordMissing, InitdbFails, HbaFails, MarkerFails, ScriptFails, PostgresExits,
       Term, Kill, MainWipeFails, WatcherWipeFails, WipeFails, volume
  <2>5. ASSUME Next PROVE faults' = faults \/ Fault
    BY <2>5 DEF Next, Boot, MainStep, ChildStep, WatcherStep, Failure, NeedsInit, MainWipes,
       RewipeDone, ArmWatcher, AppendHba, WriteMarker, ScriptsDone, WipedAfterFailure,
       RemoveMarker, Disarm, StartPostgres, InitdbBegins, ChildCreates, InitdbSucceeds,
       RunScript, ProvisioningStopped, WatcherWakes, WatcherWipes, WatcherExits, BootFails,
       PasswordMissing, InitdbFails, HbaFails, MarkerFails, ScriptFails, PostgresExits,
       Term, Kill, MainWipeFails, WatcherWipeFails, WipeFails
  <2>6. QED BY <2>1, <2>2, <2>3, <2>4, <2>5 DEF vars, volume
<1>2. pc' \in PCs
  <2> USE DEF PCs, Listening
  <2>1. CASE Boot \/ MainStep \/ ChildStep
    BY <2>1 DEF Boot, MainStep, ChildStep, NeedsInit, MainWipes,
       RewipeDone, ArmWatcher, AppendHba, WriteMarker, ScriptsDone, WipedAfterFailure,
       RemoveMarker, Disarm, StartPostgres, InitdbBegins, ChildCreates, InitdbSucceeds,
       RunScript, ProvisioningStopped, FailAndWipe, End, process
  <2>2. CASE WatcherStep \/ Failure
    BY <2>2 DEF WatcherStep, Failure, WatcherWakes, WatcherWipes, WatcherExits, BootFails,
       PasswordMissing, InitdbFails, HbaFails, MarkerFails, ScriptFails, PostgresExits,
       Term, Kill, MainWipeFails, WatcherWipeFails, WipeFails, FailAndWipe, End
  <2>3. QED BY <2>1, <2>2 DEF Next, vars, process
<1>3. /\ files' \subseteq Names /\ wipeList' \subseteq Names /\ watchList' \subseteq Names
      /\ served' \in BOOLEAN /\ queued' \in BOOLEAN
      /\ watcher' \in {"off", "armed", "wiping"}
  <2> USE <1>0
  <2>1. CASE Boot \/ MainStep \/ ChildStep
    BY <2>1 DEF Boot, MainStep, ChildStep, NeedsInit, MainWipes,
       RewipeDone, ArmWatcher, AppendHba, WriteMarker, ScriptsDone, WipedAfterFailure,
       RemoveMarker, Disarm, StartPostgres, InitdbBegins, ChildCreates, InitdbSucceeds,
       RunScript, ProvisioningStopped, FailAndWipe, WipeTargets, End, volume, process, Complete
  <2>2. CASE WatcherStep \/ Failure
    BY <2>2 DEF WatcherStep, Failure, WatcherWakes, WatcherWipes, WatcherExits, BootFails,
       PasswordMissing, InitdbFails, HbaFails, MarkerFails, ScriptFails, PostgresExits,
       Term, Kill, MainWipeFails, WatcherWipeFails, WipeFails, FailAndWipe, WipeTargets, End, volume
  <2>3. QED BY <2>1, <2>2 DEF Next, vars, volume, process
<1>4. blame' \subseteq Excuses
  <2> USE DEF Excuses
  <2>1. CASE Boot \/ MainStep \/ ChildStep
    BY <2>1 DEF Boot, MainStep, ChildStep, NeedsInit, MainWipes,
       RewipeDone, ArmWatcher, AppendHba, WriteMarker, ScriptsDone, WipedAfterFailure,
       RemoveMarker, Disarm, StartPostgres, InitdbBegins, ChildCreates, InitdbSucceeds,
       RunScript, ProvisioningStopped, FailAndWipe, EndExcuse, KillExcuse, End
  <2>2. CASE WatcherStep \/ Failure
    BY <2>2 DEF WatcherStep, Failure, WatcherWakes, WatcherWipes, WatcherExits, BootFails,
       PasswordMissing, InitdbFails, HbaFails, MarkerFails, ScriptFails, PostgresExits,
       Term, Kill, MainWipeFails, WatcherWipeFails, WipeFails, FailAndWipe, EndExcuse, KillExcuse, End
  <2>3. QED BY <2>1, <2>2 DEF Next, vars
<1>5. QED BY <1>1, <1>2, <1>3, <1>4

(* Every reachable state of first initialization is well typed: the lists  *)
(* of the two wipes stay within PGDATA's names and provisioning never runs *)
(* past its last script.                                                   *)
THEOREM TypeCorrect == Spec => []TypeOK
<1>1. Init => TypeOK
  BY InitIInv DEF IInv
<1>2. QED BY <1>1, TypeStep, PTL DEF Spec

-----------------------------------------------------------------------------
(* The inductive invariant.                                                *)

\* Every action keeps what the volume's phases promise.
LEMMA StepIInv == IInv /\ [Next]_vars => IInv'
<1> SUFFICES ASSUME IInv, [Next]_vars
             PROVE  IInv'
  OBVIOUS
<1>0. TypeOK' /\ Marker \notin Cluster /\ HbaFile \in Cluster
  <2>1. Marker \notin Cluster /\ HbaFile \in Cluster
    BY InitConstants DEF Marker, Cluster, HbaFile
  <2>2. QED BY <2>1, TypeStep DEF IInv
<1> USE <1>0 DEF IInv, TypeOK, WatcherOff, Listed, Detectable, Phases, ServedSafe, Excused, Kept,
         Complete, Goto, volume, process
<1>1. CASE Boot
  BY <1>1 DEF Boot
<1>2. CASE NeedsInit
  BY <1>2 DEF NeedsInit, WipeTargets
<1>3. CASE BootFails
  BY <1>3 DEF BootFails, End
<1>4. CASE MainWipes
  BY <1>4 DEF MainWipes
<1>5. CASE RewipeDone
  BY <1>5 DEF RewipeDone
<1>6. CASE PasswordMissing
  BY <1>6 DEF PasswordMissing, End
<1>7. CASE ArmWatcher
  BY <1>7 DEF ArmWatcher
<1>8. CASE InitdbBegins
  BY <1>8 DEF InitdbBegins, FailAndWipe, WipeTargets
<1>9. CASE InitdbFails
  BY <1>9 DEF InitdbFails, FailAndWipe, WipeTargets
<1>10. CASE ChildCreates
  BY <1>10 DEF ChildCreates, ServerRuns
<1>11. CASE InitdbSucceeds
  BY <1>11 DEF InitdbSucceeds
<1>12. CASE AppendHba
  BY <1>12 DEF AppendHba
<1>13. CASE HbaFails
  BY <1>13 DEF HbaFails, FailAndWipe, WipeTargets
<1>14. CASE WriteMarker
  BY <1>14 DEF WriteMarker
<1>15. CASE MarkerFails
  BY <1>15 DEF MarkerFails, FailAndWipe, WipeTargets
<1>16. CASE RunScript
  BY <1>16 DEF RunScript
<1>17. CASE ScriptFails
  BY <1>17 DEF ScriptFails
<1>18. CASE ScriptsDone
  BY <1>18 DEF ScriptsDone
<1>19. CASE ProvisioningStopped
  BY <1>19 DEF ProvisioningStopped, End, EndExcuse, KillExcuse, WipeInProgress
<1>20. CASE WipedAfterFailure
  BY <1>20 DEF WipedAfterFailure, End
<1>21. CASE RemoveMarker
  BY <1>21 DEF RemoveMarker
<1>22. CASE Disarm
  BY <1>22 DEF Disarm
<1>23. CASE WatcherWakes
  BY <1>23 DEF WatcherWakes, WipeTargets
<1>24. CASE WatcherWipes
  BY <1>24 DEF WatcherWipes
<1>25. CASE WatcherExits
  BY <1>25 DEF WatcherExits, End
<1>26. CASE StartPostgres
  BY <1>26 DEF StartPostgres
<1>27. CASE PostgresExits
  BY <1>27 DEF PostgresExits, End, EndExcuse, KillExcuse, WipeInProgress
<1>28. CASE Term
  <2>1. CASE pc \in Listening
    BY <1>28, <2>1 DEF Term, Listening
  <2>2. CASE pc \notin Listening
    <3>1. pc \notin {"initdb", "hba", "mark", "failWipe"}
      BY <2>2 DEF Listening
    <3>2. End(EndExcuse) /\ UNCHANGED volume /\ pc # "down"
      BY <1>28, <2>2 DEF Term
    <3>3. CASE WipeInProgress
      BY <3>2, <3>3 DEF End, EndExcuse
    <3>4. CASE ~WipeInProgress
      BY <2>2, <3>1, <3>2, <3>4 DEF End, EndExcuse, WipeInProgress, PCs
    <3>5. QED BY <3>3, <3>4
  <2>3. QED BY <2>1, <2>2
<1>29. CASE Kill
  <2>1. CASE WipeInProgress \/ pc \in InitdbWindow
    BY <1>29, <2>1 DEF Kill, End, KillExcuse
  <2>2. CASE ~WipeInProgress /\ pc \notin InitdbWindow
    BY <1>29, <2>2 DEF Kill, End, KillExcuse, WipeInProgress, InitdbWindow, PCs, Listening
  <2>3. QED BY <2>1, <2>2
<1>30. CASE MainWipeFails
  BY <1>30 DEF MainWipeFails, WipeFails
<1>31. CASE WatcherWipeFails
  BY <1>31 DEF WatcherWipeFails, WipeFails
<1>32. CASE UNCHANGED vars
  BY <1>32 DEF vars
<1>33. QED
  BY <1>1, <1>2, <1>3, <1>4, <1>5, <1>6, <1>7, <1>8, <1>9, <1>10, <1>11,
     <1>12, <1>13, <1>14, <1>15, <1>16, <1>17, <1>18, <1>19, <1>20, <1>21, <1>22,
     <1>23, <1>24, <1>25, <1>26, <1>27, <1>28, <1>29, <1>30, <1>31, <1>32
  DEF Next, MainStep, ChildStep, WatcherStep, Failure

(* IInv holds in every reachable state.                                    *)
LEMMA IInvHolds == Spec => []IInv
<1>1. QED BY InitIInv, StepIInv, PTL DEF Spec

(* A start that takes PGDATA as it is finds a complete cluster unless a    *)
(* kill fell between initdb's start and the marker, the process ended in   *)
(* the middle of a wipe, a child wrote under the goroutine's wipe, or a    *)
(* wipe failed to list the directory or to remove a visible entry:         *)
(* needsInit and the marker detect every other interruption, for any       *)
(* number of entries, scripts, restarts and faults.                        *)
THEOREM AsIsCorrect == Spec => []AsIsIsComplete
<1>1. IInv => AsIsIsComplete
  BY DEF IInv, Phases, AsIsIsComplete, Excused
<1>2. QED BY <1>1, IInvHolds, PTL

\* While the two excuses have not occurred, a served volume is not touched.
LEMMA ServedUntouched ==
  ASSUME IInv, served, Kept, [Next]_vars
  PROVE  UNCHANGED <<files, work>>
<1>1. /\ pc \in {"down", "boot", "startAsIs", "serving"}
      /\ watcher = "off" /\ Marker \notin files
  BY DEF IInv, ServedSafe
<1>2. CASE Boot \/ MainStep \/ ChildStep
  BY <1>1, <1>2 DEF Boot, MainStep, ChildStep, NeedsInit, MainWipes, RewipeDone, ArmWatcher,
     AppendHba, WriteMarker, ScriptsDone, WipedAfterFailure, RemoveMarker, Disarm,
     StartPostgres, InitdbBegins, ChildCreates, InitdbSucceeds, RunScript,
     ProvisioningStopped, volume
<1>3. CASE WatcherStep \/ Failure
  BY <1>1, <1>3 DEF WatcherStep, WatcherWakes, WatcherWipes, WatcherExits, Failure, BootFails,
     PasswordMissing, InitdbFails, HbaFails, MarkerFails, ScriptFails, PostgresExits, Term,
     Kill, MainWipeFails, WatcherWipeFails, WipeFails, volume
<1>4. CASE UNCHANGED vars
  BY <1>4 DEF vars, volume
<1>5. QED BY <1>2, <1>3, <1>4 DEF Next

(* A cluster postgres has served loses no entry and is not provisioned     *)
(* again by any later start, signal, kill or failure, unless the marker    *)
(* could not be removed or a signal of the initialization was pending when *)
(* postgres started.                                                       *)
THEOREM ServedKept == Spec => ServedIsKept
<1>1. IInv /\ [Next]_vars =>
        [served /\ Complete =>
           Complete' \/ blame \cap {"markerStuck", "lateSignal"} # {}]_vars
  BY ServedUntouched DEF Kept, Complete
<1>2. QED BY <1>1, IInvHolds, PTL DEF Spec, ServedIsKept

(* What "started as-is" does hold for: from the start of postgres on a     *)
(* complete cluster, while the two events have not occurred, the cluster   *)
(* stays complete and no run of the supervisor goes anywhere but straight  *)
(* to postgres: no wipe, no initdb, no script.                             *)
ServedStartsAsIs ==
  served /\ blame \cap {"markerStuck", "lateSignal"} = {} =>
    Complete /\ watcher = "off" /\ pc \in {"down", "boot", "startAsIs", "serving"}

THEOREM ServedStarts == Spec => []ServedStartsAsIs
<1>1. IInv => ServedStartsAsIs
  BY DEF IInv, ServedSafe, Kept, ServedStartsAsIs
<1>2. QED BY <1>1, IInvHolds, PTL

=============================================================================

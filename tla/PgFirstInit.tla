---------------------------- MODULE PgFirstInit ----------------------------
(***************************************************************************)
(* First initialization of the database image: what pgsupervisor's main()  *)
(* does to PGDATA before the real server starts, over any number of        *)
(* container restarts.  The volume (files, work) survives a restart; the   *)
(* process (main's pc, the init-signal goroutine, initdb and the           *)
(* provisioning server) does not.                                          *)
(*                                                                         *)
(* A signal, a SIGKILL, and the failure of an external step (a removal in  *)
(* a wipe is one) are faults, at most MaxFaults of them in a behaviour.    *)
(* The history variable blame records the events that may leave a damaged  *)
(* PGDATA that nothing on the volume gives away, so that the properties    *)
(* can say that no other event does.                                       *)
(*                                                                         *)
(* The volume here is what the kernel shows, which outlives the container. *)
(* The loss of the node is out of scope: the marker's write and removal    *)
(* are not synced, so the disk may hold them in another order.             *)
(***************************************************************************)
EXTENDS Integers

CONSTANTS
  NumEntries,  \* visible entries initdb creates in PGDATA
  NumScripts,  \* provisioning steps: CREATE DATABASE and the *.sql scripts
  MaxFaults    \* bound on signals, kills and external failures

ASSUME InitConstants ==
  /\ NumEntries \in Nat \ {0}
  /\ NumScripts \in Nat
  /\ MaxFaults \in Nat

VARIABLES
  files,      \* entries of PGDATA, lost+found left out
  work,       \* provisioning the cluster carries: 0 initdb only, 1 hba, then scripts
  served,     \* history: the real server has been started on this complete cluster
  pc,         \* where main() is; "down" when the container is not running
  wipeList,   \* entries main's wipePgData has listed and not removed yet
  watcher,    \* the init-signal goroutine: "off", "armed" or "wiping"
  watchList,  \* entries the goroutine's wipePgData has yet to remove
  queued,     \* a signal waits in initSignals (capacity 1)
  blame,      \* history: the events that may leave an undetected partial cluster
  faults      \* faults so far

volume  == <<files, work, served>>
process == <<pc, wipeList, watcher, watchList, queued>>
vars    == <<volume, process, blame, faults>>

-----------------------------------------------------------------------------
(* Names in PGDATA, numbered in os.ReadDir's order: dot names come first.  *)

Hidden  == -1                  \* a dot file of the mount, not the supervisor's
Marker  == 0                   \* .pgsupervisor-init-incomplete
Cluster == 1 .. NumEntries     \* what initdb creates
HbaFile == NumEntries          \* pg_hba.conf, one of them
Names   == {Hidden, Marker} \cup Cluster

AllWork == NumScripts + 1

Complete == Cluster \subseteq files /\ work = AllWork

InitdbWindow == {"initdb", "hba", "mark"}
Listening    == {"initdb0", "initdb", "hba", "mark", "scripts", "stopOk",
                 "stopFail", "unmark", "disarm", "failWipe"}
PCs == Listening \cup {"down", "boot", "rewipe", "password", "start",
                       "startAsIs", "serving"}

Excuses == {"killInInitdb", "killInWipe", "endInWipe", "writeInWipe", "wipeFails",
            "markerStuck", "lateSignal"}

TypeOK ==
  /\ files \subseteq Names
  /\ work \in 0 .. AllWork
  /\ served \in BOOLEAN
  /\ pc \in PCs
  /\ wipeList \subseteq Names
  /\ watcher \in {"off", "armed", "wiping"}
  /\ watchList \subseteq Names
  /\ queued \in BOOLEAN
  /\ blame \subseteq Excuses
  /\ faults \in 0 .. MaxFaults

(* PGDATA is missing or empty, holds a dot file of the mount, or carries a *)
(* cluster an earlier container provisioned and served.                    *)
Init ==
  /\ \/ files \in {{}, {Hidden}} /\ work = 0 /\ served = FALSE
     \/ files \in {Cluster, Cluster \cup {Hidden}} /\ work = AllWork /\ served = TRUE
  /\ pc = "down" /\ wipeList = {}
  /\ watcher = "off" /\ watchList = {} /\ queued = FALSE
  /\ blame = {} /\ faults = 0

-----------------------------------------------------------------------------
(* Helpers.                                                                *)

Fault == faults < MaxFaults /\ faults' = faults + 1

Goto(label) == pc' = label

\* The process is gone, and every child with it: it is PID 1 of its container.
End(excuse) ==
  /\ Goto("down")
  /\ wipeList' = {}
  /\ watcher' = "off" /\ watchList' = {} /\ queued' = FALSE
  /\ blame' = blame \cup excuse

\* What an end of the process that no wipe asked for may leave behind.
WipeInProgress == pc \in {"rewipe", "failWipe"} \/ watcher = "wiping"
EndExcuse  == IF WipeInProgress THEN {"endInWipe"} ELSE {}
KillExcuse == (IF WipeInProgress THEN {"killInWipe"} ELSE {})
                \cup (IF pc \in InitdbWindow THEN {"killInInitdb"} ELSE {})

\* Variant: a wipe that leaves dot files alone.
WipeVisibleOnly == files \ {Hidden}

\* wipePgData lists the directory once, then removes entry after entry in order.
\* A listing that fails is a WipeFails that leaves every entry.
WipeTargets == files
First(list, e) == e \in list /\ \A f \in list : e <= f

\* The error of os.ReadDir ends the wipe without a word and the one of
\* os.RemoveAll is dropped: the entries of stay remain, and the caller goes on as
\* after a full wipe.  What is gone from inside such an entry is not modelled.
WipeFails(list, stay) ==
  /\ Fault
  /\ stay # {} /\ stay \subseteq list
  /\ blame' = IF stay \cap Cluster = {} THEN blame ELSE blame \cup {"wipeFails"}

-----------------------------------------------------------------------------
(* Booting: needsInit and the password check.                              *)

Boot ==
  /\ pc = "down"
  /\ Goto("boot")
  /\ UNCHANGED <<volume, wipeList, watcher, watchList, queued, blame, faults>>

\* Variant: the marker is not looked for.
NeedsInitNoMarker ==
  /\ pc = "boot"
  /\ Goto(IF files \cap Cluster = {} THEN "password" ELSE "startAsIs")
  /\ UNCHANGED <<volume, wipeList, watcher, watchList, queued, blame, faults>>

\* Variant: every start initializes.
NeedsInitAlways ==
  /\ pc = "boot"
  /\ Goto("rewipe") /\ wipeList' = WipeTargets
  /\ UNCHANGED <<volume, watcher, watchList, queued, blame, faults>>

\* A marker means an interrupted initialization: wipe and initialize again.
\* Without one, any visible entry means an initialized cluster.
NeedsInit ==
  /\ pc = "boot"
  /\ \/ /\ Marker \in files
        /\ Goto("rewipe") /\ wipeList' = WipeTargets
     \/ /\ Marker \notin files
        /\ Goto(IF files \cap Cluster = {} THEN "password" ELSE "startAsIs")
        /\ UNCHANGED wipeList
  /\ UNCHANGED <<volume, watcher, watchList, queued, blame, faults>>

\* PGDATA cannot be created or read: fatal.
BootFails ==
  /\ pc = "boot" /\ Fault
  /\ End({})
  /\ UNCHANGED volume

\* One os.RemoveAll of the wipe main() runs, or the end of it.
MainWipes ==
  /\ pc \in {"rewipe", "failWipe"} /\ wipeList # {}
  /\ \E e \in wipeList : /\ First(wipeList, e)
                         /\ wipeList' = wipeList \ {e}
                         /\ files' = files \ {e}
  /\ UNCHANGED <<work, served, pc, watcher, watchList, queued, blame, faults>>

MainWipeFails ==
  /\ pc \in {"rewipe", "failWipe"}
  /\ \E stay \in SUBSET wipeList : WipeFails(wipeList, stay) /\ wipeList' = wipeList \ stay
  /\ UNCHANGED <<volume, pc, watcher, watchList, queued>>

RewipeDone ==
  /\ pc = "rewipe" /\ wipeList = {}
  /\ Goto("password")
  /\ UNCHANGED <<volume, wipeList, watcher, watchList, queued, blame, faults>>

PasswordMissing ==
  /\ pc = "password" /\ Fault
  /\ End({})
  /\ UNCHANGED volume

\* signal.Notify(initSignals) and the goroutine that waits on it.
ArmWatcher ==
  /\ pc = "password"
  /\ Goto("initdb0") /\ watcher' = "armed"
  /\ UNCHANGED <<volume, wipeList, watchList, queued, blame, faults>>

-----------------------------------------------------------------------------
(* initdb, the marker, provisioning.                                       *)

\* wipePgData after a failed step, then os.Exit(1).
FailAndWipe == Goto("failWipe") /\ wipeList' = WipeTargets

\* initdb accepts only an empty directory.
InitdbBegins ==
  /\ pc = "initdb0"
  /\ IF files = {} THEN Goto("initdb") /\ work' = 0 /\ UNCHANGED wipeList
                   ELSE FailAndWipe /\ UNCHANGED work
  /\ UNCHANGED <<files, served, watcher, watchList, queued, blame, faults>>

InitdbFails ==
  /\ pc = "initdb" /\ Fault
  /\ FailAndWipe
  /\ UNCHANGED <<volume, watcher, watchList, queued, blame>>

\* A child process writes in PGDATA: initdb, or while the goroutine wipes under
\* it the provisioning or the real server.
ServerRuns == \/ pc \in {"scripts", "stopOk", "stopFail"} /\ NumScripts > 0
              \/ pc = "serving"

ChildCreates ==
  /\ pc = "initdb" \/ (ServerRuns /\ watcher = "wiping")
  /\ \E e \in Cluster \ files : files' = files \cup {e}
  /\ blame' = IF watcher = "wiping" THEN blame \cup {"writeInWipe"} ELSE blame
  /\ UNCHANGED <<work, served, process, faults>>

InitdbSucceeds ==
  /\ pc = "initdb" /\ Cluster \subseteq files
  /\ Goto("hba")
  /\ UNCHANGED <<volume, wipeList, watcher, watchList, queued, blame, faults>>

\* The appended pg_hba.conf rule; the file is opened without O_CREATE.
AppendHba ==
  /\ pc = "hba" /\ HbaFile \in files
  /\ Goto("mark") /\ work' = 1
  /\ UNCHANGED <<files, served, wipeList, watcher, watchList, queued, blame, faults>>

HbaFails ==
  /\ pc = "hba"
  /\ (HbaFile \notin files /\ UNCHANGED faults) \/ Fault
  /\ FailAndWipe
  /\ UNCHANGED <<volume, watcher, watchList, queued, blame>>

WriteMarker ==
  /\ pc = "mark"
  /\ Goto("scripts") /\ files' = files \cup {Marker}
  /\ UNCHANGED <<work, served, wipeList, watcher, watchList, queued, blame, faults>>

MarkerFails ==
  /\ pc = "mark" /\ Fault
  /\ FailAndWipe
  /\ UNCHANGED <<volume, watcher, watchList, queued, blame>>

\* Variant: a script may be run once more than there are scripts.
RunScriptAgain ==
  /\ pc = "scripts" /\ work <= AllWork
  /\ work' = work + 1
  /\ UNCHANGED <<files, served, process, blame, faults>>

\* CREATE DATABASE or one *.sql file ran.
RunScript ==
  /\ pc = "scripts" /\ work < AllWork
  /\ work' = work + 1
  /\ UNCHANGED <<files, served, process, blame, faults>>

\* A script, or the provisioning server itself, fails: on its own, or because
\* the goroutine is removing its files.
ScriptFails ==
  /\ pc = "scripts" /\ NumScripts > 0
  /\ (watcher = "wiping" /\ UNCHANGED faults) \/ Fault
  /\ Goto("stopFail")
  /\ UNCHANGED <<volume, wipeList, watcher, watchList, queued, blame>>

ScriptsDone ==
  /\ pc = "scripts" /\ work = AllWork
  /\ Goto("stopOk")
  /\ UNCHANGED <<volume, wipeList, watcher, watchList, queued, blame, faults>>

\* The deferred SIGINT and Wait for the provisioning server.
ProvisioningStopped ==
  \/ /\ pc = "stopOk"
     /\ Goto("unmark")
     /\ UNCHANGED <<volume, wipeList, watcher, watchList, queued, blame, faults>>
  \/ /\ pc = "stopFail"              \* os.Exit(1), the marker is kept
     /\ End(EndExcuse)
     /\ UNCHANGED <<volume, faults>>

WipedAfterFailure ==
  /\ pc = "failWipe" /\ wipeList = {}
  /\ End({})
  /\ UNCHANGED <<volume, faults>>

\* os.Remove of the marker; its error is ignored.
RemoveMarker ==
  /\ pc = "unmark"
  /\ Goto("disarm")
  /\ \/ files' = files \ {Marker} /\ UNCHANGED <<blame, faults>>
     \/ Marker \in files /\ Fault /\ blame' = blame \cup {"markerStuck"} /\ UNCHANGED files
  /\ UNCHANGED <<work, served, wipeList, watcher, watchList, queued>>

\* signal.Stop and close: a signal already queued is still received.
Disarm ==
  /\ pc = "disarm"
  /\ Goto("start")
  /\ watcher' = IF watcher = "armed" /\ ~queued THEN "off" ELSE watcher
  /\ UNCHANGED <<volume, wipeList, watchList, queued, blame, faults>>

-----------------------------------------------------------------------------
(* The init-signal goroutine.                                              *)

WatcherWakes ==
  /\ watcher = "armed" /\ queued
  /\ watcher' = "wiping" /\ queued' = FALSE /\ watchList' = WipeTargets
  /\ UNCHANGED <<volume, pc, wipeList, blame, faults>>

WatcherWipes ==
  /\ watcher = "wiping" /\ watchList # {}
  /\ \E e \in watchList : /\ First(watchList, e)
                          /\ watchList' = watchList \ {e}
                          /\ files' = files \ {e}
  /\ UNCHANGED <<work, served, pc, wipeList, watcher, queued, blame, faults>>

WatcherWipeFails ==
  /\ watcher = "wiping"
  /\ \E stay \in SUBSET watchList : WipeFails(watchList, stay) /\ watchList' = watchList \ stay
  /\ UNCHANGED <<volume, pc, wipeList, watcher, queued>>

WatcherExits ==                     \* os.Exit(130)
  /\ watcher = "wiping" /\ watchList = {}
  /\ End({})
  /\ UNCHANGED <<volume, faults>>

-----------------------------------------------------------------------------
(* The real server.                                                        *)

StartPostgres ==
  /\ pc \in {"start", "startAsIs"}
  /\ Goto("serving")
  /\ served' = (served \/ Complete)
  /\ blame' = IF watcher = "off" THEN blame ELSE blame \cup {"lateSignal"}
  /\ UNCHANGED <<files, work, wipeList, watcher, watchList, queued, faults>>

\* postgres exits, and the supervisor with it; a damaged cluster may do so at once.
PostgresExits ==
  /\ pc = "serving"
  /\ (~Complete /\ UNCHANGED faults) \/ Fault
  /\ End(EndExcuse)
  /\ UNCHANGED volume

-----------------------------------------------------------------------------
(* Signals and kills.                                                      *)

\* SIGTERM or SIGINT.  While initSignals is notified it is queued, or dropped when
\* one is queued already; before and after, Go's default ends the process; the
\* serving supervisor drains and exits.
Term ==
  /\ Fault /\ pc # "down"
  /\ UNCHANGED volume
  /\ IF pc \in Listening
       THEN queued' = TRUE /\ UNCHANGED <<pc, wipeList, watcher, watchList, blame>>
       ELSE End(EndExcuse)

\* SIGKILL of the container, or os.Exit(1) of the admin server's goroutine.
Kill ==
  /\ Fault /\ pc # "down"
  /\ End(KillExcuse)
  /\ UNCHANGED volume

-----------------------------------------------------------------------------

MainStep ==
  \/ NeedsInit \/ MainWipes \/ RewipeDone \/ ArmWatcher
  \/ AppendHba \/ WriteMarker \/ ScriptsDone
  \/ WipedAfterFailure \/ RemoveMarker \/ Disarm \/ StartPostgres

ChildStep ==
  \/ InitdbBegins \/ ChildCreates \/ InitdbSucceeds \/ RunScript \/ ProvisioningStopped

WatcherStep == WatcherWakes \/ WatcherWipes \/ WatcherExits

Failure ==
  \/ BootFails \/ MainWipeFails \/ WatcherWipeFails \/ PasswordMissing \/ InitdbFails \/ HbaFails \/ MarkerFails
  \/ ScriptFails \/ PostgresExits \/ Term \/ Kill

Next == Boot \/ MainStep \/ ChildStep \/ WatcherStep \/ Failure

(* The container is restarted, main() and the goroutine are scheduled, and *)
(* initdb, the scripts and the provisioning server end: the code sets no   *)
(* time limit on initdb and on the server's stop.                          *)
Fairness ==
  /\ WF_vars(Boot)
  /\ WF_vars(MainStep)
  /\ WF_vars(ChildStep)
  /\ WF_vars(WatcherStep)

Spec == Init /\ [][Next]_vars
FairSpec == Spec /\ Fairness

-----------------------------------------------------------------------------
(* Properties.                                                             *)

(* A start that trusts PGDATA as it is (no marker, visible entries) finds  *)
(* a completely provisioned cluster, or one of the recorded events left it *)
(* that way: a kill while initdb runs and before the marker is written, an *)
(* end of the process in the middle of a wipe, a child that wrote while    *)
(* the goroutine wiped, or a wipe that could not remove a visible entry    *)
(* and whose caller exited as if it had.                                   *)
AsIsIsComplete ==
  pc = "startAsIs" =>
    Complete \/ blame \cap {"killInInitdb", "killInWipe", "endInWipe", "writeInWipe",
                            "wipeFails"} # {}

(* Once postgres has served a cluster, no later start or signal removes an *)
(* entry of it, unless the marker could not be removed or a signal taken   *)
(* by the initialization was still unhandled when postgres started.        *)
ServedIsKept ==
  [][served /\ Complete =>
       Complete' \/ blame \cap {"markerStuck", "lateSignal"} # {}]_vars

(* When faults stop, restarts end with a served, complete cluster, unless  *)
(* one of the recorded events happened: no crash loop over the leftovers   *)
(* of a failed or interrupted initialization.  A wipe that leaves only the *)
(* marker or a dot file is not such an event.                              *)
Recovers == <>(blame # {}) \/ <>[](pc = "serving" /\ Complete)

(* src/src/DB/CONTRACT.md:47 "Only a SIGKILL landing inside the few-second *)
(* initdb window can leave an undetected partial cluster": no signal the   *)
(* supervisor can handle, and no error, leaves one.                        *)
OnlyKillLeavesPartial ==
  pc = "startAsIs" => Complete \/ blame \cap {"killInInitdb", "killInWipe"} # {}

(* src/src/DB/CONTRACT.md:44 "An already-initialized PGDATA is started     *)
(* as-is": a cluster that has served is not wiped and initialized again.   *)
InitializedIsStartedAsIs == ~(pc = "rewipe" /\ served /\ Complete)

=============================================================================

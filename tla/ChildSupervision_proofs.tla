---------------------- MODULE ChildSupervision_proofs ----------------------
(***************************************************************************)
(* Proofs about ChildSupervision: types, the lost wake-up, and the safety  *)
(* part of the refinement of SupervisedService, for any number of orphans, *)
(* any channel capacities and any set of exit codes and signals.           *)
(***************************************************************************)
EXTENDS ChildSupervision, FiniteSetTheorems, TLAPS

(* A code in the channel is the code of srv's end, and srv has been reaped.*)
ChannelTruthful ==
  exited # -1 => proc["srv"] = "reaped" /\ exited = ExitCode(status)

(* There is no server before main() starts one.                            *)
NoServerYet == main = "start" => proc["srv"] = "none"

IInv == TypeOK /\ NoLostWakeup /\ ChannelTruthful /\ NoServerYet

(* Until the reaper's own post, a SIGCHLD in the channel or pending stands *)
(* for a zombie of its own.  The reaper is spawned with srv.               *)
Pending == IF sigchld THEN 1 ELSE 0

DeathsCounted ==
  /\ main = "start" => reaper = "off"
  /\ reaper \in {"off", "spawned"} => chld = 0
  /\ reaper \in {"off", "spawned", "notified"} => chld + Pending <= Cardinality(Zombies)

(* The signals of the shutdown are sent in a drain, in their order.        *)
DrainInOrder ==
  /\ main \in {"delay", "stopping", "quit"} => draining
  /\ main = "stopping" => told \in {"INT", "TERM"}

-----------------------------------------------------------------------------

(* What the constants are, one fact at a time.                             *)
LEMMA Constants ==
  /\ ChldCap \in Nat /\ ChldCap > 0 /\ SigCap \in Nat /\ SigCap > 0
  /\ "srv" \notin Orphans
  /\ ExitCodes \subseteq 0 .. 127 /\ DeathSignals \subseteq 1 .. 64
<1> QED
  BY SupervisionConstants

(* An exit code fits the range of exit codes.                              *)
LEMMA ExitCodeRange ==
  ASSUME TypeOK PROVE ExitCode(status) \in 0 .. 255
<1>1. ASSUME status \in [by : {"exit"}, n : ExitCodes] PROVE ExitCode(status) \in 0 .. 255
  <2>1. status.by = "exit" /\ status.n \in ExitCodes
    BY <1>1
  <2>2. status.n \in 0 .. 127
    BY <2>1, Constants
  <2>3. QED
    BY <2>1, <2>2 DEF ExitCode
<1>2. ASSUME status \in [by : {"signal"}, n : DeathSignals] PROVE ExitCode(status) \in 0 .. 255
  <2>1. status.by = "signal" /\ status.n \in DeathSignals
    BY <1>2
  <2>2. status.n \in 1 .. 64
    BY <2>1, Constants
  <2>3. QED
    BY <2>1, <2>2 DEF ExitCode
<1>3. status = [by |-> "exit", n |-> 0] => ExitCode(status) \in 0 .. 255
  BY DEF ExitCode
<1>4. QED
  BY <1>1, <1>2, <1>3 DEF TypeOK, KernelTypes, Statuses

LEMMA InitIInv == Init => IInv
<1>1. SUFFICES ASSUME Init PROVE IInv
  OBVIOUS
<1>2. KernelTypes
  BY <1>1 DEF Init, KernelTypes
<1>3. CountTypes /\ CodeTypes
  BY <1>1, Constants DEF Init, CountTypes, CodeTypes
<1>4. PlaceTypes
  BY <1>1 DEF Init, PlaceTypes, Mains, Reapers
<1>5. NoLostWakeup /\ ChannelTruthful /\ NoServerYet
  BY <1>1 DEF Init, NoLostWakeup, ChannelTruthful, NoServerYet, Procs
<1>6. QED
  BY <1>2, <1>3, <1>4, <1>5 DEF IInv, TypeOK

(* Every step keeps the types.                                             *)
LEMMA KernelTypesStep ==
  ASSUME IInv, [Next]_vars PROVE KernelTypes'
<1> USE DEF IInv, TypeOK, KernelTypes
<1>1. CASE UNCHANGED vars
  BY <1>1 DEF vars, kernel
<1>2. CASE DeliverChld
  BY <1>2 DEF DeliverChld
<1>3. CASE ReaperStep
  BY <1>3 DEF ReaperStep, Notify, Post, Receive, NothingToReap, Reap, kernel
<1>4. CASE MainStep
  <2>1. CASE StartServer
    BY <2>1 DEF StartServer
  <2>2. CASE ~StartServer
    BY <1>4, <2>2
    DEF MainStep, StartFails, Listen, SelectExited, SelectSignal, DelayOver, StopDone,
        BudgetOver, QuitDone, QuitTimeout, kernel
  <2>3. QED
    BY <2>1, <2>2
<1>5. CASE Environment
  BY <1>5
  DEF Environment, ServerEnds, OrphanAppears, OrphanDies, AdminFails, Term, Die, kernel
<1>6. QED
  BY <1>1, <1>2, <1>3, <1>4, <1>5 DEF Next

LEMMA CountTypesStep ==
  ASSUME IInv, [Next]_vars PROVE CountTypes'
<1> USE Constants DEF IInv, TypeOK, CountTypes
<1>1. CASE UNCHANGED vars
  BY <1>1 DEF vars, reaping, control
<1>2. CASE DeliverChld
  BY <1>2 DEF DeliverChld, control
<1>3. CASE ReaperStep
  BY <1>3 DEF ReaperStep, Notify, Post, Receive, NothingToReap, Reap, control
<1>4. CASE MainStep
  BY <1>4
  DEF MainStep, StartServer, StartFails, Listen, SelectExited, SelectSignal, DelayOver, StopDone,
      BudgetOver, QuitDone, QuitTimeout, reaping
<1>5. CASE Environment
  BY <1>5 DEF Environment, ServerEnds, OrphanAppears, OrphanDies, AdminFails, Term, reaping, control
<1>6. QED
  BY <1>1, <1>2, <1>3, <1>4, <1>5 DEF Next

LEMMA CodeTypesStep ==
  ASSUME IInv, [Next]_vars PROVE CodeTypes'
<1> USE DEF IInv, TypeOK, CodeTypes
<1>1. CASE UNCHANGED vars
  BY <1>1 DEF vars, control
<1>2. CASE DeliverChld
  BY <1>2 DEF DeliverChld, control
<1>3. CASE ReaperStep
  <2>1. ExitCode(status) \in 0 .. 255
    BY ExitCodeRange
  <2>2. QED
    BY <1>3, <2>1 DEF ReaperStep, Notify, Post, Receive, NothingToReap, Reap, control
<1>4. CASE MainStep
  BY <1>4
  DEF MainStep, StartServer, StartFails, Listen, SelectExited, SelectSignal, DelayOver, StopDone,
      BudgetOver, QuitDone, QuitTimeout, Exit
<1>5. CASE Environment
  BY <1>5 DEF Environment, ServerEnds, OrphanAppears, OrphanDies, AdminFails, Term, Exit, control
<1>6. QED
  BY <1>1, <1>2, <1>3, <1>4, <1>5 DEF Next

LEMMA PlaceTypesStep ==
  ASSUME IInv, [Next]_vars PROVE PlaceTypes'
<1> USE DEF IInv, TypeOK, PlaceTypes, Mains, Reapers
<1>1. CASE UNCHANGED vars
  BY <1>1 DEF vars, reaping, control
<1>2. CASE DeliverChld
  BY <1>2 DEF DeliverChld, control
<1>3. CASE ReaperStep
  BY <1>3 DEF ReaperStep, Notify, Post, Receive, NothingToReap, Reap, control
<1>4. CASE MainStep
  BY <1>4
  DEF MainStep, StartServer, StartFails, Listen, SelectExited, SelectSignal, DelayOver, StopDone,
      BudgetOver, QuitDone, QuitTimeout, Exit, reaping
<1>5. CASE Environment
  BY <1>5
  DEF Environment, ServerEnds, OrphanAppears, OrphanDies, AdminFails, Term, Exit, reaping, control
<1>6. QED
  BY <1>1, <1>2, <1>3, <1>4, <1>5 DEF Next

(* A zombie is seen: by a reaper that is not blocked, or by the signal of  *)
(* its death, which is pending or in the channel until it is received.     *)
LEMMA WakeupStep ==
  ASSUME IInv, [Next]_vars PROVE NoLostWakeup'
<1> USE DEF IInv, NoLostWakeup, Alive, Zombies
<1>0. chld \in Nat /\ ChldCap \in Nat /\ ChldCap > 0
  BY Constants DEF TypeOK, CountTypes
<1>1. CASE UNCHANGED vars
  BY <1>1 DEF vars, kernel, reaping, control
<1>2. CASE DeliverChld
  BY <1>0, <1>2 DEF DeliverChld, control
<1>3. CASE ReaperStep
  <2>1. CASE Notify \/ Post \/ Receive \/ NothingToReap
    BY <1>0, <2>1 DEF Notify, Post, Receive, NothingToReap, kernel, control
  <2>2. ASSUME NEW p \in Procs, Reap(p) PROVE NoLostWakeup'
    BY <2>2 DEF Reap
  <2>3. QED
    BY <1>3, <2>1, <2>2 DEF ReaperStep
<1>4. CASE MainStep
  BY <1>4
  DEF MainStep, StartServer, StartFails, Listen, SelectExited, SelectSignal, DelayOver, StopDone,
      BudgetOver, QuitDone, QuitTimeout, Exit, kernel, reaping
<1>5. CASE Environment
  <2>1. CASE ServerEnds
    BY <2>1 DEF ServerEnds, Die
  <2>2. ASSUME NEW p \in Orphans, OrphanAppears(p) \/ OrphanDies(p) PROVE NoLostWakeup'
    <3>1. CASE OrphanAppears(p)
      BY <3>1 DEF OrphanAppears, reaping, control, TypeOK, KernelTypes
    <3>2. CASE OrphanDies(p)
      BY <3>2 DEF OrphanDies, Die
    <3>3. QED
      BY <2>2, <3>1, <3>2
  <2>3. CASE AdminFails \/ Term
    BY <2>3 DEF AdminFails, Term, Exit, kernel, reaping
  <2>4. QED
    BY <1>5, <2>1, <2>2, <2>3 DEF Environment
<1>6. QED
  BY <1>1, <1>2, <1>3, <1>4, <1>5 DEF Next

(* The channel's code stays true: srv is reaped once, and ends once.       *)
LEMMA ChannelStep ==
  ASSUME IInv, [Next]_vars PROVE ChannelTruthful' /\ NoServerYet'
<1> USE DEF IInv, ChannelTruthful, NoServerYet
<1>1. CASE UNCHANGED vars
  BY <1>1 DEF vars, kernel, reaping, control, ExitCode
<1>2. CASE DeliverChld
  BY <1>2 DEF DeliverChld, control, ExitCode
<1>3. CASE ReaperStep
  <2>1. CASE Notify \/ Post \/ Receive \/ NothingToReap
    BY <2>1 DEF Notify, Post, Receive, NothingToReap, kernel, control, ExitCode
  <2>2. ASSUME NEW p \in Procs, Reap(p) PROVE ChannelTruthful' /\ NoServerYet'
    BY <2>2 DEF Reap, TypeOK, KernelTypes, control, ExitCode, Zombies
  <2>3. QED
    BY <1>3, <2>1, <2>2 DEF ReaperStep
<1>4. CASE MainStep
  <2>1. CASE StartServer
    BY <2>1 DEF StartServer, TypeOK, KernelTypes
  <2>2. CASE StartFails \/ Listen \/ SelectSignal \/ DelayOver
    BY <2>2 DEF StartFails, Listen, SelectSignal, DelayOver, Exit, kernel, ExitCode
  <2>3. CASE SelectExited \/ StopDone \/ BudgetOver \/ QuitDone \/ QuitTimeout
    BY <2>3
    DEF SelectExited, StopDone, BudgetOver, QuitDone, QuitTimeout, Exit, kernel, ExitCode
  <2>4. QED
    BY <1>4, <2>1, <2>2, <2>3 DEF MainStep
<1>5. CASE Environment
  <2>1. CASE ServerEnds
    BY <2>1 DEF ServerEnds, Die, control
  <2>2. ASSUME NEW p \in Orphans, OrphanAppears(p) \/ OrphanDies(p)
        PROVE ChannelTruthful' /\ NoServerYet'
    <3>1. proc'["srv"] = proc["srv"]
      BY <2>2, Constants DEF OrphanAppears, OrphanDies, Die, TypeOK, KernelTypes, Procs
    <3>2. UNCHANGED <<status, exited, main>>
      BY <2>2 DEF OrphanAppears, OrphanDies, control
    <3>3. QED
      BY <3>1, <3>2 DEF ExitCode
  <2>3. CASE AdminFails \/ Term
    BY <2>3 DEF AdminFails, Term, Exit, kernel, ExitCode, Alive
  <2>4. QED
    BY <1>5, <2>1, <2>2, <2>3 DEF Environment
<1>6. QED
  BY <1>1, <1>2, <1>3, <1>4, <1>5 DEF Next

LEMMA IInvHolds == Spec => []IInv
<1>1. IInv /\ [Next]_vars => IInv'
  BY KernelTypesStep, CountTypesStep, CodeTypesStep, PlaceTypesStep, WakeupStep, ChannelStep
  DEF IInv, TypeOK
<1>2. QED
  BY InitIInv, <1>1, PTL DEF Spec

-----------------------------------------------------------------------------

(* Every variable of the supervisor stays within its type, its exit codes  *)
(* and channel contents included.                                          *)
THEOREM TypeCorrect == Spec => []TypeOK
<1>1. IInv => TypeOK
  BY DEF IInv
<1>2. QED
  BY IInvHolds, <1>1, PTL

(* The reaper never blocks while a zombie waits and no signal is on its    *)
(* way, however SIGCHLDs coalesce or are dropped.                          *)
THEOREM WakeupCorrect == Spec => []NoLostWakeup
<1>1. IInv => NoLostWakeup
  BY DEF IInv
<1>2. QED
  BY IInvHolds, <1>1, PTL

-----------------------------------------------------------------------------
(* The reaper's sends.                                                     *)

LEMMA ZombiesFinite ==
  /\ IsFiniteSet(Procs) /\ Cardinality(Procs) = Cardinality(Orphans) + 1
  /\ IsFiniteSet(Zombies) /\ Cardinality(Zombies) \in Nat
<1>1. IsFiniteSet(Orphans) /\ "srv" \notin Orphans
  BY SupervisionConstants
<1>2. Procs = Orphans \cup {"srv"}
  BY DEF Procs
<1>3. IsFiniteSet(Procs) /\ Cardinality(Procs) = Cardinality(Orphans) + 1
  BY <1>1, <1>2, FS_AddElement
<1>4. Zombies \subseteq Procs
  BY DEF Zombies
<1>5. IsFiniteSet(Zombies)
  BY <1>3, <1>4, FS_Subset
<1>6. Cardinality(Zombies) \in Nat
  BY <1>5, FS_CardinalityType
<1> QED
  BY <1>3, <1>5, <1>6

(* A death adds one zombie, and one signal at most.                        *)
LEMMA DeathCounts ==
  ASSUME TypeOK, NEW p \in Procs, proc[p] = "running", Die(p)
  PROVE  Cardinality(Zombies') = Cardinality(Zombies) + 1 /\ Pending' = 1
<1>1. Zombies' = Zombies \cup {p} /\ p \notin Zombies
  BY DEF Die, Zombies, TypeOK, KernelTypes
<1>2. Cardinality(Zombies \cup {p}) = Cardinality(Zombies) + 1
  BY <1>1, ZombiesFinite, FS_AddElement
<1> QED
  BY <1>1, <1>2 DEF Die, Pending

(* The other steps but those of wait4 leave the zombies as they are.       *)
LEMMA ZombiesStay ==
  ASSUME TypeOK,
         \/ UNCHANGED proc
         \/ \E p \in Orphans : OrphanAppears(p)
         \/ StartServer /\ proc["srv"] = "none"
  PROVE  Zombies' = Zombies
<1> USE DEF Zombies, TypeOK, KernelTypes
<1>1. CASE UNCHANGED proc
  BY <1>1
<1>2. ASSUME NEW p \in Orphans, OrphanAppears(p) PROVE Zombies' = Zombies
  BY <1>2 DEF OrphanAppears, Procs
<1>3. CASE StartServer /\ proc["srv"] = "none"
  BY <1>3 DEF StartServer, Procs
<1> QED
  BY <1>1, <1>2, <1>3

LEMMA CountedStep ==
  ASSUME IInv, DeathsCounted, [Next]_vars PROVE DeathsCounted'
<1> USE DEF DeathsCounted, Pending
<1>0. /\ TypeOK /\ chld \in Nat /\ ChldCap \in Nat /\ sigchld \in BOOLEAN
      /\ Cardinality(Zombies) \in Nat
  BY ZombiesFinite, Constants DEF IInv, TypeOK, CountTypes, KernelTypes
<1>1. CASE UNCHANGED vars
  BY <1>1, <1>0, ZombiesStay DEF vars, kernel, reaping, control
<1>2. CASE DeliverChld
  BY <1>2, <1>0, ZombiesStay DEF DeliverChld, control
<1>3. CASE ReaperStep
  <2>1. CASE Notify
    <3>1. Zombies' = Zombies
      BY <1>0, <2>1, ZombiesStay DEF Notify, kernel
    <3> QED
      BY <1>0, <2>1, <3>1 DEF Notify, kernel, control
  <2>2. CASE Post \/ Receive \/ NothingToReap
    BY <2>2 DEF Post, Receive, NothingToReap, control
  <2>3. ASSUME NEW p \in Procs, Reap(p) PROVE DeathsCounted'
    BY <2>3 DEF Reap, control
  <2> QED
    BY <1>3, <2>1, <2>2, <2>3 DEF ReaperStep
<1>4. CASE MainStep
  <2>1. CASE StartServer
    <3>1. proc["srv"] = "none" /\ reaper = "off"
      BY <2>1 DEF StartServer, IInv, NoServerYet
    <3>2. Zombies' = Zombies
      BY <1>0, <2>1, <3>1, ZombiesStay
    <3> QED
      BY <1>0, <2>1, <3>1, <3>2 DEF StartServer
  <2>2. CASE ~StartServer
    <3>1. UNCHANGED <<proc, sigchld, reaper, chld>> /\ main' # "start"
      BY <1>4, <2>2
      DEF MainStep, StartFails, Listen, SelectExited, SelectSignal, DelayOver, StopDone,
          BudgetOver, QuitDone, QuitTimeout, Exit, kernel, reaping
    <3> QED
      BY <1>0, <3>1, ZombiesStay
  <2> QED
    BY <2>1, <2>2
<1>5. CASE Environment
  <2>1. CASE ServerEnds
    BY <1>0, <2>1, DeathCounts DEF ServerEnds, reaping, control, Procs
  <2>2. ASSUME NEW p \in Orphans, OrphanAppears(p) PROVE DeathsCounted'
    BY <1>0, <2>2, ZombiesStay DEF OrphanAppears, reaping, control
  <2>3. ASSUME NEW p \in Orphans, OrphanDies(p) PROVE DeathsCounted'
    <3>1. p \in Procs /\ proc[p] = "running" /\ Die(p) /\ UNCHANGED <<reaper, chld, main>>
      BY <2>3 DEF OrphanDies, Procs, reaping, control
    <3>2. Cardinality(Zombies') = Cardinality(Zombies) + 1 /\ Pending' = 1
      BY <1>0, <3>1, DeathCounts
    <3> QED
      BY <1>0, <3>1, <3>2
  <2>4. CASE AdminFails \/ Term
    <3>1. UNCHANGED <<proc, sigchld, reaper, chld>> /\ (main' = "start" => main = "start")
      BY <2>4 DEF AdminFails, Term, Exit, kernel, reaping
    <3> QED
      BY <1>0, <3>1, ZombiesStay
  <2> QED
    BY <1>5, <2>1, <2>2, <2>3, <2>4 DEF Environment
<1> QED
  BY <1>1, <1>2, <1>3, <1>4, <1>5 DEF Next

(* The reaper blocks in no send but its post to itself, and there only     *)
(* behind as many unreaped deaths as its channel holds signals, for any    *)
(* number of orphans and any capacity.                                     *)
THEOREM ReaperCorrect == Spec => []ReaperBlocksOnlyOnBurst
<1>1. Init => DeathsCounted
  <2> SUFFICES ASSUME Init PROVE DeathsCounted
    OBVIOUS
  <2>1. Cardinality(Zombies) \in Nat
    BY ZombiesFinite
  <2> QED
    BY <2>1 DEF Init, DeathsCounted, Pending
<1>2. IInv /\ DeathsCounted /\ [Next]_vars => DeathsCounted'
  BY CountedStep
<1>3. IInv /\ DeathsCounted => ReaperBlocksOnlyOnBurst
  <2> SUFFICES ASSUME IInv, DeathsCounted PROVE ReaperBlocksOnlyOnBurst
    OBVIOUS
  <2>1. chld \in Nat /\ ChldCap \in Nat /\ sigchld \in BOOLEAN
    BY Constants DEF IInv, TypeOK, CountTypes, KernelTypes
  <2>2. Stuck => Cardinality(Zombies) >= ChldCap
    BY <2>1, ZombiesFinite DEF Stuck, DeathsCounted, Pending
  <2>3. proc["srv"] = "zombie" => exited = -1
    BY DEF IInv, ChannelTruthful
  <2> QED
    BY <2>2, <2>3 DEF ReaperBlocksOnlyOnBurst
<1> QED
  BY IInvHolds, <1>1, <1>2, <1>3, PTL DEF Spec

-----------------------------------------------------------------------------
(* Exit code 0.                                                            *)

LEMMA OrderStep ==
  ASSUME IInv, DrainInOrder, [Next]_vars PROVE DrainInOrder'
<1> USE DEF DrainInOrder
<1>1. CASE UNCHANGED vars \/ DeliverChld \/ ReaperStep
  BY <1>1
  DEF vars, DeliverChld, ReaperStep, Notify, Post, Receive, NothingToReap, Reap, control
<1>2. CASE MainStep
  BY <1>2
  DEF MainStep, StartServer, StartFails, Listen, SelectExited, SelectSignal, DelayOver, StopDone,
      BudgetOver, QuitDone, QuitTimeout, Exit
<1>3. CASE Environment
  BY <1>3 DEF Environment, ServerEnds, OrphanAppears, OrphanDies, AdminFails, Term, Exit, control
<1> QED
  BY <1>1, <1>2, <1>3 DEF Next

(* A wait status that is reported as 0 is that of a clean exit.            *)
LEMMA ZeroIsExit ==
  ASSUME TypeOK, ExitCode(status) = 0
  PROVE  status.by = "exit" /\ status.n = 0
<1>1. ASSUME status \in [by : {"exit"}, n : ExitCodes] PROVE status.by = "exit"
  BY <1>1
<1>2. ASSUME status \in [by : {"signal"}, n : DeathSignals] PROVE FALSE
  <2>0. status.by = "signal" /\ status.n \in DeathSignals
    BY <1>2
  <2>1. status.n \in 1 .. 64
    <3>1. DeathSignals \subseteq 1 .. 64
      BY Constants, Zenon
    <3> QED
      BY <2>0, <3>1, Zenon
  <2>2. ExitCode(status) = 128 + status.n
    BY <2>0, Zenon DEF ExitCode
  <2>3. status.n \in 1 .. 64 => 128 + status.n # 0
    OBVIOUS
  <2> QED
    BY <2>1, <2>2, <2>3, Zenon
<1>3. status.by = "exit"
  BY <1>1, <1>2 DEF TypeOK, KernelTypes, Statuses
<1> QED
  BY <1>3 DEF ExitCode

LEMMA ExitZeroStep ==
  ASSUME IInv, DrainInOrder, ExitZeroIsClean, main = "gone" <=> exitCode # -1, [Next]_vars
  PROVE  ExitZeroIsClean' /\ (main' = "gone" <=> exitCode' # -1)
<1> USE DEF ExitZeroIsClean
<1>1. CASE UNCHANGED vars
  BY <1>1 DEF vars, kernel, control
<1>2. CASE StopDone
  <2>1. exited # -1 /\ proc["srv"] = "reaped" /\ exited = ExitCode(status)
    BY <1>2 DEF StopDone, IInv, ChannelTruthful
  <2>2. exited = 0 => status.by = "exit" /\ status.n = 0
    BY <2>1, ZeroIsExit DEF IInv
  <2>3. exitCode' = exited /\ main' = "gone" /\ UNCHANGED <<proc, status, draining, told>>
    BY <1>2 DEF StopDone, Exit, kernel
  <2> QED
    BY <1>2, <2>1, <2>2, <2>3 DEF DrainInOrder, StopDone
<1>3. CASE MainStep /\ ~StopDone
  <2>1. /\ main # "gone" /\ exitCode' # 0
        /\ main' = "gone" <=> exitCode' # -1
    BY <1>3
    DEF MainStep, StartServer, StartFails, Listen, SelectExited, SelectSignal, DelayOver,
        BudgetOver, QuitDone, QuitTimeout, Exit, Alive
  <2> QED
    BY <2>1
<1>4. CASE AdminFails \/ Term
  BY <1>4 DEF AdminFails, Term, Exit, Alive, kernel
<1>5. CASE \/ DeliverChld \/ ReaperStep \/ ServerEnds
           \/ \E p \in Orphans : OrphanAppears(p) \/ OrphanDies(p)
  <2>1. Alive /\ UNCHANGED <<main, exitCode>>
    BY <1>5
    DEF DeliverChld, ReaperStep, Notify, Post, Receive, NothingToReap, Reap, ServerEnds,
        OrphanAppears, OrphanDies, control
  <2> QED
    BY <2>1 DEF Alive
<1> QED
  BY <1>1, <1>2, <1>3, <1>4, <1>5 DEF Next, Environment

(* Exit code 0 is the end of a drain whose server ended with 0, for every  *)
(* set of codes and signals a server may end with.                         *)
THEOREM ExitZeroCorrect == Spec => []ExitZeroIsClean
<1> DEFINE Ended == main = "gone" <=> exitCode # -1
           Inv == DrainInOrder /\ ExitZeroIsClean /\ Ended
<1>1. Init => Inv
  BY DEF Init, DrainInOrder, ExitZeroIsClean
<1>2. IInv /\ Inv /\ [Next]_vars => Inv'
  BY OrderStep, ExitZeroStep
<1> QED
  BY IInvHolds, <1>1, <1>2, PTL DEF Spec

-----------------------------------------------------------------------------
(* How main() ends.                                                        *)

(* The places main() has still to go through at most.                      *)
Rank == [start |-> 6, started |-> 5, select |-> 4, delay |-> 3, stopping |-> 2, quit |-> 1,
         gone |-> 0][main]

Ends == main \in Mains /\ (sigs > 0 => main \notin {"start", "started"})

LEMMA RankStep ==
  ASSUME Ends, [Next]_vars
  PROVE  Ends' /\ Rank' <= Rank /\ (MainStep => Rank' < Rank)
<1> USE DEF Ends, Rank, Mains, Exit
<1>1. CASE MainStep
  BY <1>1 DEF MainStep, StartServer, StartFails, Listen, SelectExited, SelectSignal, DelayOver,
              StopDone, BudgetOver, QuitDone, QuitTimeout
<1>2. CASE DeliverChld \/ ReaperStep
  <2>1. UNCHANGED <<main, sigs>>
    BY <1>2 DEF DeliverChld, ReaperStep, Notify, Post, Receive, NothingToReap, Reap, control
  <2>2. ~MainStep \/ Rank' < Rank
    BY <1>1
  <2> QED
    BY <2>1, <2>2
<1>3. CASE Environment
  <2>1. Ends' /\ Rank' <= Rank
    BY <1>3 DEF Environment, ServerEnds, OrphanAppears, OrphanDies, AdminFails, Term, Alive, control
  <2> QED
    BY <1>1, <2>1
<1>4. CASE UNCHANGED vars
  <2>1. UNCHANGED <<main, sigs>>
    BY <1>4 DEF vars, control
  <2> QED
    BY <1>1, <2>1
<1> QED
  BY <1>1, <1>2, <1>3, <1>4 DEF Next

(* Each step of main() brings the container's end nearer and nothing that  *)
(* the server, an orphan, a signal or the reaper does puts it off again,   *)
(* and main() has passed its start when it takes a signal: what is left of *)
(* AcceptedTermEnds is that the timers fire.                               *)
ShutdownNearer ==
  /\ [][Rank' <= Rank /\ (MainStep => Rank' < Rank)]_vars
  /\ [](sigs > 0 => main \notin {"start", "started"})

THEOREM ShutdownProgress == Spec => ShutdownNearer
<1>1. Init => Ends
  BY DEF Init, Ends, Mains
<1>2. Ends /\ [Next]_vars => Ends' /\ [Rank' <= Rank /\ (MainStep => Rank' < Rank)]_vars
  BY RankStep
<1>3. Ends => (sigs > 0 => main \notin {"start", "started"})
  BY DEF Ends
<1> QED
  BY <1>1, <1>2, <1>3, PTL DEF Spec, ShutdownNearer

-----------------------------------------------------------------------------
(* The refinement: the initial states, then one lemma for each abstract    *)
(* step or stutter.                                                        *)

ServerState ==
  CASE proc["srv"] = "none" -> "none"
    [] proc["srv"] = "running" -> "up"
    [] OTHER -> "ended"

LEMMA InitService == Init => Service!Init
  BY DEF Init, Service!Init, Phase, ExitCode, Procs

(* The kernel, the reaper and the orphans are invisible, but for the end   *)
(* of the server.                                                          *)
LEMMA InvisibleSteps ==
  ASSUME IInv,
         \/ UNCHANGED vars
         \/ DeliverChld
         \/ ReaperStep
         \/ \E p \in Orphans : OrphanAppears(p) \/ OrphanDies(p)
  PROVE  UNCHANGED Service!vars
<1>1. UNCHANGED <<status, main, exitCode>>
  BY DEF vars, DeliverChld, ReaperStep, Notify, Post, Receive, NothingToReap, Reap, OrphanAppears,
         OrphanDies, kernel, control
<1>2. \/ proc'["srv"] = proc["srv"]
      \/ proc["srv"] = "zombie" /\ proc'["srv"] = "reaped"
  <2>1. CASE UNCHANGED proc
    BY <2>1
  <2>2. ASSUME NEW p \in Procs, Reap(p)
        PROVE  \/ proc'["srv"] = proc["srv"]
               \/ proc["srv"] = "zombie" /\ proc'["srv"] = "reaped"
    BY <2>2 DEF Reap, Zombies, IInv, TypeOK, KernelTypes, Procs
  <2>3. ASSUME NEW p \in Orphans, OrphanAppears(p) \/ OrphanDies(p)
        PROVE  proc'["srv"] = proc["srv"]
    BY <2>3, Constants DEF OrphanAppears, OrphanDies, Die, IInv, TypeOK, KernelTypes, Procs
  <2>4. QED
    BY <2>1, <2>2, <2>3
    DEF vars, DeliverChld, ReaperStep, Notify, Post, Receive, NothingToReap, kernel
<1>3. ServerState' = ServerState
  BY <1>2 DEF ServerState
<1>4. QED
  BY <1>1, <1>3 DEF Service!vars, Phase, ExitCode, ServerState

LEMMA ServerEndsStep ==
  ASSUME IInv, ServerEnds PROVE Service!ServerEnds
<1>1. proc["srv"] = "running" /\ proc'["srv"] = "zombie" /\ status' \in Statuses
  BY DEF ServerEnds, Die, IInv, TypeOK, KernelTypes, Procs
<1>2. UNCHANGED <<main, exitCode>>
  BY DEF ServerEnds, control
<1>3. QED
  BY <1>1, <1>2 DEF Service!ServerEnds, Phase, ExitCode

(* main()'s steps and its early ends.                                      *)
LEMMA MainSteps ==
  ASSUME IInv, MainStep \/ AdminFails \/ Term PROVE [Service!Next]_(Service!vars)
<1> USE DEF Service!Next, Service!vars, Phase, Exit, Service!Exit, kernel
<1>1. CASE StartServer
  <2>1. proc["srv"] = "none" /\ proc'["srv"] = "running"
    BY <1>1 DEF StartServer, IInv, TypeOK, KernelTypes, Procs, NoServerYet
  <2>2. Service!Start
    BY <1>1, <2>1 DEF StartServer, Service!Start, ExitCode
  <2>3. QED
    BY <2>2
<1>2. CASE StartFails \/ AdminFails \/ QuitDone \/ QuitTimeout
  <2>1. Service!Fail
    BY <1>2
    DEF StartFails, AdminFails, QuitDone, QuitTimeout, Alive, Service!Fail, Service!Fatal, ExitCode,
        IInv, TypeOK, PlaceTypes, Mains
  <2>2. QED
    BY <2>1
<1>3. CASE Listen \/ DelayOver
  BY <1>3 DEF Listen, DelayOver, ExitCode
<1>4. CASE SelectSignal
  <2>1. Service!Drain
    BY <1>4 DEF SelectSignal, Service!Drain, ExitCode
  <2>2. QED
    BY <2>1
<1>5. CASE SelectExited \/ StopDone
  <2>1. proc["srv"] = "reaped" /\ exited = ExitCode(status)
    BY <1>5 DEF SelectExited, StopDone, IInv, ChannelTruthful
  <2>2. Service!Follow
    BY <1>5, <2>1
    DEF SelectExited, StopDone, Service!Follow, Service!Unexpected, Service!Fatal, ExitCode
  <2>3. QED
    BY <2>2
<1>6. CASE BudgetOver
  <2>1. CASE main' = "quit"
    BY <1>6, <2>1 DEF BudgetOver, ExitCode
  <2>2. CASE main' # "quit"
    <3>1. Service!Fail
      BY <1>6, <2>2 DEF BudgetOver, Service!Fail, Service!Fatal, ExitCode
    <3>2. QED
      BY <3>1
  <2>3. QED
    BY <2>1, <2>2
<1>7. CASE Term
  <2>1. CASE main \in {"start", "started"}
    <3>1. Service!Interrupted
      BY <1>7, <2>1 DEF Term, Service!Interrupted, Service!Killed, ExitCode
    <3>2. QED
      BY <3>1
  <2>2. CASE main \notin {"start", "started"}
    BY <1>7, <2>2 DEF Term, ExitCode
  <2>3. QED
    BY <2>1, <2>2
<1>8. QED
  BY <1>1, <1>2, <1>3, <1>4, <1>5, <1>6, <1>7 DEF MainStep

(* Whatever the interleaving of deaths, signals and timers, the supervisor *)
(* implements the safety part of SupervisedService: the exit code is the   *)
(* server's, and 1 when it claims a success nobody asked for.              *)
THEOREM RefinesService == Spec => ImplementsSafety
<1>1. IInv /\ [Next]_vars => [Service!Next]_(Service!vars)
  <2>1. SUFFICES ASSUME IInv, [Next]_vars PROVE [Service!Next]_(Service!vars)
    OBVIOUS
  <2>2. CASE ServerEnds
    BY <2>1, <2>2, ServerEndsStep DEF Service!Next
  <2>3. CASE MainStep \/ AdminFails \/ Term
    BY <2>1, <2>3, MainSteps
  <2>4. CASE \/ UNCHANGED vars
             \/ DeliverChld
             \/ ReaperStep
             \/ \E p \in Orphans : OrphanAppears(p) \/ OrphanDies(p)
    BY <2>1, <2>4, InvisibleSteps
  <2>5. QED
    BY <2>1, <2>2, <2>3, <2>4 DEF Next, Environment
<1>2. QED
  BY IInvHolds, InitService, <1>1, PTL DEF Spec, ImplementsSafety, Service!Safety

=============================================================================

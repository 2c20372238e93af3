------------------------- MODULE HealthCache_proofs -------------------------
(***************************************************************************)
(* Proofs about HealthCache for every interval, every timeout below it and *)
(* every stale factor of at least 1: how long a snapshot stays in place,   *)
(* that /livez holds, that /readyz is honest, and what a cycle carries     *)
(* over from the one before.                                               *)
(***************************************************************************)
EXTENDS HealthCache, TLAPS

Times ==
  /\ staleAfter \in StaleBounds
  /\ waited \in 0 .. Timeout /\ cycle \in Nat
  /\ age \in Int /\ age >= -1
  /\ statsAge \in Int /\ statsAge >= -1

Places ==
  /\ image \in {"db", "proxy"}
  /\ beat \in {"off", "store", "wait"}
  /\ loop \in Loops

Flags ==
  /\ password \in BOOLEAN /\ beatDue \in BOOLEAN
  /\ result \in BOOLEAN /\ last \in BOOLEAN
  /\ snapOk \in BOOLEAN /\ snapLast \in BOOLEAN
  /\ started \in BOOLEAN /\ draining \in BOOLEAN
  /\ statsOk \in BOOLEAN
  /\ passed \in BOOLEAN /\ lateBeat \in BOOLEAN

Reading ==
  reader \in [at : {"idle", "second", "third", "200", "503"}, ok : BOOLEAN,
              wasFresh : BOOLEAN, wasDraining : BOOLEAN, swapped : BOOLEAN]

(* The proxy has neither a handshake nor statistics.                       *)
Shape ==
  /\ image = "proxy" => loop \notin {"off", "handshake", "sample", "noStats"} /\ ~password
  /\ ~password => loop \notin {"sample", "noStats"} /\ statsAge = -1
  /\ image \in {"db", "proxy"} /\ loop \in Loops

(* Before the loop starts, the heartbeat keeps the snapshot young.         *)
BeatAge ==
  loop = "off" => /\ beat \in {"store", "wait"}
                  /\ age <= 1 /\ statsAge = -1
                  /\ beat = "wait" /\ ~beatDue => age <= 0

(* How far the running cycle is.                                           *)
CycleAge ==
  /\ loop = "dial" => cycle = waited
  /\ loop = "handshake" => cycle <= Timeout + waited
  /\ loop = "sample" => cycle <= Timeout + waited /\ waited <= cycle
  /\ loop = "publish" /\ image = "db" /\ result => cycle <= Timeout + waited /\ waited <= cycle
  /\ loop = "handshake" => waited <= cycle

(* How old the snapshot is, depending on where the loop is.                *)
SnapshotAge ==
  /\ loop = "begin" => age <= Interval
  /\ loop = "dial" => age <= Interval + waited
  /\ loop = "handshake" => age <= Interval + cycle
  /\ loop = "publish" => age <= MaxAge
  /\ loop = "sample" => age <= waited
  /\ loop = "noStats" => age <= 0
  /\ loop = "sleep" => age <= Interval /\ (cycle <= Interval => age <= cycle)

(* The same of the statistics.                                             *)
StatsAge ==
  /\ loop = "begin" => statsAge <= Interval
  /\ loop = "dial" => statsAge <= Interval + waited
  /\ loop \in {"handshake", "sample"} => statsAge <= Interval + cycle
  /\ loop \in {"publish", "noStats"} => statsAge <= MaxAge
  /\ loop = "publish" /\ image = "db" /\ result => statsAge <= Interval + cycle
  /\ loop = "sleep" => statsAge <= Interval /\ (cycle <= Interval => statsAge <= cycle)

AgeInv == Times /\ Shape /\ BeatAge /\ CycleAge /\ SnapshotAge /\ StatsAge

-----------------------------------------------------------------------------

LEMMA InitAge == Init => AgeInv
<1>1. SUFFICES ASSUME Init PROVE AgeInv
  OBVIOUS
<1>2. image = "proxy" => ~password
  BY <1>1 DEF Init
<1>3. Shape
  BY <1>1, <1>2 DEF Init, Shape, Loops, Waiting
<1>4. Times /\ BeatAge /\ CycleAge /\ SnapshotAge /\ StatsAge
  BY <1>1, HealthConstants DEF Init, Times, BeatAge, CycleAge, SnapshotAge, StatsAge
<1>5. QED
  BY <1>3, <1>4 DEF AgeInv

LEMMA AgeStep ==
  ASSUME AgeInv, [Next]_vars PROVE AgeInv'
<1> USE HealthConstants
    DEF AgeInv, Times, Shape, BeatAge, CycleAge, SnapshotAge, StatsAge, MaxAge, Loops, Waiting,
        config, timing, stats, snapshot, history
<1>1. CASE BeatStore
  BY <1>1 DEF BeatStore
<1>2. CASE BeatTicks
  BY <1>2 DEF BeatTicks
<1>3. CASE BeatDone
  BY <1>3 DEF BeatDone
<1>4. CASE Initialized
  BY <1>4 DEF Initialized
<1>5. CASE Begin
  BY <1>5 DEF Begin
<1>6. CASE Connects
  BY <1>6 DEF Connects
<1>7. CASE CheckPasses
  BY <1>7 DEF CheckPasses
<1>8. CASE CheckFails
  BY <1>8 DEF CheckFails
<1>9. CASE Publish
  BY <1>9 DEF Publish
<1>10. CASE SampleEnds
  BY <1>10 DEF SampleEnds
<1>11. CASE NoStats
  BY <1>11 DEF NoStats
<1>12. CASE Wakes
  BY <1>12 DEF Wakes
<1>13. CASE Drain
  BY <1>13 DEF Drain
<1>14. CASE Admin
  BY <1>14 DEF Admin, ReadyzLoads, ReadyzChecksFresh, ReadyzChecksDrain, ReadyzAnswered
<1>15. CASE Tick
  <2>1. CASE loop = "off"
    <3>1. beat = "wait" /\ ~beatDue
      BY <1>15, <2>1 DEF Tick, Quiet, Runnable
    <3>2. beatDue' /\ UNCHANGED <<config, beat, loop, cycle, waited>>
      BY <1>15, <2>1, <3>1 DEF Tick
    <3>3. age' <= 1 /\ age' \in Int /\ age' >= -1 /\ statsAge' = -1
      BY <1>15, <2>1, <3>1 DEF Tick, Older
    <3>4. QED
      BY <2>1, <3>1, <3>2, <3>3
  <2>2. CASE loop = "sleep"
    BY <1>15, <2>2 DEF Tick, Quiet, Runnable, Older
  <2>3. CASE loop \in Waiting
    <3>1. CASE loop = "dial"
      BY <1>15, <3>1 DEF Tick, Quiet, Older
    <3>2. CASE loop = "handshake"
      BY <1>15, <3>2 DEF Tick, Quiet, Older
    <3>3. CASE loop = "sample"
      BY <1>15, <3>3 DEF Tick, Quiet, Older
    <3>4. QED
      BY <2>3, <3>1, <3>2, <3>3
  <2>4. QED
    BY <1>15, <2>1, <2>2, <2>3 DEF Tick, Quiet, Runnable
<1>16. CASE UNCHANGED vars
  BY <1>16 DEF vars
<1>17. QED
  BY <1>1, <1>2, <1>3, <1>4, <1>5, <1>6, <1>7, <1>8, <1>9, <1>10, <1>11, <1>12, <1>13, <1>14,
     <1>15, <1>16
  DEF Next, Heartbeat, Checker

LEMMA AgeHolds == Spec => []AgeInv
  BY InitAge, AgeStep, PTL DEF Spec

(* What a request knows after each of its loads: the snapshot it finds     *)
(* fresh at the second is the one it found fresh at the first, or another. *)
ReadyInv ==
  /\ reader.wasDraining => draining
  /\ reader.at = "second" /\ Fresh => reader.wasFresh \/ reader.swapped
  /\ reader.at \in {"third", "200"} => reader.ok /\ (reader.wasFresh \/ reader.swapped)
  /\ reader.at = "200" => ~reader.wasDraining

LEMMA InitReady == Init => Places /\ Flags /\ Reading /\ ReadyInv
<1>1. SUFFICES ASSUME Init PROVE Places /\ Flags /\ Reading /\ ReadyInv
  OBVIOUS
<1>2. password \in BOOLEAN
  BY <1>1, Zenon DEF Init
<1>3. QED
  BY <1>1, <1>2 DEF Init, Places, Flags, Reading, ReadyInv, Idle, Loops, Waiting

LEMMA PlacesStep ==
  ASSUME Places, [Next]_vars PROVE Places'
<1> USE DEF Places, Loops, Waiting, config
<1>1. CASE Heartbeat
  BY <1>1 DEF Heartbeat, BeatStore, BeatTicks, BeatDone
<1>2. CASE Checker
  BY <1>2
  DEF Checker, Initialized, Begin, Connects, CheckPasses, CheckFails, Publish, SampleEnds, NoStats,
      Wakes
<1>3. CASE Drain \/ Tick \/ UNCHANGED vars
  BY <1>3 DEF Drain, Tick, vars
<1>4. CASE Admin
  BY <1>4 DEF Admin, ReadyzLoads, ReadyzChecksFresh, ReadyzChecksDrain, ReadyzAnswered
<1>5. QED
  BY <1>1, <1>2, <1>3, <1>4 DEF Next

LEMMA FlagsStep ==
  ASSUME Flags, [Next]_vars PROVE Flags'
<1> USE DEF Flags, config, timing, stats, snapshot, history
<1>1. CASE BeatStore
  <2>1. lateBeat' \in BOOLEAN
    BY <1>1, Zenon DEF BeatStore
  <2>2. /\ UNCHANGED <<password, beatDue, result, last, started, draining, statsOk, passed>>
        /\ snapOk' = FALSE /\ snapLast' = FALSE
    BY <1>1 DEF BeatStore
  <2>3. QED
    BY <2>1, <2>2
<1>2. CASE Tick
  <2>1. beatDue' \in BOOLEAN
    BY <1>2, Zenon DEF Tick
  <2>2. UNCHANGED <<password, result, last, snapOk, snapLast, started, draining, statsOk, passed,
                    lateBeat>>
    BY <1>2 DEF Tick
  <2>3. QED
    BY <2>1, <2>2
<1>3. CASE UNCHANGED vars
  BY <1>3 DEF vars
<1>4. CASE BeatTicks
  BY <1>4 DEF BeatTicks
<1>5. CASE BeatDone
  BY <1>5 DEF BeatDone
<1>6. CASE Initialized
  BY <1>6 DEF Initialized
<1>7. CASE Begin
  BY <1>7 DEF Begin
<1>8. CASE Connects
  BY <1>8 DEF Connects
<1>9. CASE CheckPasses
  BY <1>9 DEF CheckPasses
<1>10. CASE CheckFails
  BY <1>10 DEF CheckFails
<1>11. CASE Publish
  BY <1>11 DEF Publish
<1>12. CASE SampleEnds
  BY <1>12 DEF SampleEnds
<1>13. CASE NoStats
  BY <1>13 DEF NoStats
<1>14. CASE Wakes
  BY <1>14 DEF Wakes
<1>15. CASE Drain
  BY <1>15 DEF Drain
<1>16. CASE ReadyzLoads
  BY <1>16 DEF ReadyzLoads
<1>17. CASE ReadyzChecksFresh
  BY <1>17 DEF ReadyzChecksFresh
<1>18. CASE ReadyzChecksDrain
  BY <1>18 DEF ReadyzChecksDrain
<1>19. CASE ReadyzAnswered
  BY <1>19 DEF ReadyzAnswered
<1>20. QED
  BY <1>1, <1>2, <1>3, <1>4, <1>5, <1>6, <1>7, <1>8, <1>9, <1>10, <1>11, <1>12,
     <1>13, <1>14, <1>15, <1>16, <1>17, <1>18, <1>19
  DEF Next, Heartbeat, Checker, Admin

LEMMA ReadingStep ==
  ASSUME Flags, Reading, AgeInv, ReadyInv, [Next]_vars PROVE Reading' /\ ReadyInv'
<1> USE DEF Reading, ReadyInv, Fresh, config, timing, stats, snapshot, history
<1>1. CASE BeatStore
  BY <1>1 DEF BeatStore, Overtake
<1>2. CASE Publish
  BY <1>2 DEF Publish, Overtake
<1>3. CASE Drain
  BY <1>3 DEF Drain
<1>4. CASE Tick
  BY <1>4 DEF Tick, Quiet, Runnable
<1>5. CASE ReadyzLoads
  <2>1. Fresh \in BOOLEAN
    BY DEF Fresh
  <2> QED
    BY <1>5, <2>1 DEF ReadyzLoads, Flags
<1>6. CASE ReadyzChecksFresh
  BY <1>6 DEF ReadyzChecksFresh
<1>7. CASE ReadyzChecksDrain
  BY <1>7 DEF ReadyzChecksDrain
<1>8. CASE ReadyzAnswered
  BY <1>8 DEF ReadyzAnswered, Idle
<1>9. CASE \/ BeatTicks \/ BeatDone \/ Initialized \/ Begin \/ Connects \/ CheckPasses
           \/ CheckFails \/ SampleEnds \/ NoStats \/ Wakes \/ UNCHANGED vars
  BY <1>9
  DEF BeatTicks, BeatDone, Initialized, Begin, Connects, CheckPasses, CheckFails, SampleEnds,
      NoStats, Wakes, vars
<1>10. QED
  BY <1>1, <1>2, <1>3, <1>4, <1>5, <1>6, <1>7, <1>8, <1>9 DEF Next, Heartbeat, Checker, Admin

LEMMA AllHolds == Spec => [](Places /\ Flags /\ Reading /\ AgeInv /\ ReadyInv)
  BY InitReady, PlacesStep, FlagsStep, ReadingStep, AgeHolds, PTL DEF Spec

(* A snapshot and a sampling are replaced within the interval and the      *)
(* waits of one check.                                                     *)
LEMMA AgeBound ==
  ASSUME AgeInv PROVE ReplacedInTime
  BY HealthConstants
  DEF AgeInv, Times, Shape, BeatAge, CycleAge, SnapshotAge, StatsAge, Loops, Waiting, MaxAge,
      ReplacedInTime

(* The last success a cycle carries over is the published one, and valid   *)
(* statistics come from a cycle whose check has passed.                    *)
LastInv ==
  passed /\ ~lateBeat => snapLast /\ (loop \in {"dial", "handshake", "publish"} => last)

SampleInv ==
  /\ ~password => ~statsOk /\ loop # "sample"
  /\ statsOk => passed
  /\ loop = "sample" => passed /\ (snapOk \/ lateBeat)
  /\ loop = "sleep" /\ statsOk => snapOk \/ lateBeat

LEMMA InitCarried == Init => LastInv /\ SampleInv
<1>1. SUFFICES ASSUME Init PROVE LastInv /\ SampleInv
  OBVIOUS
<1>2. ~passed /\ ~statsOk /\ loop \in {"off", "begin"}
  BY <1>1 DEF Init
<1>3. QED
  BY <1>2 DEF LastInv, SampleInv

LEMMA CarriedStep ==
  ASSUME Flags, LastInv, SampleInv, [Next]_vars PROVE LastInv' /\ SampleInv'
<1> USE DEF LastInv, SampleInv, config, timing, stats, snapshot, history
<1>1. CASE BeatStore
  <2>1. passed => lateBeat'
    BY <1>1, Zenon DEF BeatStore
  <2>2. lateBeat => lateBeat'
    BY <1>1, Zenon DEF BeatStore
  <2>3. UNCHANGED <<password, loop, statsOk, passed, last>>
    BY <1>1 DEF BeatStore
  <2>4. QED
    BY <2>1, <2>2, <2>3
<1>2. CASE Begin
  BY <1>2 DEF Begin
<1>3. CASE Connects \/ CheckPasses \/ CheckFails
  BY <1>3 DEF Connects, CheckPasses, CheckFails
<1>4. CASE Publish
  <2>1. /\ passed' => passed \/ result
        /\ passed \/ result => passed'
        /\ result \/ last => snapLast'
        /\ result => snapOk'
    BY <1>4, Zenon DEF Publish
  <2>2. /\ UNCHANGED <<password, statsOk, last, lateBeat>>
        /\ loop' = "sample" => password /\ result
        /\ loop' = "sleep" => ~password
        /\ loop' \in {"sample", "sleep", "noStats"} /\ loop = "publish"
    BY <1>4 DEF Publish
  <2>3. QED
    BY <2>1, <2>2
<1>5. CASE SampleEnds
  BY <1>5 DEF SampleEnds
<1>6. CASE Initialized \/ NoStats \/ Wakes
  BY <1>6 DEF Initialized, NoStats, Wakes
<1>7. CASE BeatTicks \/ BeatDone \/ Drain \/ Tick \/ UNCHANGED vars
  BY <1>7 DEF BeatTicks, BeatDone, Drain, Tick, vars
<1>8. CASE Admin
  BY <1>8 DEF Admin, ReadyzLoads, ReadyzChecksFresh, ReadyzChecksDrain, ReadyzAnswered
<1>9. QED
  BY <1>1, <1>2, <1>3, <1>4, <1>5, <1>6, <1>7, <1>8 DEF Next, Heartbeat, Checker

LEMMA CarriedHolds == Spec => [](LastInv /\ SampleInv)
  BY InitCarried, CarriedStep, AllHolds, PTL DEF Spec

-----------------------------------------------------------------------------

(* The types, the reader's record included.                                *)
THEOREM TypeCorrect == Spec => []TypeOK
<1>1. Places /\ Flags /\ Reading /\ AgeInv => TypeOK
  BY DEF Places, Flags, Reading, AgeInv, Times, TypeOK
<1>2. QED
  BY AllHolds, <1>1, PTL

(* For every interval and timeout, no snapshot or sampling stays in place  *)
(* longer than the interval plus the waits of one check.                   *)
THEOREM ReplacedInTimeCorrect == Spec => []ReplacedInTime
  BY AgeHolds, AgeBound, PTL

(* A stale factor of 3 or more keeps /livez at 200 whatever the check      *)
(* does, and a smaller one while no check waits for its answer.            *)
THEOREM LivezHolds == Spec => []StaysLive
<1>1. AgeInv => StaysLive
  <2> SUFFICES ASSUME AgeInv, age >= 0, ~Fresh
               PROVE  staleAfter < 3 * Interval /\ loop \in {"dial", "handshake", "publish"}
    BY DEF StaysLive
  <2>1. age > staleAfter /\ staleAfter \in Nat /\ staleAfter >= Interval
    BY HealthConstants DEF AgeInv, Times, Fresh
  <2>2. age <= MaxAge /\ MaxAge < 3 * Interval
    BY AgeBound, HealthConstants DEF ReplacedInTime, MaxAge, AgeInv, Shape
  <2>3. loop \in {"dial", "handshake", "publish"}
    BY <2>1, HealthConstants
    DEF AgeInv, Times, Shape, BeatAge, CycleAge, SnapshotAge, Loops, Waiting
  <2> QED
    BY <2>1, <2>2, <2>3, HealthConstants DEF AgeInv, Times, MaxAge
<1>2. QED
  BY AgeHolds, <1>1, PTL

(* A 200 of /readyz stands for results that had passed before any drain,   *)
(* and, for every stale factor, for fresh ones unless another snapshot was *)
(* stored between the request's two loads.                                 *)
THEOREM ReadyzHonest == Spec => []ReadyIsHonest
<1>1. Reading /\ ReadyInv => ReadyIsHonest
  BY DEF Reading, ReadyInv, ReadyIsHonest
<1>2. QED
  BY AllHolds, <1>1, PTL

(* A last success is never forgotten, but for a heartbeat that outlived    *)
(* the initialization.                                                     *)
THEOREM SuccessKept == Spec => []LastSuccessKept
<1>1. LastInv => LastSuccessKept
  BY DEF LastInv, LastSuccessKept
<1>2. QED
  BY CarriedHolds, <1>1, PTL

(* Valid statistics stand beside a passing check at the end of a cycle.    *)
THEOREM StatsFollow == Spec => []StatsFollowCheck
<1>1. SampleInv => StatsFollowCheck
  BY DEF SampleInv, StatsFollowCheck
<1>2. QED
  BY CarriedHolds, <1>1, PTL

(* A cycle's wait is as long as the waits so far: no longer than one       *)
(* timeout while it dials, and than two, of which the connection's own     *)
(* deadline is the second, until its sampling ends; the proxy waits once.  *)
THEOREM CycleBounded ==
  Spec => [](loop \in Waiting =>
               /\ cycle <= 2 * Timeout
               /\ loop = "dial" \/ image = "proxy" => cycle <= Timeout)
<1>1. AgeInv => (loop \in Waiting =>
                   /\ cycle <= 2 * Timeout
                   /\ loop = "dial" \/ image = "proxy" => cycle <= Timeout)
  BY HealthConstants DEF AgeInv, Times, Shape, CycleAge, Waiting
<1> QED
  BY AgeHolds, <1>1, PTL

-----------------------------------------------------------------------------
(* The refinement of CheckCycle.                                           *)

LEMMA CycleInit == Init => Cycle!Init
<1> SUFFICES ASSUME Init PROVE Cycle!Init
  OBVIOUS
<1>1. password \in BOOLEAN
  BY Zenon DEF Init
<1>2. CyclePhase \in {"idle", "checking"}
  BY DEF Init, CyclePhase
<1> QED
  BY <1>1, <1>2 DEF Init, Cycle!Init

(* The heartbeat overwrites a snapshot, or one that was no better.         *)
LEMMA CycleBeat ==
  ASSUME Flags, snapOk => passed, BeatStore PROVE [Cycle!Next]_(Cycle!vars)
<1>1. /\ UNCHANGED <<password, loop, statsOk>> /\ snapOk' = FALSE
      /\ CyclePhase' = CyclePhase
  BY DEF BeatStore, config, stats, CyclePhase
<1>2. lateBeat' = (lateBeat \/ passed)
  BY Zenon DEF BeatStore
<1>3. CASE passed
  <2>1. lateBeat' = TRUE
    BY <1>2, <1>3, Zenon
  <2>2. Cycle!Beat
    BY <1>1, <2>1 DEF Cycle!Beat
  <2> QED
    BY <2>2 DEF Cycle!Next
<1>4. CASE ~passed
  <2>1. snapOk' = snapOk /\ lateBeat' = lateBeat
    BY <1>1, <1>2, <1>4, Zenon DEF Flags
  <2> QED
    BY <1>1, <2>1 DEF Cycle!vars
<1> QED
  BY <1>3, <1>4

(* Publishing is the answer of the check, with what it decides to do next. *)
LEMMA CyclePublish ==
  ASSUME Flags, Publish PROVE Cycle!Pass \/ Cycle!Fail
<1>1. /\ loop = "publish" /\ UNCHANGED <<password, statsOk, lateBeat>> /\ snapOk' = result
      /\ loop' = IF ~password THEN "sleep" ELSE IF result THEN "sample" ELSE "noStats"
  BY DEF Publish, config, stats
<1>2. CyclePhase = "checking"
  BY <1>1 DEF CyclePhase
<1>3. CASE result
  <2>1. snapOk' = TRUE /\ loop' = IF password THEN "sample" ELSE "sleep"
    BY <1>1, <1>3 DEF Flags
  <2>2. CyclePhase' = IF password THEN "sampling" ELSE "idle"
    BY <2>1 DEF CyclePhase
  <2> QED
    BY <1>1, <1>2, <2>1, <2>2 DEF Cycle!Pass
<1>4. CASE ~result
  <2>1. snapOk' = FALSE /\ loop' = IF password THEN "noStats" ELSE "sleep"
    BY <1>1, <1>4 DEF Flags
  <2>2. CyclePhase' = IF password THEN "invalidating" ELSE "idle"
    BY <2>1 DEF CyclePhase
  <2> QED
    BY <1>1, <1>2, <2>1, <2>2 DEF Cycle!Fail
<1> QED
  BY <1>3, <1>4

LEMMA CycleStep ==
  ASSUME Flags, snapOk => passed, [Next]_vars PROVE [Cycle!Next]_(Cycle!vars)
<1> USE DEF config, stats, snapshot, history
<1>1. CASE BeatStore
  BY <1>1, CycleBeat
<1>2. CASE Publish
  BY <1>2, CyclePublish DEF Cycle!Next
<1>3. CASE Initialized \/ Wakes
  <2>1. UNCHANGED <<password, snapOk, statsOk, lateBeat>> /\ loop \in {"off", "sleep"} /\ loop' = "begin"
    BY <1>3 DEF Initialized, Wakes
  <2>2. Cycle!Check
    BY <2>1 DEF Cycle!Check, CyclePhase
  <2> QED
    BY <2>2 DEF Cycle!Next
<1>4. CASE SampleEnds
  <2>1. Cycle!Sample
    BY <1>4 DEF SampleEnds, Cycle!Sample, CyclePhase
  <2> QED
    BY <2>1 DEF Cycle!Next
<1>5. CASE NoStats
  <2>1. Cycle!Invalidate
    BY <1>5 DEF NoStats, Cycle!Invalidate, CyclePhase
  <2> QED
    BY <2>1 DEF Cycle!Next
<1>6. CASE Begin \/ Connects \/ CheckPasses \/ CheckFails
  <2>1. /\ UNCHANGED <<password, snapOk, statsOk, lateBeat>>
        /\ loop \in {"begin", "dial", "handshake"} /\ loop' \in {"dial", "handshake", "publish"}
    BY <1>6 DEF Begin, Connects, CheckPasses, CheckFails
  <2> QED
    BY <2>1 DEF Cycle!vars, CyclePhase
<1>7. CASE BeatTicks \/ BeatDone \/ Drain \/ Admin \/ Tick \/ UNCHANGED vars
  <2>1. UNCHANGED <<password, loop, snapOk, statsOk, lateBeat>>
    BY <1>7
    DEF BeatTicks, BeatDone, Drain, Admin, ReadyzLoads, ReadyzChecksFresh, ReadyzChecksDrain,
        ReadyzAnswered, Tick, vars
  <2> QED
    BY <2>1 DEF Cycle!vars, CyclePhase
<1> QED
  BY <1>1, <1>2, <1>3, <1>4, <1>5, <1>6, <1>7 DEF Next, Heartbeat, Checker

(* A passing snapshot comes from a check that has passed.                  *)
LEMMA SnapPassed == Spec => [](snapOk => passed)
<1>1. Init => (snapOk => passed)
  BY DEF Init
<1>2. Flags /\ (snapOk => passed) /\ [Next]_vars => (snapOk => passed)'
  <2> SUFFICES ASSUME Flags, snapOk => passed, [Next]_vars PROVE snapOk' => passed'
    OBVIOUS
  <2> USE DEF snapshot, history
  <2>1. CASE Publish
    BY <2>1, Zenon DEF Publish
  <2>2. CASE BeatStore
    BY <2>2 DEF BeatStore
  <2>3. CASE UNCHANGED <<snapOk, passed>>
    BY <2>3
  <2> QED
    BY <2>1, <2>2, <2>3
    DEF Next, Heartbeat, Checker, Admin, BeatTicks, BeatDone, Initialized, Begin, Connects,
        CheckPasses, CheckFails, SampleEnds, NoStats, Wakes, Drain, ReadyzLoads, ReadyzChecksFresh,
        ReadyzChecksDrain, ReadyzAnswered, Tick, vars
<1> QED
  BY AllHolds, <1>1, <1>2, PTL DEF Spec

(* For every interval and timeout, and however the heartbeat races it, the *)
(* checker's loop implements the cycle of CheckCycle.                      *)
THEOREM RefinesCycle == Spec => ImplementsCycle
<1>1. Flags /\ (snapOk => passed) /\ [Next]_vars => [Cycle!Next]_(Cycle!vars)
  BY CycleStep
<1> QED
  BY AllHolds, SnapPassed, CycleInit, <1>1, PTL DEF Spec, ImplementsCycle, Cycle!Spec

=============================================================================

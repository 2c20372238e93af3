---------------------------- MODULE HealthCache ----------------------------
(***************************************************************************)
(* The cached health check of the two supervisors: checkerLoop publishes a *)
(* snapshot per cycle, the heartbeat publishes one per second while a      *)
(* first initialization runs, and the admin handlers read the snapshot,    *)
(* the drain latch and the statistics without a lock.                      *)
(*                                                                         *)
(* Time advances by Tick, one second, and only while no goroutine can run: *)
(* steps race within a second, and a wait lasts as long as the code lets   *)
(* it.  Computing takes no time, not even the derivation of the SCRAM key, *)
(* whose length is the server's choice (PgWire has it).  Instants are kept *)
(* as ages, the time passed since them.                                    *)
(***************************************************************************)
EXTENDS Integers

CONSTANTS
  Interval,     \* HEALTH_CHECK_INTERVAL
  Timeout,      \* HEALTH_CHECK_TIMEOUT, smaller than the interval at startup
  StaleBounds   \* values of HEALTH_STALE_FACTOR times the interval, factors of at least 1

ASSUME HealthConstants ==
  /\ Interval \in Nat /\ Timeout \in Nat \ {0} /\ Timeout < Interval
  /\ StaleBounds \subseteq Nat /\ \A b \in StaleBounds : b >= Interval

VARIABLES
  image,      \* "db" or "proxy"
  password,   \* the database supervisor has a password, and samples statistics
  staleAfter, \* the age up to which a snapshot is fresh
  beat,       \* the heartbeat: "off", "store", or "wait" for its ticker or done
  beatDue,    \* its ticker has fired
  loop,       \* where checkerLoop is; "off" until main() starts it
  waited,     \* age of the running wait: the dial, or the connection's deadline
  cycle,      \* age of cycleStart
  result,     \* the check passed in this cycle
  last,       \* this cycle's LastSuccess before the check, as "is not zero"
  age,        \* age of the snapshot; -1 for the zero TakenAt
  snapOk,     \* allOk of the snapshot
  snapLast,   \* the snapshot's LastSuccess is not zero
  started,    \* st.started
  statsOk,    \* the statistics are valid
  statsAge,   \* time since they were stored; -1 before the first sampling
  draining,   \* st.draining
  reader,     \* one /readyz request and what it has loaded
  passed,     \* history: the check has passed
  lateBeat    \* history: the heartbeat stored after checkerLoop had

snapshot == <<age, snapOk, snapLast>>
timing   == <<waited, cycle>>
stats    == <<statsOk, statsAge>>
history  == <<passed, lateBeat>>
config   == <<image, password, staleAfter>>
vars == <<config, beat, beatDue, loop, timing, result, last, snapshot, started, stats, draining,
          reader, history>>

Waiting == {"dial", "handshake", "sample"}
Loops   == Waiting \cup {"off", "begin", "publish", "noStats", "sleep"}

Idle == [at |-> "idle", ok |-> FALSE, wasFresh |-> FALSE, wasDraining |-> FALSE,
         swapped |-> FALSE]

\* The longest a snapshot, or a sampling, is left in place.
MaxAge == Interval + (IF image = "db" THEN 2 * Timeout ELSE Timeout)

TypeOK ==
  /\ image \in {"db", "proxy"} /\ password \in BOOLEAN /\ staleAfter \in StaleBounds
  /\ beat \in {"off", "store", "wait"} /\ beatDue \in BOOLEAN
  /\ loop \in Loops
  /\ waited \in 0 .. Timeout
  /\ cycle \in Nat
  /\ result \in BOOLEAN /\ last \in BOOLEAN
  /\ age \in Int /\ age >= -1
  /\ snapOk \in BOOLEAN /\ snapLast \in BOOLEAN
  /\ started \in BOOLEAN /\ draining \in BOOLEAN
  /\ statsOk \in BOOLEAN /\ statsAge \in Int /\ statsAge >= -1
  /\ reader \in [at : {"idle", "second", "third", "200", "503"}, ok : BOOLEAN,
                 wasFresh : BOOLEAN, wasDraining : BOOLEAN, swapped : BOOLEAN]
  /\ passed \in BOOLEAN /\ lateBeat \in BOOLEAN

\* The database supervisor starts with or without a first initialization.
Init ==
  /\ image \in {"db", "proxy"} /\ password \in {FALSE, image = "db"}
  /\ staleAfter \in StaleBounds
  /\ \/ image = "db" /\ beat = "store" /\ loop = "off"
     \/ beat = "off" /\ loop = "begin"
  /\ beatDue = FALSE
  /\ waited = 0 /\ cycle = 0
  /\ result = FALSE /\ last = FALSE
  /\ age = -1 /\ snapOk = FALSE /\ snapLast = FALSE
  /\ started = FALSE /\ statsOk = FALSE /\ statsAge = -1 /\ draining = FALSE
  /\ reader = Idle
  /\ passed = FALSE /\ lateBeat = FALSE

\* A snapshot is stored while a request is between its two loads of it.
Overtake == reader' = IF reader.at = "second" THEN [reader EXCEPT !.swapped = TRUE] ELSE reader

-----------------------------------------------------------------------------
(* The heartbeat of a first initialization.                                *)

BeatStore ==
  /\ beat = "store"
  /\ beat' = "wait"
  /\ age' = 0 /\ snapOk' = FALSE /\ snapLast' = FALSE
  /\ lateBeat' = (lateBeat \/ passed)
  /\ Overtake
  /\ UNCHANGED <<config, beatDue, loop, timing, result, last, started, stats, draining, passed>>

BeatTicks ==
  /\ beat = "wait" /\ beatDue
  /\ beat' = "store" /\ beatDue' = FALSE
  /\ UNCHANGED <<config, loop, timing, result, last, snapshot, started, stats, draining, reader,
                 history>>

\* Done is closed before main() starts the loop; select may take the tick first.
BeatDone ==
  /\ beat = "wait" /\ loop # "off"
  /\ beat' = "off"
  /\ UNCHANGED <<config, beatDue, loop, timing, result, last, snapshot, started, stats, draining,
                 reader, history>>

-----------------------------------------------------------------------------
(* checkerLoop.                                                            *)

Initialized ==
  /\ loop = "off" /\ loop' = "begin"
  /\ UNCHANGED <<config, beat, beatDue, timing, result, last, snapshot, started, stats, draining,
                 reader, history>>

Begin ==
  /\ loop = "begin" /\ loop' = "dial"
  /\ waited' = 0 /\ cycle' = 0
  /\ last' = snapLast
  /\ UNCHANGED <<config, beat, beatDue, result, snapshot, started, stats, draining, reader,
                 history>>

\* TCP connected: the deadline of everything that follows starts now.
Connects ==
  /\ loop = "dial" /\ image = "db"
  /\ loop' = "handshake" /\ waited' = 0
  /\ UNCHANGED <<config, beat, beatDue, cycle, result, last, snapshot, started, stats, draining,
                 reader, history>>

\* The proxy's ping, or the first message of the database's handshake.
CheckPasses ==
  /\ loop = IF image = "db" THEN "handshake" ELSE "dial"
  /\ loop' = "publish" /\ result' = TRUE
  /\ UNCHANGED <<config, beat, beatDue, timing, last, snapshot, started, stats, draining, reader,
                 history>>

\* Refused, answered with an error, or timed out.
CheckFails ==
  /\ loop \in {"dial", "handshake"}
  /\ loop' = "publish" /\ result' = FALSE
  /\ UNCHANGED <<config, beat, beatDue, timing, last, snapshot, started, stats, draining, reader,
                 history>>

\* Variant: a failed check publishes without the time of the last success.
PublishForgets ==
  /\ loop = "publish"
  /\ age' = 0 /\ snapOk' = result /\ snapLast' = result
  /\ started' = (started \/ result) /\ passed' = (passed \/ result)
  /\ loop' = IF ~password THEN "sleep" ELSE IF result THEN "sample" ELSE "noStats"
  /\ Overtake
  /\ UNCHANGED <<config, beat, beatDue, timing, result, last, stats, draining, lateBeat>>

\* Variant: without a connection the statistics are left as they are.
PublishOnly ==
  /\ loop = "publish"
  /\ age' = 0 /\ snapOk' = result /\ snapLast' = (result \/ last)
  /\ started' = (started \/ result) /\ passed' = (passed \/ result)
  /\ loop' = IF password /\ result THEN "sample" ELSE "sleep"
  /\ Overtake
  /\ UNCHANGED <<config, beat, beatDue, timing, result, last, stats, draining, lateBeat>>

\* The snapshot is stored and startup latched, before the statistics are sampled.
Publish ==
  /\ loop = "publish"
  /\ age' = 0 /\ snapOk' = result /\ snapLast' = (result \/ last)
  /\ started' = (started \/ result) /\ passed' = (passed \/ result)
  /\ loop' = IF ~password THEN "sleep" ELSE IF result THEN "sample" ELSE "noStats"
  /\ Overtake
  /\ UNCHANGED <<config, beat, beatDue, timing, result, last, stats, draining, lateBeat>>

\* The sampling ends on its own or at the deadline of the connection.
SampleEnds ==
  /\ loop = "sample" /\ loop' = "sleep"
  /\ statsOk' \in BOOLEAN /\ statsAge' = 0
  /\ UNCHANGED <<config, beat, beatDue, timing, result, last, snapshot, started, draining, reader,
                 history>>

NoStats ==
  /\ loop = "noStats" /\ loop' = "sleep"
  /\ statsOk' = FALSE /\ statsAge' = 0
  /\ UNCHANGED <<config, beat, beatDue, timing, result, last, snapshot, started, draining, reader,
                 history>>

Wakes ==
  /\ loop = "sleep" /\ cycle >= Interval
  /\ loop' = "begin"
  /\ UNCHANGED <<config, beat, beatDue, timing, result, last, snapshot, started, stats, draining,
                 reader, history>>

-----------------------------------------------------------------------------
(* The drain latch and the readers of the cache.                           *)

Drain ==
  /\ loop # "off" /\ draining' = TRUE
  /\ UNCHANGED <<config, beat, beatDue, loop, timing, result, last, snapshot, started, stats,
                 reader, history>>

Fresh == age >= 0 /\ age <= staleAfter

\* /readyz loads the snapshot, then fresh() loads it again, then the latch is read.
ReadyzLoads ==
  /\ reader.at = "idle"
  /\ reader' = [at |-> "second", ok |-> snapOk, wasFresh |-> Fresh, wasDraining |-> draining,
                swapped |-> FALSE]
  /\ UNCHANGED <<config, beat, beatDue, loop, timing, result, last, snapshot, started, stats,
                 draining, history>>

\* Variant: the age of the snapshot is not tested.
ReadyzIgnoresAge ==
  /\ reader.at = "second"
  /\ reader' = [reader EXCEPT !.at = IF reader.ok THEN "third" ELSE "503"]
  /\ UNCHANGED <<config, beat, beatDue, loop, timing, result, last, snapshot, started, stats,
                 draining, history>>

ReadyzChecksFresh ==
  /\ reader.at = "second"
  /\ reader' = [reader EXCEPT !.at = IF Fresh /\ reader.ok THEN "third" ELSE "503"]
  /\ UNCHANGED <<config, beat, beatDue, loop, timing, result, last, snapshot, started, stats,
                 draining, history>>

ReadyzChecksDrain ==
  /\ reader.at = "third"
  /\ reader' = [reader EXCEPT !.at = IF draining THEN "503" ELSE "200"]
  /\ UNCHANGED <<config, beat, beatDue, loop, timing, result, last, snapshot, started, stats,
                 draining, history>>

ReadyzAnswered ==
  /\ reader.at \in {"200", "503"}
  /\ reader' = Idle
  /\ UNCHANGED <<config, beat, beatDue, loop, timing, result, last, snapshot, started, stats,
                 draining, history>>

-----------------------------------------------------------------------------
(* Time.                                                                   *)

Runnable ==
  \/ beat = "store" \/ (beat = "wait" /\ (beatDue \/ loop # "off"))
  \/ loop \in {"begin", "publish", "noStats"}
  \/ reader.at # "idle"

\* Variant: the dial has no timeout.
QuietUntimed ==
  /\ ~Runnable
  /\ loop \in {"handshake", "sample"} => waited < Timeout
  /\ loop = "sleep" => cycle < Interval

\* Variant: the sleep does not deduct the time the check took.
QuietOversleeping ==
  /\ ~Runnable
  /\ loop \in Waiting => waited < Timeout
  /\ loop = "sleep" => cycle < Interval + Timeout

\* No goroutine can run, and no wait has reached its bound.
Quiet ==
  /\ ~Runnable
  /\ loop \in Waiting => waited < Timeout
  /\ loop = "sleep" => cycle < Interval

Older(a) == IF a < 0 THEN a ELSE a + 1

Tick ==
  /\ Quiet
  /\ waited' = IF loop \in Waiting THEN waited + 1 ELSE waited
  /\ cycle' = IF loop = "off" THEN cycle ELSE cycle + 1
  /\ age' = Older(age)
  /\ statsAge' = Older(statsAge)
  /\ beatDue' = (beat = "wait")
  /\ UNCHANGED <<config, beat, loop, result, last, snapOk, snapLast, started, statsOk, draining,
                 reader, history>>

Heartbeat == BeatStore \/ BeatTicks \/ BeatDone
Checker   == Initialized \/ Begin \/ Connects \/ CheckPasses \/ CheckFails \/ Publish
             \/ SampleEnds \/ NoStats \/ Wakes
Admin     == ReadyzLoads \/ ReadyzChecksFresh \/ ReadyzChecksDrain \/ ReadyzAnswered

Next == Heartbeat \/ Checker \/ Drain \/ Admin \/ Tick

Spec == Init /\ [][Next]_vars

-----------------------------------------------------------------------------
(* Properties.                                                             *)

(* While checkerLoop runs, a snapshot and a sampling are replaced within   *)
(* the interval and the waits of one check, however they fail, and through *)
(* a first initialization of any length.                                   *)
ReplacedInTime == age <= MaxAge /\ statsAge <= MaxAge

(* /livez turns 503 after the first snapshot only for a stale factor below *)
(* the default of 3, and then only while a check still waits for its       *)
(* answer: never in the sleep, a sampling or a first initialization.       *)
StaysLive ==
  age >= 0 /\ ~Fresh =>
    staleAfter < 3 * Interval /\ loop \in {"dial", "handshake", "publish"}

(* /readyz answers 200 only on results that had passed, and with no drain  *)
(* when it loaded them.  They were fresh at that moment too, unless        *)
(* another snapshot, which may have failed, was stored before the request  *)
(* loaded it again to test the age: for a factor that does not cover the   *)
(* waits of a check, a 200 can stand for no single moment of its request.  *)
ReadyIsHonest ==
  reader.at = "200" =>
    reader.ok /\ ~reader.wasDraining /\ (reader.wasFresh \/ reader.swapped)

(* Once the check has passed, every snapshot knows a last success, but for *)
(* those that a heartbeat outliving the initialization overwrote.          *)
LastSuccessKept == passed /\ ~lateBeat => snapLast

(* At the end of a cycle, statistics are shown as valid only beside a      *)
(* passing check: they do not survive the server they were taken from.     *)
StatsFollowCheck == loop = "sleep" /\ statsOk => snapOk \/ lateBeat

CyclePhase ==
  CASE loop \in {"begin", "dial", "handshake", "publish"} -> "checking"
    [] loop = "sample" -> "sampling"
    [] loop = "noStats" -> "invalidating"
    [] OTHER -> "idle"

Cycle == INSTANCE CheckCycle WITH
  sampled <- password,
  phase   <- CyclePhase,
  up      <- snapOk,
  valid   <- statsOk,
  beaten  <- lateBeat

(* Whatever times out and however the heartbeat races, the cycle publishes *)
(* its check, then samples behind it or invalidates the statistics; this   *)
(* holds for the proxy, which has no statistics, as well.                  *)
ImplementsCycle == Cycle!Spec

(* src/src/DB/CONTRACT.md:38 HEALTH_CHECK_TIMEOUT "bounds check and        *)
(* sampling together".                                                     *)
TimeoutBoundsCycle == loop \in Waiting => cycle <= Timeout

=============================================================================

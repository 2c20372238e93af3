-------------------------- MODULE ChildSupervision --------------------------
(***************************************************************************)
(* pgsupervisor and traefiksupervisor as PID 1: starting the server,       *)
(* reaping it and every orphan reparented to PID 1, and the shutdown       *)
(* sequence of main().  The kernel coalesces SIGCHLD, the Go runtime drops *)
(* a signal that nobody listens for or whose channel is full, and a server *)
(* may end at any time with any status, or hang.                           *)
(*                                                                         *)
(* The two mains differ in the signals they send and in what follows an    *)
(* exhausted budget: image is "db" or "proxy".  A timer may fire at any    *)
(* moment of the wait it bounds.                                           *)
(***************************************************************************)
EXTENDS Integers, FiniteSets

CONSTANTS
  Orphans,       \* processes that may be reparented to PID 1
  ChldCap,       \* capacity of the reaper's SIGCHLD channel (8 in the code)
  SigCap,        \* capacity of main()'s signal channel (2 in the code)
  ExitCodes,     \* the codes a server exits with
  DeathSignals   \* the signals a server dies of

ASSUME SupervisionConstants ==
  /\ IsFiniteSet(Orphans) /\ "srv" \notin Orphans
  /\ ChldCap \in Nat \ {0}
  /\ SigCap \in Nat \ {0}
  /\ ExitCodes \subseteq 0 .. 127 /\ DeathSignals \subseteq 1 .. 64

Procs == {"srv"} \cup Orphans
Statuses == [by : {"exit"}, n : ExitCodes] \cup [by : {"signal"}, n : DeathSignals]

VARIABLES
  image,        \* "db" or "proxy", never changes
  proc,         \* process table: "none", "running", "zombie" or "reaped"
  status,       \* how srv ended, once it has
  sigchld,      \* a SIGCHLD is pending for PID 1 (one bit, as in the kernel)
  reaper,       \* the goroutine that owns wait4
  chld,         \* signals in its channel
  exited,       \* the childExited channel, capacity 1; -1 when empty
  childUp,      \* st.childUp
  main,         \* where main() is
  sigs,         \* SIGTERM and SIGINT waiting in main()'s channel
  draining,     \* st.draining
  told,         \* the last signal main() has sent to srv
  exitCode      \* the container's exit code, -1 while it runs

kernel  == <<proc, status, sigchld>>
reaping == <<reaper, chld, childUp>>
control == <<main, sigs, draining, told, exitCode>>
vars == <<image, kernel, reaping, exited, control>>

Mains   == {"start", "started", "select", "delay", "stopping", "quit", "gone"}
Reapers == {"off", "spawned", "notified", "receive", "wait"}

KernelTypes ==
  /\ image \in {"db", "proxy"}
  /\ proc \in [Procs -> {"none", "running", "zombie", "reaped"}]
  /\ status \in Statuses \cup {[by |-> "exit", n |-> 0]}
  /\ sigchld \in BOOLEAN

CountTypes == chld \in 0 .. ChldCap /\ sigs \in 0 .. SigCap

CodeTypes == exited \in -1 .. 255 /\ exitCode \in -1 .. 255

PlaceTypes ==
  /\ reaper \in Reapers
  /\ main \in Mains
  /\ told \in {"nothing", "INT", "TERM", "QUIT", "KILL"}
  /\ childUp \in BOOLEAN /\ draining \in BOOLEAN

TypeOK == KernelTypes /\ CountTypes /\ CodeTypes /\ PlaceTypes

Init ==
  /\ image \in {"db", "proxy"}
  /\ proc = [p \in Procs |-> "none"]
  /\ status = [by |-> "exit", n |-> 0]
  /\ sigchld = FALSE
  /\ reaper = "off" /\ chld = 0 /\ childUp = FALSE
  /\ exited = -1
  /\ main = "start" /\ sigs = 0
  /\ draining = FALSE /\ told = "nothing" /\ exitCode = -1

Alive == main # "gone"

\* The end of PID 1 ends every process of the container.
Exit(c) == main' = "gone" /\ exitCode' = c

\* The exit code the reaper reports for srv's wait status.
ExitCode(s) == IF s.by = "signal" THEN 128 + s.n ELSE s.n

-----------------------------------------------------------------------------
(* The kernel and the processes.                                           *)

Die(p) == proc' = [proc EXCEPT ![p] = "zombie"] /\ sigchld' = TRUE

ServerEnds ==
  /\ Alive /\ proc["srv"] = "running"
  /\ Die("srv")
  /\ status' \in Statuses
  /\ UNCHANGED <<image, reaping, exited, control>>

OrphanAppears(p) ==
  /\ Alive /\ proc[p] = "none"
  /\ proc' = [proc EXCEPT ![p] = "running"]
  /\ UNCHANGED <<image, status, sigchld, reaping, exited, control>>

OrphanDies(p) ==
  /\ Alive /\ proc[p] = "running"
  /\ Die(p)
  /\ UNCHANGED <<image, status, reaping, exited, control>>

\* The Go runtime takes the pending SIGCHLD to the channel, if there is one yet.
DeliverChld ==
  /\ Alive /\ sigchld
  /\ sigchld' = FALSE
  /\ chld' = IF reaper \in {"off", "spawned"} \/ chld = ChldCap THEN chld ELSE chld + 1
  /\ UNCHANGED <<image, proc, status, reaper, childUp, exited, control>>

-----------------------------------------------------------------------------
(* The reaping goroutine.                                                  *)

Notify ==
  /\ Alive /\ reaper = "spawned"
  /\ reaper' = "notified"
  /\ UNCHANGED <<image, kernel, chld, childUp, exited, control>>

\* Variant: the loop is not primed.
NoPost ==
  /\ Alive /\ reaper = "notified"
  /\ reaper' = "receive"
  /\ UNCHANGED <<image, kernel, chld, childUp, exited, control>>

\* Variant: the goroutine fills its channel.
PostFills ==
  /\ Alive /\ reaper = "notified" /\ chld < ChldCap
  /\ reaper' = (IF chld + 1 = ChldCap THEN "receive" ELSE "notified")
  /\ chld' = chld + 1
  /\ UNCHANGED <<image, kernel, childUp, exited, control>>

\* The goroutine primes its own channel, for the children that died before Notify.
\* It is the channel's only receiver: the send waits for good when the channel is
\* full, as nothing bounds the SIGCHLDs that arrive after Notify.
Post ==
  /\ Alive /\ reaper = "notified" /\ chld < ChldCap
  /\ reaper' = "receive" /\ chld' = chld + 1
  /\ UNCHANGED <<image, kernel, childUp, exited, control>>

Receive ==
  /\ Alive /\ reaper = "receive" /\ chld > 0
  /\ reaper' = "wait" /\ chld' = chld - 1
  /\ UNCHANGED <<image, kernel, childUp, exited, control>>

Zombies == {p \in Procs : proc[p] = "zombie"}

\* Variant: one wait4 for one signal.
ReapOnce(p) ==
  /\ Alive /\ reaper = "wait" /\ p \in Zombies
  /\ proc' = [proc EXCEPT ![p] = "reaped"]
  /\ reaper' = "receive"
  /\ IF p = "srv"
       THEN exited = -1 /\ childUp' = FALSE /\ exited' = ExitCode(status)
       ELSE UNCHANGED <<childUp, exited>>
  /\ UNCHANGED <<image, status, sigchld, chld, control>>

\* One wait4(-1, WNOHANG) that returns a pid; for srv, childUp and the channel too.
Reap(p) ==
  /\ Alive /\ reaper = "wait" /\ p \in Zombies
  /\ proc' = [proc EXCEPT ![p] = "reaped"]
  /\ IF p = "srv"
       THEN exited = -1 /\ childUp' = FALSE /\ exited' = ExitCode(status)
       ELSE UNCHANGED <<childUp, exited>>
  /\ UNCHANGED <<image, status, sigchld, reaper, chld, control>>

NothingToReap ==
  /\ Alive /\ reaper = "wait" /\ Zombies = {}
  /\ reaper' = "receive"
  /\ UNCHANGED <<image, kernel, chld, childUp, exited, control>>

-----------------------------------------------------------------------------
(* main().                                                                 *)

StartServer ==
  /\ main = "start"
  /\ main' = "started" /\ reaper' = "spawned"
  /\ proc' = [proc EXCEPT !["srv"] = "running"]
  /\ childUp' = TRUE
  /\ UNCHANGED <<image, status, sigchld, chld, exited, sigs, draining, told, exitCode>>

StartFails ==
  /\ main = "start" /\ Exit(1)
  /\ UNCHANGED <<image, kernel, reaping, exited, sigs, draining, told>>

\* The admin listener's Serve returns an error.
AdminFails ==
  /\ Alive /\ Exit(1)
  /\ UNCHANGED <<image, kernel, reaping, exited, sigs, draining, told>>

Listen ==
  /\ main = "started"
  /\ main' = "select"
  /\ UNCHANGED <<image, kernel, reaping, exited, sigs, draining, told, exitCode>>

\* Variant: the channel is taken to have room.
TermUnbounded ==
  /\ Alive
  /\ IF main \in {"start", "started"}
       THEN Exit(2) /\ UNCHANGED sigs
       ELSE sigs' = sigs + 1 /\ UNCHANGED <<main, exitCode>>
  /\ UNCHANGED <<image, kernel, reaping, exited, draining, told>>

\* SIGTERM or SIGINT: before main() listens, Go's default ends the process.
Term ==
  /\ Alive
  /\ IF main \in {"start", "started"}
       THEN Exit(2) /\ UNCHANGED sigs
       ELSE sigs' = (IF sigs < SigCap THEN sigs + 1 ELSE sigs) /\ UNCHANGED <<main, exitCode>>
  /\ UNCHANGED <<image, kernel, reaping, exited, draining, told>>

\* Variant: the child's own code, 0 included.
SelectExitedAsIs ==
  /\ main = "select" /\ exited # -1
  /\ Exit(exited)
  /\ exited' = -1
  /\ UNCHANGED <<image, kernel, reaping, sigs, draining, told>>

SelectExited ==
  /\ main = "select" /\ exited # -1
  /\ Exit(IF exited = 0 THEN 1 ELSE exited)
  /\ exited' = -1
  /\ UNCHANGED <<image, kernel, reaping, sigs, draining, told>>

SelectSignal ==
  /\ main = "select" /\ sigs > 0
  /\ main' = "delay" /\ sigs' = sigs - 1 /\ draining' = TRUE
  /\ UNCHANGED <<image, kernel, reaping, exited, told, exitCode>>

\* SHUTDOWN_DRAIN_DELAY has passed.  A signal to a server that has ended is lost.
DelayOver ==
  /\ main = "delay"
  /\ main' = "stopping"
  /\ told' = IF image = "db" THEN "INT" ELSE "TERM"
  /\ UNCHANGED <<image, kernel, reaping, exited, sigs, draining, exitCode>>

StopDone ==
  /\ main = "stopping" /\ exited # -1
  /\ Exit(exited)
  /\ exited' = -1
  /\ UNCHANGED <<image, kernel, reaping, sigs, draining, told>>

\* Variant: the wait for the server has no budget once it was told to stop.
BudgetNever ==
  /\ main = "stopping" /\ exited # -1
  /\ Exit(1) /\ told' = "KILL"
  /\ UNCHANGED <<image, kernel, reaping, exited, sigs, draining>>

\* SHUTDOWN_TIMEOUT has passed.
BudgetOver ==
  /\ main = "stopping"
  /\ \/ /\ image = "db"
        /\ main' = "quit" /\ told' = "QUIT" /\ UNCHANGED exitCode
     \/ /\ image = "proxy"
        /\ Exit(1) /\ told' = "KILL"
  /\ UNCHANGED <<image, kernel, reaping, exited, sigs, draining>>

QuitDone ==
  /\ main = "quit" /\ exited # -1
  /\ Exit(1)
  /\ exited' = -1
  /\ UNCHANGED <<image, kernel, reaping, sigs, draining, told>>

\* Five more seconds.
QuitTimeout ==
  /\ main = "quit"
  /\ Exit(1) /\ told' = "KILL"
  /\ UNCHANGED <<image, kernel, reaping, exited, sigs, draining>>

-----------------------------------------------------------------------------

ReaperStep == Notify \/ Post \/ Receive \/ NothingToReap \/ \E p \in Procs : Reap(p)

MainStep ==
  \/ StartServer \/ StartFails \/ Listen \/ SelectExited \/ SelectSignal \/ DelayOver
  \/ StopDone \/ BudgetOver \/ QuitDone \/ QuitTimeout

Environment ==
  \/ ServerEnds
  \/ \E p \in Orphans : OrphanAppears(p) \/ OrphanDies(p)
  \/ AdminFails
  \/ Term

Next == DeliverChld \/ ReaperStep \/ MainStep \/ Environment

(* The runtime delivers signals, both goroutines are scheduled, timers     *)
(* fire.  Nothing is assumed of the server, of orphans or of signals.      *)
Fairness == WF_vars(DeliverChld) /\ WF_vars(ReaperStep) /\ WF_vars(MainStep)

Spec == Init /\ [][Next]_vars
FairSpec == Spec /\ Fairness

-----------------------------------------------------------------------------
(* Properties.                                                             *)

\* The reaper waits in the send to its own full channel, and no one receives.
Stuck == reaper = "notified" /\ chld = ChldCap

(* No wake-up is lost: while a child waits to be reaped, a reaper that is  *)
(* blocked on its channel has a signal in it or on its way, although       *)
(* SIGCHLDs coalesce and those before signal.Notify are dropped.           *)
NoLostWakeup ==
  Alive /\ reaper = "receive" /\ Zombies # {} => chld > 0 \/ sigchld

(* The reaper, the only receiver of its channel and the only one to call   *)
(* wait4, blocks in a send only when as many children as the channel holds *)
(* have died by its post to itself, in a burst that no wait4 has seen yet; *)
(* the server's code always finds childExited empty.                       *)
ReaperBlocksOnlyOnBurst ==
  /\ Stuck => Cardinality(Zombies) >= ChldCap
  /\ proc["srv"] = "zombie" => exited = -1

(* The container reports success only after a drain, for a server that was *)
(* sent the signal to stop and was reaped with exit status 0.              *)
ExitZeroIsClean ==
  exitCode = 0 =>
    /\ draining /\ told \in {"INT", "TERM"}
    /\ proc["srv"] = "reaped" /\ status.by = "exit" /\ status.n = 0

(* Every child that dies is reaped, server or orphan, as long as the       *)
(* container lives and the burst before the reaper's post has not hung it: *)
(* no zombie is left behind by coalesced or dropped SIGCHLDs.              *)
ZombiesReaped ==
  \A p \in Procs : proc[p] = "zombie" ~> proc[p] = "reaped" \/ ~Alive \/ Stuck

(* A shutdown signal that main()'s channel has taken ends the container,   *)
(* even when the server ignores every signal it is sent.                   *)
AcceptedTermEnds == sigs > 0 ~> ~Alive

Phase ==
  CASE main = "start" -> "starting"
    [] main \in {"started", "select"} -> "running"
    [] main \in {"delay", "stopping", "quit"} -> "draining"
    [] main = "gone" -> "exited"

Service == INSTANCE SupervisedService WITH
  Codes  <- {ExitCode(s) : s \in Statuses},
  server <- CASE proc["srv"] = "none" -> "none"
              [] proc["srv"] = "running" -> "up"
              [] OTHER -> "ended",
  ending <- ExitCode(status),
  phase  <- Phase,
  code   <- exitCode

(* The supervisor implements the promise: its exit code is the server's    *)
(* (1 for an unexpected 0), and unless the reaper has hung a dead server   *)
(* ends the container and a drain comes to an end.                         *)
ImplementsService == Service!Safety /\ (<>Stuck \/ Service!Liveness)

(* The safety part of it.                                                  *)
ImplementsSafety == Service!Safety

(* src/src/DB/CONTRACT.md:169 "SIGTERM and SIGINT both trigger drain, then *)
(* a PostgreSQL *fast* shutdown": no such signal ends a container whose    *)
(* server runs without a drain.                                            *)
TermAlwaysDrains == exitCode = 2 => proc["srv"] # "running"

=============================================================================

------------------------- MODULE SupervisedService -------------------------
(***************************************************************************)
(* What the database and the proxy image promise about the process they    *)
(* wrap, with no word about how its end is noticed: the container's exit   *)
(* code follows the server's end, the container does not outlive its       *)
(* server, and a shutdown that has begun comes to an end.                  *)
(***************************************************************************)
EXTENDS Integers

CONSTANT Codes     \* the exit codes a server's end is reported as

VARIABLES
  server,          \* "none", "up" or "ended"
  ending,          \* the exit code of its end, once it has ended
  phase,           \* "starting", "running", "draining" or "exited"
  code             \* the container's exit code, -1 while it runs

vars == <<server, ending, phase, code>>

Fatal  == 1        \* an internal failure, or an exhausted drain budget
Killed == 2        \* a signal that no handler took

\* A server that nobody asked to stop has not ended cleanly, whatever it says.
Unexpected(c) == IF c = 0 THEN Fatal ELSE c

Init == server = "none" /\ ending = 0 /\ phase = "starting" /\ code = -1

Exit(c) == phase' = "exited" /\ code' = c /\ UNCHANGED <<server, ending>>

Start ==
  /\ phase = "starting" /\ server = "none"
  /\ server' = "up" /\ phase' = "running"
  /\ UNCHANGED <<ending, code>>

ServerEnds ==
  /\ server = "up"
  /\ server' = "ended" /\ ending' \in Codes
  /\ UNCHANGED <<phase, code>>

Drain ==
  /\ phase = "running"
  /\ phase' = "draining"
  /\ UNCHANGED <<server, ending, code>>

Follow ==
  /\ server = "ended"
  /\ \/ phase = "running" /\ Exit(Unexpected(ending))
     \/ phase = "draining" /\ Exit(ending)

Fail == phase # "exited" /\ Exit(Fatal)

Interrupted == phase \in {"starting", "running"} /\ Exit(Killed)

Next == Start \/ ServerEnds \/ Drain \/ Follow \/ Fail \/ Interrupted

Safety == Init /\ [][Next]_vars

\* A server's end is followed by the container's, and so is a drain's beginning.
Liveness == WF_vars(Follow \/ (phase = "draining" /\ Fail))

Spec == Safety /\ Liveness

=============================================================================

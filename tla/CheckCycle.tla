----------------------------- MODULE CheckCycle -----------------------------
(***************************************************************************)
(* What one cycle of a supervisor's checkerLoop promises, with no word     *)
(* about time or the wire: one answer of the check, published before       *)
(* anything else of the cycle; behind it one sampling, or, without a       *)
(* connection to sample on, the end of the statistics there were.          *)
(***************************************************************************)
VARIABLES
  sampled,   \* statistics are sampled at all: the supervisor has a password
  phase,     \* of the cycle
  up,        \* the published snapshot shows a passed check
  valid,     \* the published statistics are valid
  beaten     \* the heartbeat of an initialization has overwritten a later snapshot

vars == <<sampled, phase, up, valid, beaten>>

Init ==
  /\ sampled \in BOOLEAN
  /\ phase \in {"idle", "checking"}
  /\ up = FALSE /\ valid = FALSE /\ beaten = FALSE

Check ==
  /\ phase = "idle" /\ phase' = "checking"
  /\ UNCHANGED <<sampled, up, valid, beaten>>

Pass ==
  /\ phase = "checking" /\ up' = TRUE
  /\ phase' = IF sampled THEN "sampling" ELSE "idle"
  /\ UNCHANGED <<sampled, valid, beaten>>

Fail ==
  /\ phase = "checking" /\ up' = FALSE
  /\ phase' = IF sampled THEN "invalidating" ELSE "idle"
  /\ UNCHANGED <<sampled, valid, beaten>>

Sample ==
  /\ phase = "sampling" /\ phase' = "idle"
  /\ valid' \in BOOLEAN
  /\ UNCHANGED <<sampled, up, beaten>>

Invalidate ==
  /\ phase = "invalidating" /\ phase' = "idle"
  /\ valid' = FALSE
  /\ UNCHANGED <<sampled, up, beaten>>

Beat ==
  /\ up' = FALSE /\ beaten' = TRUE
  /\ UNCHANGED <<sampled, phase, valid>>

Next == Check \/ Pass \/ Fail \/ Sample \/ Invalidate \/ Beat

Spec == Init /\ [][Next]_vars

(* Between cycles, valid statistics stand beside a passed check, unless    *)
(* the heartbeat has hidden it.                                            *)
Agree == phase = "idle" /\ valid => up \/ beaten

=============================================================================

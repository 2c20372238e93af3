-------------------------- MODULE CheckCycle_proofs --------------------------
(***************************************************************************)
(* What follows from CheckCycle alone, and so for every supervisor that    *)
(* implements it.                                                          *)
(***************************************************************************)
EXTENDS CheckCycle, TLAPS

(* A sampling under way stands behind a passed check.                      *)
Behind ==
  /\ sampled \in BOOLEAN
  /\ valid \/ phase = "sampling" => sampled
  /\ phase = "sampling" => up \/ beaten

(* Between cycles valid statistics stand beside a passed check, for every  *)
(* implementation of the cycle, unless the heartbeat has hidden it.        *)
THEOREM AgreeCorrect == Spec => []Agree
<1>1. Init => Behind /\ Agree
  BY DEF Init, Behind, Agree
<1>2. Behind /\ Agree /\ [Next]_vars => (Behind /\ Agree)'
  <2> SUFFICES ASSUME Behind, Agree, [Next]_vars PROVE (Behind /\ Agree)'
    OBVIOUS
  <2> USE DEF Behind, Agree
  <2>1. CASE Check \/ Pass \/ Fail
    BY <2>1 DEF Check, Pass, Fail
  <2>2. CASE Sample
    BY <2>2 DEF Sample
  <2>3. CASE Invalidate \/ Beat
    BY <2>3 DEF Invalidate, Beat
  <2>4. CASE UNCHANGED vars
    BY <2>4 DEF vars
  <2> QED
    BY <2>1, <2>2, <2>3, <2>4 DEF Next
<1> QED
  BY <1>1, <1>2, PTL DEF Spec

=============================================================================

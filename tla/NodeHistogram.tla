--------------------------- MODULE NodeHistogram ---------------------------
(***************************************************************************)
(* The hand-written histogram of the Node variant: observe counts a value  *)
(* in the buckets of its series, render writes the exposition of a series. *)
(*                                                                         *)
(* A value is the number of the first bucket that holds it, or one more    *)
(* than there are buckets; bounds and sums are left out.                   *)
(***************************************************************************)
EXTENDS Integers, FiniteSets

CONSTANTS
  Series,          \* label sets
  NumBuckets,      \* length of BUCKETS
  MaxObservations  \* bound on the observations of a series

Buckets == 1 .. NumBuckets
Values  == 1 .. NumBuckets + 1

VARIABLES
  counts,  \* series.counts
  count,   \* series.count
  seen     \* history: the values observed, each with its number

vars == <<counts, count, seen>>

Init ==
  /\ counts = [s \in Series |-> [b \in Buckets |-> 0]]
  /\ count = [s \in Series |-> 0]
  /\ seen = [s \in Series |-> {}]

observe(s, value) ==
  /\ count[s] < MaxObservations
  /\ counts' = [counts EXCEPT ![s] = [b \in Buckets |-> IF value <= b THEN @[b] + 1 ELSE @[b]]]
  /\ count' = [count EXCEPT ![s] = @ + 1]
  /\ seen' = [seen EXCEPT ![s] = @ \cup {<<count[s], value>>}]

Next == \E s \in Series, value \in Values : observe(s, value)

Spec == Init /\ [][Next]_vars

-----------------------------------------------------------------------------

\* The _bucket samples of a series as they are written.
render(s) ==
  LET cumulative[b \in 0 .. NumBuckets] == IF b = 0 THEN 0 ELSE cumulative[b - 1] + counts[s][b]
  IN  [b \in Buckets |-> cumulative[b]]

AtMost(s, b) == {o \in seen[s] : o[2] <= b}

(* What observe keeps in a bucket is cumulative already: the number of all *)
(* values up to its bound, and the series counts them all.                 *)
CountsAreCumulative ==
  \A s \in Series :
    /\ \A b \in Buckets : counts[s][b] = Cardinality(AtMost(s, b))
    /\ count[s] = Cardinality(seen[s])

(* As Frontend-node/CONTRACT.md:5-6 says, both variants serve the same     *)
(* histogram buckets, and a dashboard query for a percentile means the same*)
(* for both: in each, as client_golang has it, a bucket is the number of   *)
(* values up to its bound.                                                 *)
SwapChangesNoQuery ==
  \A s \in Series : render(s) = [b \in Buckets |-> Cardinality(AtMost(s, b))]

=============================================================================

------------------------ MODULE NodeHistogram_proofs ------------------------
(***************************************************************************)
(* What observe stores and what render makes of it, for any series, any    *)
(* buckets and any number of observations.                                 *)
(***************************************************************************)
EXTENDS NodeHistogram, FiniteSetTheorems, WellFoundedInduction, TLAPS

(* The values of a series are numbered from 0 without gaps, so a new one   *)
(* is never in the history already.                                        *)
Numbered ==
  /\ counts \in [Series -> [Buckets -> Int]]
  /\ count \in [Series -> Nat]
  /\ seen \in [Series -> SUBSET (Nat \X Values)]
  /\ \A s \in Series : IsFiniteSet(seen[s]) /\ \A o \in seen[s] : o[1] < count[s]

Inv == Numbered /\ CountsAreCumulative

LEMMA InitInv == Init => Inv
<1>1. SUFFICES ASSUME Init PROVE Inv
  OBVIOUS
<1>2. Numbered
  BY <1>1, FS_EmptySet DEF Init, Numbered
<1>3. ASSUME NEW s \in Series, NEW b \in Buckets
      PROVE counts[s][b] = 0 /\ AtMost(s, b) = {} /\ count[s] = 0 /\ seen[s] = {}
  BY <1>1, <1>3 DEF Init, AtMost
<1>4. CountsAreCumulative
  BY <1>1, <1>3, FS_EmptySet DEF Init, CountsAreCumulative
<1>5. QED
  BY <1>2, <1>4 DEF Inv

LEMMA ObserveStep ==
  ASSUME Inv, NEW s \in Series, NEW value \in Values, observe(s, value) PROVE Inv'
<1> DEFINE new == <<count[s], value>>
<1> USE DEF Inv
<1>1. /\ counts' = [counts EXCEPT ![s] = [b \in Buckets |-> IF value <= b THEN counts[s][b] + 1
                                                            ELSE counts[s][b]]]
      /\ count' = [count EXCEPT ![s] = count[s] + 1]
      /\ seen' = [seen EXCEPT ![s] = seen[s] \cup {new}]
  BY DEF observe
<1>2. /\ count[s] \in Nat /\ new \in Nat \X Values /\ new[1] = count[s] /\ new[2] = value
      /\ IsFiniteSet(seen[s]) /\ new \notin seen[s]
  BY DEF Numbered
<1>3. /\ count'[s] = count[s] + 1 /\ seen'[s] = seen[s] \cup {new}
      /\ counts'[s] = [b \in Buckets |-> IF value <= b THEN counts[s][b] + 1 ELSE counts[s][b]]
  BY <1>1 DEF Numbered
<1>4. ASSUME NEW t \in Series, t # s
      PROVE counts'[t] = counts[t] /\ count'[t] = count[t] /\ seen'[t] = seen[t]
  BY <1>1, <1>4 DEF Numbered
<1>5. IsFiniteSet(seen'[s]) /\ Cardinality(seen'[s]) = Cardinality(seen[s]) + 1
  <2>1. /\ IsFiniteSet(seen[s] \cup {new})
        /\ Cardinality(seen[s] \cup {new}) = Cardinality(seen[s]) + 1
    <3> HIDE DEF new
    <3> QED
      BY <1>2, FS_AddElement
  <2>2. QED
    BY <1>3, <2>1, Zenon
<1>6. Numbered'
  <2>1. counts' \in [Series -> [Buckets -> Int]]
    <3>1. [b \in Buckets |-> IF value <= b THEN counts[s][b] + 1 ELSE counts[s][b]]
            \in [Buckets -> Int]
      BY DEF Numbered
    <3>2. QED
      BY <1>1, <3>1 DEF Numbered
  <2>2. count' \in [Series -> Nat]
    BY <1>1, <1>2 DEF Numbered
  <2>3. seen' \in [Series -> SUBSET (Nat \X Values)]
    BY <1>1, <1>2 DEF Numbered
  <2>4. ASSUME NEW t \in Series
        PROVE IsFiniteSet(seen'[t]) /\ \A o \in seen'[t] : o[1] < count'[t]
    <3>1. CASE t = s
      <4>1. \A o \in seen[s] : o \in Nat \X Values /\ o[1] < count[s]
        BY DEF Numbered
      <4>2. ASSUME NEW o \in seen'[s] PROVE o[1] < count[s] + 1
        <5>1. o \in seen[s] \/ o = new
          BY <1>3
        <5>2. CASE o \in seen[s]
          BY <1>2, <4>1, <5>2
        <5>3. CASE o = new
          BY <1>2, <5>3
        <5>4. QED
          BY <5>1, <5>2, <5>3
      <4>3. QED
        BY <1>3, <1>5, <3>1, <4>2
    <3>2. CASE t # s
      BY <1>4, <3>2 DEF Numbered
    <3>3. QED
      BY <3>1, <3>2
  <2>5. QED
    BY <2>1, <2>2, <2>3, <2>4 DEF Numbered
<1>7. ASSUME NEW t \in Series, NEW b \in Buckets
      PROVE counts'[t][b] = Cardinality(AtMost(t, b)')
  <2>1. counts[t][b] = Cardinality(AtMost(t, b))
    BY DEF CountsAreCumulative
  <2>2. CASE t # s
    BY <1>4, <2>1, <2>2 DEF AtMost
  <2>3. CASE t = s /\ value <= b
    <3>1. AtMost(t, b)' = AtMost(t, b) \cup {new}
      BY <1>2, <1>3, <2>3 DEF AtMost
    <3>2. IsFiniteSet(AtMost(t, b)) /\ new \notin AtMost(t, b)
      BY <1>2, <2>3, FS_Subset DEF AtMost
    <3>3. Cardinality(AtMost(t, b)') = Cardinality(AtMost(t, b)) + 1
      BY <3>1, <3>2, FS_AddElement
    <3>4. QED
      BY <1>3, <2>1, <2>3, <3>3
  <2>4. CASE t = s /\ ~(value <= b)
    <3>1. AtMost(t, b)' = AtMost(t, b)
      BY <1>2, <1>3, <2>4 DEF AtMost
    <3>2. QED
      BY <1>3, <2>1, <2>4, <3>1
  <2>5. QED
    BY <2>2, <2>3, <2>4
<1>8. ASSUME NEW t \in Series PROVE count'[t] = Cardinality(seen'[t])
  BY <1>3, <1>4, <1>5 DEF CountsAreCumulative
<1>9. QED
  BY <1>6, <1>7, <1>8 DEF CountsAreCumulative

LEMMA InvStep == Inv /\ [Next]_vars => Inv'
<1>1. SUFFICES ASSUME Inv, [Next]_vars PROVE Inv'
  OBVIOUS
<1>2. CASE Next
  BY <1>1, <1>2, ObserveStep DEF Next
<1>3. CASE UNCHANGED vars
  BY <1>1, <1>3 DEF vars, Inv, Numbered, CountsAreCumulative, AtMost
<1>4. QED
  BY <1>1, <1>2, <1>3

(* A bucket of a series holds the number of all values up to its bound as  *)
(* soon as observe returns, and not of those between two bounds: there is  *)
(* nothing left for render to accumulate.                                  *)
THEOREM StoredCumulative == Spec => []CountsAreCumulative
<1>1. Inv => CountsAreCumulative
  BY DEF Inv
<1>2. QED
  BY InitInv, InvStep, <1>1, PTL DEF Spec

-----------------------------------------------------------------------------
(* A set of numbers that is not empty has a least one. What is wrong with  *)
(* some step of a recursion is wrong with a first one.                     *)
LEMMA Least ==
  ASSUME NEW T \in SUBSET Nat, T # {}
  PROVE  \E m \in T : \A k \in T : m <= k
<1> DEFINE Less == {p \in Nat \X Nat : p[1] < p[2]}
<1>1. IsWellFoundedOn(Less, Nat)
  BY NatLessThanWellFounded DEF OpToRel
<1>2. \A k, m \in Nat : <<k, m>> \in Less <=> k < m
  OBVIOUS
<1> HIDE DEF Less
<1>3. PICK m \in T : \A k \in T : ~(<<k, m>> \in Less)
  BY <1>1, WFMin
<1>4. \A k \in T : k \in Nat /\ ~(k < m) /\ m \in Nat
  BY <1>2, <1>3
<1> QED
  BY <1>3, <1>4

(* What render accumulates, up to bucket n.                                *)
Sums(c, n, f) == f = [b \in 0 .. n |-> IF b = 0 THEN 0 ELSE f[b - 1] + c[b]]

(* render's recursion has a solution.                                      *)
LEMMA SumsExist ==
  ASSUME NumBuckets \in Nat, NEW c \in [Buckets -> Nat]
  PROVE  \E f : Sums(c, NumBuckets, f)
<1> DEFINE Lacks == {n \in 0 .. NumBuckets : ~ \E f : Sums(c, n, f)}
<1>1. SUFFICES ASSUME Lacks # {} PROVE FALSE
  OBVIOUS
<1>2. PICK n \in Lacks : \A k \in Lacks : n <= k
  <2>1. Lacks \in SUBSET Nat
    OBVIOUS
  <2> HIDE DEF Lacks
  <2> QED
    BY <1>1, <2>1, Least
<1>3. CASE n = 0
  <2> DEFINE f == [b \in 0 .. 0 |-> 0]
  <2>1. f = [b \in 0 .. 0 |-> IF b = 0 THEN 0 ELSE f[b - 1] + c[b]]
    OBVIOUS
  <2>2. Sums(c, 0, f)
    BY <2>1 DEF Sums
  <2> QED
    BY <1>2, <1>3, <2>2
<1>4. CASE n # 0
  <2>1. n \in 1 .. NumBuckets /\ n - 1 \in 0 .. NumBuckets /\ n - 1 \notin Lacks
    BY <1>2, <1>4
  <2>2. PICK f : Sums(c, n - 1, f)
    BY <2>1
  <2> DEFINE g == [b \in 0 .. n |-> IF b = n THEN f[n - 1] + c[n] ELSE f[b]]
  <2>3. ASSUME NEW b \in 0 .. n PROVE g[b] = IF b = 0 THEN 0 ELSE g[b - 1] + c[b]
    <3>1. \A k \in 0 .. n - 1 : f[k] = IF k = 0 THEN 0 ELSE f[k - 1] + c[k]
      BY <2>1, <2>2 DEF Sums
    <3>2. CASE b = n
      BY <2>1, <3>2
    <3>3. CASE b # n
      <4>1. b \in 0 .. n - 1 /\ (b # 0 => b - 1 \in 0 .. n - 1)
        BY <2>1, <3>3
      <4>2. g[b] = f[b] /\ (b # 0 => g[b - 1] = f[b - 1])
        BY <2>1, <4>1
      <4> QED
        BY <3>1, <4>1, <4>2
    <3> QED
      BY <3>2, <3>3
  <2>4. Sums(c, n, g)
    <3>1. g = [b \in 0 .. n |-> g[b]]
      OBVIOUS
    <3>2. g = [b \in 0 .. n |-> IF b = 0 THEN 0 ELSE g[b - 1] + c[b]]
      BY <2>3, <3>1
    <3> QED
      BY <3>2 DEF Sums
  <2> QED
    BY <1>2, <2>4
<1> QED
  BY <1>3, <1>4

(* Sums of numbers are numbers.                                            *)
LEMMA SumsBound ==
  ASSUME NumBuckets \in Nat, NEW c \in [Buckets -> Nat], NEW f, Sums(c, NumBuckets, f)
  PROVE  \A b \in 0 .. NumBuckets : f[b] \in Nat
<1> DEFINE Bad == {b \in 0 .. NumBuckets : f[b] \notin Nat}
<1>1. SUFFICES ASSUME Bad # {} PROVE FALSE
  OBVIOUS
<1>2. PICK n \in Bad : \A k \in Bad : n <= k
  <2>1. Bad \in SUBSET Nat
    OBVIOUS
  <2> HIDE DEF Bad
  <2> QED
    BY <1>1, <2>1, Least
<1>3. f[n] = IF n = 0 THEN 0 ELSE f[n - 1] + c[n]
  BY DEF Sums
<1>4. n # 0 => n - 1 \in 0 .. NumBuckets /\ n - 1 \notin Bad /\ n \in Buckets
  BY <1>2 DEF Buckets
<1> QED
  BY <1>3, <1>4

(* As long as nothing comes before the last bucket, the sums are 0.        *)
LEMMA SumsOfNothing ==
  ASSUME NumBuckets \in Nat, NEW c \in [Buckets -> Nat], NEW f, Sums(c, NumBuckets, f),
         \A b \in 1 .. NumBuckets - 1 : c[b] = 0
  PROVE  \A b \in 0 .. NumBuckets - 1 : f[b] = 0
<1> DEFINE Bad == {b \in 0 .. NumBuckets - 1 : f[b] # 0}
<1>1. SUFFICES ASSUME Bad # {} PROVE FALSE
  OBVIOUS
<1>2. PICK n \in Bad : \A k \in Bad : n <= k
  <2>1. Bad \in SUBSET Nat
    OBVIOUS
  <2> HIDE DEF Bad
  <2> QED
    BY <1>1, <2>1, Least
<1>3. f[n] = IF n = 0 THEN 0 ELSE f[n - 1] + c[n]
  BY DEF Sums
<1>4. n # 0 => n - 1 \in 0 .. NumBuckets - 1 /\ n - 1 \notin Bad /\ c[n] = 0
  BY <1>2
<1> QED
  BY <1>3, <1>4

(* render writes the sums.                                                 *)
LEMMA RenderSums ==
  ASSUME NumBuckets \in Nat, NEW s \in Series, counts[s] \in [Buckets -> Nat]
  PROVE  \E f : Sums(counts[s], NumBuckets, f) /\ render(s) = [b \in Buckets |-> f[b]]
<1> DEFINE f == CHOOSE cumulative : cumulative = [b \in 0 .. NumBuckets |-> IF b = 0 THEN 0 ELSE cumulative[b - 1] + counts[s][b]]
<1>1. render(s) = [b \in Buckets |-> f[b]]
  BY DEF render
<1>2. \E g : g = [b \in 0 .. NumBuckets |-> IF b = 0 THEN 0 ELSE g[b - 1] + counts[s][b]]
  BY SumsExist DEF Sums
<1>3. f = [b \in 0 .. NumBuckets |-> IF b = 0 THEN 0 ELSE f[b - 1] + counts[s][b]]
  BY <1>2
<1> HIDE DEF f
<1> QED
  BY <1>1, <1>3 DEF Sums

(* The counts of a series are numbers of values.                           *)
LEMMA CountsAreNumbers ==
  ASSUME Inv, NEW s \in Series
  PROVE  /\ counts[s] \in [Buckets -> Nat]
         /\ \A k \in Int : IsFiniteSet(AtMost(s, k))
         /\ \A b \in Buckets : counts[s][b] = 0 <=> AtMost(s, b) = {}
<1>1. \A k \in Int : IsFiniteSet(AtMost(s, k))
  BY FS_Subset DEF Inv, Numbered, AtMost
<1>2. ASSUME NEW b \in Buckets
      PROVE /\ counts[s][b] = Cardinality(AtMost(s, b)) /\ counts[s][b] \in Nat
            /\ counts[s][b] = 0 <=> AtMost(s, b) = {}
  <2>1. b \in Int /\ IsFiniteSet(AtMost(s, b))
    BY <1>1 DEF Buckets
  <2>2. Cardinality(AtMost(s, b)) \in Nat
    BY <2>1, FS_CardinalityType
  <2>3. Cardinality(AtMost(s, b)) = 0 <=> AtMost(s, b) = {}
    BY <2>1, FS_EmptySet
  <2> QED
    BY <2>2, <2>3 DEF Inv, CountsAreCumulative
<1> QED
  BY <1>1, <1>2 DEF Inv, Numbered

(* What an exposition needs to be right, as a statement about one state.   *)
LEMMA RenderStep ==
  ASSUME NumBuckets \in Nat, Inv, NEW s \in Series
  PROVE  render(s) = [b \in Buckets |-> Cardinality(AtMost(s, b))]
           <=> AtMost(s, NumBuckets - 1) = {}
<1> DEFINE c == counts[s]
           last == NumBuckets - 1
<1>1. /\ c \in [Buckets -> Nat]
      /\ \A b \in Buckets : c[b] = Cardinality(AtMost(s, b))
      /\ \A b \in Buckets : c[b] = 0 <=> AtMost(s, b) = {}
  BY CountsAreNumbers DEF Inv, CountsAreCumulative
<1>2. PICK f : Sums(c, NumBuckets, f) /\ render(s) = [b \in Buckets |-> f[b]]
  BY <1>1, RenderSums
<1>3. \A b \in 0 .. NumBuckets : f[b] = IF b = 0 THEN 0 ELSE f[b - 1] + c[b]
  BY <1>2 DEF Sums
<1>4. \A b \in 0 .. NumBuckets : f[b] \in Nat
  BY <1>1, <1>2, SumsBound
<1>5. \A o \in seen[s] : o[2] \in 1 .. NumBuckets + 1
  BY DEF Inv, Numbered, Values
<1> HIDE DEF c
<1>6. render(s) = [b \in Buckets |-> Cardinality(AtMost(s, b))] <=> \A b \in Buckets : f[b] = c[b]
  <2>1. [b \in Buckets |-> Cardinality(AtMost(s, b))] = [b \in Buckets |-> c[b]]
    BY <1>1
  <2>2. [b \in Buckets |-> f[b]] = [b \in Buckets |-> c[b]] <=> \A b \in Buckets : f[b] = c[b]
    <3>1. ASSUME [b \in Buckets |-> f[b]] = [b \in Buckets |-> c[b]], NEW b \in Buckets
          PROVE  f[b] = c[b]
      <4>1. [k \in Buckets |-> f[k]][b] = [k \in Buckets |-> c[k]][b]
        BY <3>1
      <4> QED
        BY <4>1
    <3> QED
      BY <3>1
  <2> QED
    BY <1>2, <2>1, <2>2
<1>7. ASSUME AtMost(s, last) = {} PROVE \A b \in Buckets : f[b] = c[b]
  <2>1. \A b \in 1 .. last : AtMost(s, b) = {}
    BY <1>5, <1>7 DEF AtMost
  <2>2. \A b \in 1 .. last : c[b] = 0
    BY <1>1, <2>1 DEF Buckets
  <2>3. \A b \in 0 .. last : f[b] = 0
    BY <1>1, <1>2, <2>2, SumsOfNothing
  <2>4. ASSUME NEW b \in Buckets PROVE f[b] = c[b]
    <3>1. b \in 1 .. NumBuckets /\ b - 1 \in 0 .. last /\ c[b] \in Nat
      BY <1>1 DEF Buckets
    <3> QED
      BY <1>3, <2>3, <3>1
  <2> QED
    BY <2>4
<1>8. ASSUME \A b \in Buckets : f[b] = c[b] PROVE AtMost(s, last) = {}
  <2>1. CASE last < 1
    BY <1>5, <2>1 DEF AtMost
  <2>2. CASE last >= 1
    <3>1. /\ last \in Buckets /\ NumBuckets \in Buckets /\ NumBuckets - 1 = last
          /\ last \in 0 .. NumBuckets /\ NumBuckets \in 0 .. NumBuckets
      BY <2>2 DEF Buckets
    <3>2. f[NumBuckets] = f[last] + c[NumBuckets]
      BY <1>3, <2>2, <3>1
    <3>3. f[last] = 0
      BY <1>4, <1>8, <3>1, <3>2
    <3>4. c[last] = 0
      BY <1>8, <3>1, <3>3
    <3> QED
      BY <1>1, <3>1, <3>4
  <2> QED
    BY <2>1, <2>2
<1> QED
  BY <1>6, <1>7, <1>8

(* A series is written right just when none of its values belongs to a     *)
(* bucket before the last one.                                             *)
RightWithoutSmallValues ==
  \A s \in Series :
    render(s) = [b \in Buckets |-> Cardinality(AtMost(s, b))] <=> AtMost(s, NumBuckets - 1) = {}

(* render adds up what observe has added up already: whatever the buckets  *)
(* are, the buckets of a series are written wrong from its first value     *)
(* that belongs to a bucket before the last one, and only then.            *)
THEOREM RenderExact == NumBuckets \in Nat => (Spec => []RightWithoutSmallValues)
<1> SUFFICES ASSUME NumBuckets \in Nat PROVE Spec => []RightWithoutSmallValues
  OBVIOUS
<1>1. Inv => RightWithoutSmallValues
  BY RenderStep DEF RightWithoutSmallValues
<1> QED
  BY InitInv, InvStep, <1>1, PTL DEF Spec

=============================================================================

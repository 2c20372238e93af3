\* Two buckets and three values; one value in the first bucket is enough.
CONSTANTS
  Series = {s1, s2}
  NumBuckets = 2
  MaxObservations = 3
SPECIFICATION Spec
INVARIANT SwapChangesNoQuery
CHECK_DEADLOCK FALSE

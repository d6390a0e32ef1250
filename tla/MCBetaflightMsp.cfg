\* Three sweeps: one that misses its replies, one that gets them instead of its
\* own, and one behind it.
CONSTANT
  MaxSweeps = 3
SPECIFICATION FairSpec
INVARIANT
  TypeOK
PROPERTIES
  AgeBounded
  FreshAfterStart
  StopEnds

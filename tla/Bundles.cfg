\* Two writers of one job that may die, fail and lose power.
SPECIFICATION FairSpec
CONSTANTS
  w1 = w1
  w2 = w2
  t1 = t1
  t2 = t2
  None = None
  Writers <- TwoWriters
  Stamps <- TwoStamps
  MaxFaults = 3
  MaxLosses = 2
INVARIANTS
  TypeOK
  PublishedIsComplete
PROPERTIES
  OneBundle
  BoundAtLast

\* Two processes of the operator on one run: safety and the abstract run.
SPECIFICATION Spec
CONSTANTS
  p1 = p1
  p2 = p2
  o1 = o1
  s1 = s1
  s2 = s2
  m1 = m1
  m2 = m2
  None = None
  Processes <- TwoProcesses
  Operators <- OneOperator
  Sessions <- TwoSessions
  Manifests <- TwoManifests
  MaxSetbacks = 1
  MaxCrashes <- Unlimited
SYMMETRY Alike
INVARIANTS
  TypeOK
  LedgerVerifies
  SucceededWasReviewed
  FrozenMeansPublished
PROPERTIES
  OneRun
CHECK_DEADLOCK FALSE

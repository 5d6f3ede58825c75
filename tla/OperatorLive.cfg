\* Two fair processes of the operator, one of which dies once: liveness.
SPECIFICATION FairSpec
CONSTANTS
  p1 = p1
  p2 = p2
  o1 = o1
  s1 = s1
  s2 = s2
  m1 = m1
  m2 = m2
  None = None
  Processes <- TwoProcesses
  Operators <- OneOperator
  Sessions <- OneSession
  Manifests <- OneManifest
  MaxSetbacks = 0
  MaxCrashes = 1
PROPERTIES
  FinalizeCompletes
CHECK_DEADLOCK FALSE

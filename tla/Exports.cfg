\* Three callers export one job to a plain backend or to the mock.
SPECIFICATION FairSpec
CONSTANTS
  t1 = t1
  t2 = t2
  c1 = c1
  c2 = c2
  c3 = c3
  Targets <- TwoTargets
  Callers <- ThreeCallers
  Backends <- PlainAndMock
  MaxFaults = 3
INVARIANTS
  TypeOK
  OneWriter
  RowIsApprovedPlan
  ReceiptIsFinal
  ClaimIsResumable
PROPERTIES
  ExportOnceSpec
  ExportCompletes
CHECK_DEADLOCK FALSE

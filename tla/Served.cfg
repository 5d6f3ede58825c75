SPECIFICATION FairSpec
CONSTANTS
  j1 = j1
  j2 = j2
  r1 = r1
  r2 = r2
  Nobody = Nobody
  Jobs <- TwoJobs
  Runners <- OneRunner
  Creator <- TwoCreators
  PlanExecutor <- AllMock
  Executors = {"mock"}
  Supervised = "supervised"
  Outcomes = {"SUCCEEDED"}
  Faults <- EachCall
  ApiActions = {"approve", "cancel"}
  Validates = TRUE
  ApprovalsLapse = FALSE
  MaxRetries = 1
  MaxAttempts = 1
  MaxCrashes = 0
PROPERTIES
  ServedUnlessBlocked

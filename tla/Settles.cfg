SPECIFICATION FairSpec
CONSTANTS
  j1 = j1
  j2 = j2
  r1 = r1
  r2 = r2
  Nobody = Nobody
  Jobs <- OneJob
  Runners <- OneRunner
  Creator <- OneCreator
  PlanExecutor <- AllMock
  Executors = {"mock"}
  Supervised = "supervised"
  Outcomes = {"SUCCEEDED", "FAILED_RETRYABLE", "FAILED_FINAL", "CANCELED"}
  Faults <- AllFaults
  ApiActions = {"approve", "cancel", "retry"}
  Validates = TRUE
  ApprovalsLapse = TRUE
  MaxRetries = 1
  MaxAttempts = 2
  MaxCrashes = 1
PROPERTIES
  RunningJobSettles
  CanceledRunSettles

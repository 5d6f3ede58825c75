SPECIFICATION Spec
CONSTANTS
  j1 = j1
  j2 = j2
  r1 = r1
  r2 = r2
  Nobody = Nobody
  Jobs <- OneJob
  Runners <- TwoRunners
  Creator <- OneCreator
  PlanExecutor <- AllMock
  Executors = {"mock"}
  Supervised = "supervised"
  Outcomes = {"FAILED_RETRYABLE", "SUCCEEDED"}
  Faults <- CancelFaults
  ApiActions <- AllRequests
  Validates = TRUE
  ApprovalsLapse = FALSE
  MaxRetries = 1
  MaxAttempts = 2
  MaxCrashes = 0
SYMMETRY RunnersAlike
INVARIANTS
  LeaseProtectsStatus

SPECIFICATION Spec
CONSTANTS
  j1 = j1
  j2 = j2
  r1 = r1
  r2 = r2
  Nobody = Nobody
  Jobs <- TwoJobs
  Runners <- OneRunner
  Creator <- TwoCreators
  PlanExecutor <- OneOperated
  Executors = {"mock"}
  Supervised = "supervised"
  Outcomes = {"SUCCEEDED", "FAILED_FINAL"}
  Faults <- AllFaults
  ApiActions <- AllRequests
  Validates = TRUE
  ApprovalsLapse = TRUE
  MaxRetries = 1
  MaxAttempts = 1
  MaxCrashes = 1
INVARIANTS
  OperatedStartsNoWork

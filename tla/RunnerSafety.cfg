SPECIFICATION Spec
CONSTANTS
  j1 = j1
  j2 = j2
  r1 = r1
  r2 = r2
  Nobody = Nobody
  Jobs <- OneJob
  Runners <- OneRunner
  Creator <- OneCreator
  PlanExecutor <- AllMock
  Executors = {"mock", "n8n"}
  Supervised = "supervised"
  Outcomes <- AllOutcomes
  Faults <- AllFaults
  ApiActions <- AllRequests
  Validates = TRUE
  ApprovalsLapse = TRUE
  MaxRetries = 1
  MaxAttempts = 3
  MaxCrashes = 2
INVARIANTS
  TypeOK
  ResultMatchesRun
  OnePaidRun
  IntentPrecedesWork
  RecordedTruth
  RetryBudgetBounded
  RunningJobIsTended
PROPERTIES
  StaleCallerConflicts
  LifecycleSpec

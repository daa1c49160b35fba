SPECIFICATION FairSpec
CONSTANTS
  NoLimit = NoLimit
  Budgets <- FullOrSteps
  Deadline = TRUE
  Suites = {0, 2}
  MaxAttempts = 2
  ChildSteps = 2
  Summarizing = TRUE
  Charges <- Usages
\* A run that has ended, or that was stopped within a step, does nothing more.
CHECK_DEADLOCK FALSE
INVARIANTS
  TypeOK
  WithinLimits
  SnapshotsValid
  ResumeConsistent
  CompletedVerified
PROPERTIES
  CallsReturn

SPECIFICATION Spec
CONSTANTS
  r1 = r1
  r2 = r2
  a1 = a1
  a2 = a2
  Runtimes = {r1, r2}
  Approvers = {}
  Faulty = {r1, r2}
  MaxSteps = 1
  Verifying = FALSE
\* A run that ended, or that no process may take up again, does nothing more.
CHECK_DEADLOCK FALSE
INVARIANTS
  BookkeepingResumable

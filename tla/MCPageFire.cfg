\* One alert, one page, drains of one row, two attempts, one failure anywhere.
CONSTANTS
  a1 = a1
  p1 = p1
  NULL = NULL
  Alert = {a1}
  Page = {p1}
  Snapshot <- Snapshots
  MaxDelay = 1
  MaxAttempts = 2
  Backoff <- Backoffs
  RuleDelay = {0}
  BatchLimit = 1
  MaxWait = 1
  MaxFaults = 1
  CleanupTicks = 2
SPECIFICATION FairSpec
INVARIANTS DelayIsOneDrain
PROPERTIES ImplementsComponents FirstStepIsCalled OldAlertsGo

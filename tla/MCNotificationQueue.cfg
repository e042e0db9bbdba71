\* Two notifications in batches of one, three attempts, two faults.
CONSTANTS
  NULL = NULL
  Note = {n1, n2}
  MaxAttempts = 3
  Backoff <- Backoffs
  RuleDelay = {0, 1}
  BatchLimit = 1
  MaxWait = 3
  MaxFaults = 2
SPECIFICATION FairSpec
INVARIANTS FinalStatusIsTrue StrandedOnlyByFaults
PROPERTIES PendingSettles NoCallAfterSuccess BackoffIsHonoured
\* Once every notification is settled or stranded nothing is left to do.
CHECK_DEADLOCK FALSE

\* One alert under a policy of two steps and one repetition, one under an empty policy, one fault.
CONSTANTS
  a1 = a1
  a2 = a2
  p1 = p1
  p2 = p2
  NULL = NULL
  Alert = {a1, a2}
  Page = {p1, p2}
  Snapshot <- SnapshotWithEmpty
  MaxDelay = 2
  MaxFaults = 1
SPECIFICATION FairSpec
INVARIANTS BatchIsCurrent AtMostOneLateStep NoSilentSkip RepeatsArePaidFor
PROPERTIES EscalationRunsOut LatePagesOfOneStep DelayIsHonoured
\* Once every alert is closed or exhausted and the clock has run out, nothing is left to do.
CHECK_DEADLOCK FALSE

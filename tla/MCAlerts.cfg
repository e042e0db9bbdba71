\* Intake: two requests with one key and one group, a Prometheus payload of two, one fault.
\* Paging: two users, three contact methods, four rules, two targets, two edits in a step.
CONSTANTS
  NULL = NULL
  Req = {r1, r2}
  Key = {k1}
  Group = {g1}
  MaxItems = 2
  MaxFaults = 1
  u1 = u1
  u2 = u2
  SCHEDULE = SCHEDULE
  User = {u1, u2}
  Method = {1, 2, 3}
  Rule = {1, 2, 3, 4}
  Owner <- Owners
  Address <- Addresses
  RuleUser <- RuleUsers
  RuleMethod <- RuleMethods
  Targets <- StepTargets
  MaxEdits = 2
SPECIFICATION AlertsSpec
SYMMETRY Symmetry
INVARIANTS OneActivePerKey DuplicateWasActive SuppressionIsJustified GroupPagesOnce LossHasCause
  StandingRuleIsPaged PagesAreOwed

\* Policies: two of them, three rules, three steps, two targets, one edit in a request.
\* An incident: three requests of any form.
\* The limiter: two keys, two requests per window of three units; the cleanup runs.
CONSTANTS
  p1 = p1
  p2 = p2
  NULL = NULL
  Policy = {p1, p2}
  Rule = {1, 2, 3}
  Step = {1, 2, 3}
  Target = {1, 2}
  Priority <- Priorities
  RulePolicy <- RulePolicies
  StepPolicy <- StepPolicies
  Number <- Numbers
  TargetStep <- TargetSteps
  MaxRepeat = 0
  MaxEdits = 1
  Req = {c1, c2, c3}
  Creation = Creation
  Key = {k1, k2}
  Request = {r1, r2, r3, r4, r5}
  Limit = 2
  Window = 3
SPECIFICATION ApiSpec
INVARIANTS FirstMatchWins StandingStepIsKept ErrorHasCause StatusIsRecent LostEditsRaced StoredIsBounded
PROPERTIES ImplementsWindow SilentKeysAreForgotten

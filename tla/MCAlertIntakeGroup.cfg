\* Two requests of one group, no fault.
CONSTANTS
  NULL = NULL
  Req = {r1, r2}
  Key = {k1}
  Group = {g1}
  MaxItems = 1
  MaxFaults = 0
SPECIFICATION Spec
INVARIANTS OnlyFirstOfGroupPages
\* The requests are finite: once all are answered and all alerts gone nothing is left to do.
CHECK_DEADLOCK FALSE

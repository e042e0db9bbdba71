\* Two concurrent requests, two users, no fault.
CONSTANTS
  NULL = NULL
  Req = {r1, r2}
  User = {u1, u2}
  Password = {p1, p2}
  Session = {s1, s2}
  MaxFaults = 0
SPECIFICATION Spec
PROPERTIES SetupOnlyWhenEmpty
\* Users and tokens are finite: once they are used up and everybody is gone nothing is left to do.
CHECK_DEADLOCK FALSE

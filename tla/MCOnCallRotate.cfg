\* One rotation without start_time, two participants, asked later than the largest duration.
CONSTANTS
  User = {u1, u2}
  NULL = NULL
  Rotation = {1}
  Start <- NoStart
  Type <- Hourly
  Length <- One
  Hour = 1
  Day = 2
  MaxDuration = 7
  Position = {0, 1}
  Override = {1, 2}
  From <- Froms
  Until <- Untils
  Time = {1, 9}
  MaxEdits = 1
SPECIFICATION Spec
INVARIANTS RotationsRotate

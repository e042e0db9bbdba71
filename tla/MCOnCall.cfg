\* Three users, two rotations of two positions, two overrides that overlap, one edit in a call.
\* Asked for the first moment of a shift, the middle of one, and after the largest duration.
CONSTANTS
  User = {u1, u2, u3}
  NULL = NULL
  Rotation = {1, 2}
  Start <- Starts
  Type <- Types
  Length <- Lengths
  Hour = 1
  Day = 2
  MaxDuration = 7
  Position = {0, 1}
  Override = {1, 2}
  From <- Froms
  Until <- Untils
  Time = {1, 2, 9}
  MaxEdits = 1
SPECIFICATION Spec
SYMMETRY Symmetry
INVARIANTS ShiftsInTurn SomebodyAnswers ErrorHasCause EverybodyHasAReason StandingOverrideHolds

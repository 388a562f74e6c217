SPECIFICATION Spec
CONSTANTS
  Runs = {r1, r2}
  Audiences = {jason}
  Messages = {m1}
  DayLength = 2
  Days = 3
  RetryLimit = 0
SYMMETRY BriefSymmetry
INVARIANTS TypeOK NoEventTwice
PROPERTIES RerunKeeps

SPECIFICATION Spec
CONSTANTS
  Runs = {r1}
  Audiences = {jason}
  Messages = {m1}
  DayLength = 2
  Days = 3
  RetryLimit = 0
INVARIANTS GapPickedUp

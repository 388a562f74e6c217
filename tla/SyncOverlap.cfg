SPECIFICATION Spec
CONSTANTS
  Runs = {r1, r2}
  Providers = {"outlook", "imap", "gmail"}
  Bound = 1
  RetryLimit = 0
  Threshold = 1
  MaxMail = 2
  MaxAged = 1
  MaxGrants = 1
SYMMETRY HandlersAlike
INVARIANTS TypeOK OneOwner NoMailSkipped
PROPERTIES CatchesUp

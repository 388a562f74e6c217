SPECIFICATION FairSpec
CONSTANTS
  Runs = {r1}
  Providers = {"gmail"}
  Bound = 1
  RetryLimit = 0
  Threshold = 1
  MaxMail = 2
  MaxAged = 0
  MaxGrants = 1
PROPERTIES EventuallyIngested

SPECIFICATION FairSpec
CONSTANTS
  Runs = {r1}
  Providers = {"outlook", "imap"}
  Bound = 1
  RetryLimit = 1
  Threshold = 1
  MaxMail = 2
  MaxAged = 0
  MaxGrants = 2
PROPERTIES EventuallyIngested FailingSurfaces NoRetryStorm
CONSTRAINT OneThing

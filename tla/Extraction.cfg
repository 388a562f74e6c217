SPECIFICATION FairSpec
CONSTANTS
  Runs = {r1, r2}
  BatchSize = 2
  RetryLimit = 0
  MaxMessages = 3
INVARIANTS TypeOK
PROPERTIES ExtractionKept SettlesOnce EventuallyAttempted

SPECIFICATION FairSpec
CONSTANTS
  Runs = {r1}
  Audiences = {jason, moet}
  Days = 2
  RetryLimit = 2
INVARIANTS TypeOK BoundedCopies
PROPERTIES MissingBlocksNobody

SPECIFICATION FairSpec
CONSTANTS
  r1 = r1
  Runs = {r1}
  Providers = {"gmail", "outlook", "imap"}
  PageSize = 2
  MaxPages = 2
  Bound = 2
  Chunk = 2
  Copies = {2}
  MaxMail = 3
  MaxAged = 1
INVARIANTS TypeOK DoneMeansDone
PROPERTIES CatchesUp EventuallySaved

SPECIFICATION FairSpec
CONSTANTS
  r1 = r1
  Runs = {r1}
  Providers = {"imap"}
  PageSize = 2
  MaxPages = 2
  Bound = 2
  Chunk = 2
  Copies = {2}
  MaxMail = 2
  MaxAged = 0
PROPERTIES CopiesSaved

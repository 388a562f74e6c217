SPECIFICATION FairSpec
CONSTANTS
  Syncs = {s1}
  Renewers = {w1, w2}
  Providers = {"outlook", "gmail"}
  Ids = {i1, i2}
  Lifetime = 3
  Window = 3
  MaxBlocks = 1
INVARIANTS TypeOK NeverLapses
PROPERTIES EventuallySubscribed
CONSTRAINT OneThing

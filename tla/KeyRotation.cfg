SPECIFICATION FairSpec
CONSTANTS
  Accounts = {a1, a2}
  MaxKeys = 2
  MaxGrants = 2
INVARIANTS TypeOK AlwaysReadable NobodyFlagged LastGrantKept
PROPERTIES RotationUnseen RotationEnds

SPECIFICATION Spec
CONSTANTS
  People = {"jason", "moet"}
  Providers = {"outlook", "imap", "gmail-imap"}
  GlobalOwners = {"jason"}
  Kinds <- MCKinds
  Syncs = {s1, s2}
  Findings = {"question"}
  Messages = {m1, m2}
  MaxTime = 2
SYMMETRY MCSymmetry
INVARIANTS TypeOK NoStrangersMail WaitsAgree
PROPERTIES OwnerThreadsKept WaitNotReset 

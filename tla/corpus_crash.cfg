SPECIFICATION FairSpec
CONSTANTS
  v1 = v1
  v2 = v2
  guide = guide
  notes = notes
  Docs = {guide, notes}
  Contents = {v1, v2}
  ScopeOf <- MCSharedGuide
  Unscoped = Unscoped
  Absent = Absent
  NoDoc = NoDoc
  ReplayFailed = FALSE
  Faults = {"crash", "corrupt", "evidence"}
INVARIANT NoGhost
PROPERTY PendingIsResolved
CHECK_DEADLOCK FALSE

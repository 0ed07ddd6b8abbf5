SPECIFICATION Spec
CONSTANTS
  v1 = v1
  v2 = v2
  guide = guide
  notes = notes
  Docs = {guide, notes}
  Contents = {v1, v2}
  ScopeOf <- MCOwnScopes
  Unscoped = Unscoped
  Absent = Absent
  NoDoc = NoDoc
  ReplayFailed = FALSE
  Faults = {"crash", "publish", "corrupt", "evidence", "open"}
INVARIANTS TypeOK StaleIsOnRecord NothingLeftPending
SYMMETRY MCSymmetry
CHECK_DEADLOCK FALSE

SPECIFICATION Spec
CONSTANTS
  Threads = {turn, tier2}
  Entities = {user, project, team}
  MaxVersion = 2
  Gone = Gone
  Nobody = Nobody
  Faults = {"crash", "publish", "mount", "read"}
INVARIANTS TypeOK DerivedIsDurable StaleIsOnRecord
CONSTRAINT MCThird
SYMMETRY Symmetric
CHECK_DEADLOCK FALSE

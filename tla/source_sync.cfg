SPECIFICATION Spec
CONSTANTS
  Principals = {researcher, coder, unscoped}
  Unscoped = unscoped
  Files = {note, guide}
  Contents = {v1, v2}
  Gone = Gone
  Nobody = Nobody
  Policies = {"retain_missing", "deactivate_missing"}
INVARIANTS TypeOK OneDocumentPerFile RunCoversFolder
PROPERTY OthersUntouched
CONSTRAINT MCDocuments
SYMMETRY Symmetric
CHECK_DEADLOCK FALSE

SPECIFICATION Spec
CONSTANTS
  Principals = {researcher, coder}
  Unscoped = unscoped
  Files = {note}
  Contents = {v1, v2}
  Gone = Gone
  Nobody = Nobody
  Policies = {"retain_missing", "deactivate_missing"}
INVARIANT UnchangedSyncIsIdle
CHECK_DEADLOCK FALSE

SPECIFICATION Spec
CONSTANTS
  Pulses = {p1, p2}
  Signals = {evolver}
  Healthy = Healthy
  Nothing = Nothing
  Decisions = {"accepted", "suppressed"}
  Reports = {"delivered"}
  MaxDecisions = 2
INVARIANTS TypeOK CompletedMeansProjected AsksAreCounted
PROPERTIES NotReopened KillSwitchStops
SYMMETRY Symmetric
CHECK_DEADLOCK FALSE

SPECIFICATION Spec
CONSTANTS
  c1 = c1
  c2 = c2
  g1 = g1
  g2 = g2
  None = None
  Threads = {t1}
  Claims = {c1, c2}
  own = own
  flagged = flagged
  ProposalOf <- MCProposalOf
  ValueOf <- MCValueOf
  Sourced = {c1, c2}
  Expired = {}
  Limits = {2}
INVARIANT OneAnswerPerSlot
CHECK_DEADLOCK FALSE

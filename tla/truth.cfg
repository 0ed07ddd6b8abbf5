SPECIFICATION Spec
CONSTANTS
  c1 = c1
  c2 = c2
  g1 = g1
  g2 = g2
  None = None
  Threads = {t1, t2}
  Claims = {g1, g2, own, c1, flagged}
  own = own
  flagged = flagged
  ProposalOf <- MCProposalOf
  ValueOf <- MCValueOf
  Sourced = {g1, g2, own}
  Expired = {g2}
  Limits = {2}
INVARIANTS TypeOK AnswerIsBacked ParityAtRest
PROPERTY NeverRevived
CONSTRAINT MCUnsourced
SYMMETRY Symmetric
CHECK_DEADLOCK FALSE

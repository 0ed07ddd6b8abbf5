SPECIFICATION Spec
CONSTANTS
  turn = turn
  tier2 = tier2
  User = User
  Owner = Owner
  red = red
  Red = Red
  green = green
  n1 = n1
  n2 = n2
  Writers = {turn, tier2}
  Names = {User, Owner}
  AliasNames = {User, Owner}
  Values = {red, Red, green}
  Scopes = {}
  NoScope = NoScope
  Folded <- MCFolded
  ExactUpdate <- MCExactUpdate
  MaxStates = 3
  MaxConflicts = 2
INVARIANTS TypeOK LedgerExplainsStatus SupersededIsHistory 
PROPERTY HistoryIsFinal
CONSTRAINT MCRows
SYMMETRY MCSymmetric
CHECK_DEADLOCK FALSE

SPECIFICATION Spec
CONSTANTS
  turn = turn
  tier2 = tier2
  User = User
  Owner = Owner
  red = red
  Red = Red
  green = green
  n1 = n1
  n2 = n2
  Writers = {turn}
  Names = {Owner}
  AliasNames = {}
  Values = {red, n1, n2}
  Scopes = {}
  NoScope = NoScope
  Folded <- MCFolded
  ExactUpdate <- MCExactUpdate
  MaxStates = 3
  MaxConflicts = 1
INVARIANT OneCurrentTruth
SYMMETRY MCSymmetry
CHECK_DEADLOCK FALSE

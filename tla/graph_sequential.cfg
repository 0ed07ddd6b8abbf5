SPECIFICATION Spec
CONSTANTS
  turn = turn
  tier2 = tier2
  User = User
  Owner = Owner
  red = red
  Red = Red
  green = green
  n1 = n1
  n2 = n2
  Writers = {turn}
  Names = {User, Owner}
  AliasNames = {User}
  Values = {red, green}
  Scopes = {a}
  NoScope = NoScope
  Folded <- MCFolded
  ExactUpdate <- MCExactUpdate
  MaxStates = 3
  MaxConflicts = 2
INVARIANTS
  TruthSurvives ConflictFollowsEntity
PROPERTIES KeepsHistory TruthDoublesOnlyBy
CHECK_DEADLOCK FALSE

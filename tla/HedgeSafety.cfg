SPECIFICATION Spec
CONSTANTS
  q1 = q1
  q2 = q2
  q3 = q3
  Requests <- RequestsThree
  NoOrder = NoOrder
  Coins = {"BTC"}
  NoRow = NoRow
  MaxSize = 2
SYMMETRY RequestSymmetry
INVARIANTS
  TypeOK
  ListedPositionsWereFilled
  OpenPositionsAreListed
CHECK_DEADLOCK FALSE

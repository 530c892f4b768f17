SPECIFICATION Spec
CONSTANTS
  q1 = q1
  q2 = q2
  q3 = q3
  Requests <- RequestsTwo
  NoOrder = NoOrder
  Coins = {"BTC"}
  NoRow = NoRow
  MaxSize = 1
SYMMETRY RequestSymmetry
INVARIANTS
  ClosedPositionsAreNotListed
CHECK_DEADLOCK FALSE

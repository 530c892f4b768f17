SPECIFICATION Spec
CONSTANTS
  q1 = q1
  q2 = q2
  q3 = q3
  Requests <- RequestsThree
  NoOrder = NoOrder
  NoTx = NoTx
  NoBalance = NoBalance
  NoChain = NoChain
  GatewayChains = {"arc", "polygon"}
  WalletChains = {"arc"}
  OperatorOrders <- Posted
  InitialUsdc = {0, 200, 550}
  InitialUsyc = 400
  InitialDeposit = 300
  Target = 300
  MinSweep = 50
  GateMin = 10
  GateMax = 10000
  GateBuffer = 100
  NavNum = 11
  NavDen = 10
SYMMETRY RequestSymmetry
INVARIANTS
  TypeOK
  ReportedMovesAreComplete
  SuccessfulSweepsLeaveNoAllowance
  SoleMoveMeetsTarget
  FundsAreConserved
CHECK_DEADLOCK FALSE

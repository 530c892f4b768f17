SPECIFICATION Spec
CONSTANTS
  q1 = q1
  q2 = q2
  q3 = q3
  Requests <- RequestsThree
  NoRequest = NoRequest
  Roles <- RolesOne
  RecordingRoles <- RecordingRolesAll
  NoopRoles <- NoopRolesAll
  Nonces = {1, 2}
  NoDecision = NoDecision
  TraceKeeper = TraceKeeper
  RaisePoints <- Everywhere
  MaxDecisionId = 2
  MaxRestarts = 1
  MaxCrashes = 0
  MaxFlushes = 1
SYMMETRY RequestSymmetry
INVARIANTS
  TypeOK
  AnchorBeforeExecution
  ExecutedOncePerDecision
  RefusedLeavesNothing
  TraceRowsMatchChain
  NonceAdmitsOnce
  ApprovedRowIsEvidence
CHECK_DEADLOCK FALSE

SPECIFICATION FairSpec
CONSTANTS
  q1 = q1
  q2 = q2
  q3 = q3
  Requests <- RequestsTwo
  NoRequest = NoRequest
  Roles <- RolesTwo
  RecordingRoles <- RecordingRolesAll
  NoopRoles <- NoopRolesAll
  Nonces = {1, 2}
  NoDecision = NoDecision
  TraceKeeper = TraceKeeper
  RaisePoints <- Everywhere
  MaxDecisionId = 1
  MaxRestarts = 1
  MaxCrashes = 1
  MaxFlushes = 0
INVARIANTS
  CommitsPassTheAudit
PROPERTIES
  TraceRowsWriteOnce
  AnchoringSpec
  EveryRequestEnds
CHECK_DEADLOCK FALSE

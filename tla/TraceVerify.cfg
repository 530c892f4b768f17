SPECIFICATION Spec
CONSTANTS
  q1 = q1
  q2 = q2
  q3 = q3
  Requests <- RequestsTwo
  NoRequest = NoRequest
  Roles <- RolesOne
  RecordingRoles <- RecordingRolesAll
  NoopRoles <- NoopRolesAll
  Nonces = {1, 2}
  NoDecision = NoDecision
  TraceKeeper = TraceKeeper
  RaisePoints <- Nowhere
  MaxDecisionId = 2
  MaxRestarts = 1
  MaxCrashes = 0
  MaxFlushes = 0
INVARIANTS
  StoredTraceCanBeConfirmed
CHECK_DEADLOCK FALSE

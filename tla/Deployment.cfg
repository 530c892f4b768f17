SPECIFICATION SystemSpec
CONSTANTS
  h1 = h1
  h2 = h2
  c1 = c1
  Addresses = {0, 1, 2, 3}
  Owner = 0
  Agents = {1, 2}
  DecisionIds = {1}
  Hashes = {h1, h2}
  Cids = {c1}
  Keepers = {"pricing", "trace"}
  Chains = {"ARC", "MATIC"}
  MaxRuns = 3
  MaxSets = 2
  OtherSizes = {2, 4}
  SetPage = 2
  WalletPage = 6
  AgentIds = {0, 1, 2, 3}
  Codes = {"nomos", "null"}
  NullCode = "null"
  Scores = {0, 10001}
  NomosCode = "nomos"
  TraceName = "trace"
  MaxAdministration = 1
SYMMETRY Bodies
INVARIANTS
  TypeOK
  IndexIsInverse
  CodesNameTheirAgent
  RegisteredSecretIsOnFile
  TraceKeeperIsKept
PROPERTIES
  VerifiedForever
CHECK_DEADLOCK FALSE

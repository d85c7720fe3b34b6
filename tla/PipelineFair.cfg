SPECIFICATION FairSpec
CONSTANTS
  Docs = {d1}
  Replicas = {r1, r2}
  JobSlots = {j1}
  NoDoc = NoDoc
  NoReplica = NoReplica
  NumPages = 1
  MaxAttempts = 2
  Retries = 2
  Faults <- AllFaults
  FaultsLimited = TRUE
  FaultLimit = 1
  Slow = {"ingest", "ocr", "extract"}
  LLMConfigured = TRUE
INVARIANTS
  ClaimsAreExclusive
  FailureNeedsFault
PROPERTY Settles

SPECIFICATION Spec
CONSTANTS
  Docs = {d1}
  Replicas = {r1}
  JobSlots = {j1, j2}
  NoDoc = NoDoc
  NoReplica = NoReplica
  NumPages = 2
  MaxAttempts = 2
  Retries = 2
  Faults <- AllFaults
  FaultsLimited = FALSE
  FaultLimit = 0
  Slow = {"ingest", "ocr", "extract"}
  LLMConfigured = TRUE
SYMMETRY Symmetric
INVARIANTS
  TypeOK
  OCRDoneComplete
  DispatchedIsIngested
  FailedStageHonest
  ExtractedHasAggregate
  Inductive
PROPERTY ImplementsLifecycle

SPECIFICATION WorkerFairSpec
CONSTANTS
  Docs = {d1}
  JobSlots = {j1}
  NoDoc = NoDoc
  NumPages = 3
  MaxAttempts = 1
  Concurrency = 2
  Engines = {"stub", "glm"}
  Faults = {"ocr", "db", "loss"}
  FaultsLimited = FALSE
  FaultLimit = 0
INVARIANTS
  WorkerTypeOK
  VerdictIsFinal
  RootCause
PROPERTIES
  JobsEnd
  ImplementsOcrService

SPECIFICATION Spec
CONSTANTS
  Docs = {d1}
  Replicas = {r1, r2}
  JobSlots = {j1}
  NoDoc = NoDoc
  NoReplica = NoReplica
  NumPages = 1
  MaxAttempts = 3
  Retries = 1
  Faults = {"crash"}
  FaultsLimited = TRUE
  FaultLimit = 1
  Slow = {}
  LLMConfigured = TRUE
INVARIANT NoDoubleProcessing

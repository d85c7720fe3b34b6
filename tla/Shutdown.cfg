SPECIFICATION ShutdownFairSpec
CONSTANTS
  Uploads = {u1}
  Found = {f1}
  Poller = Poller
  NoDoc = NoDoc
INVARIANTS
  ShutdownTypeOK
  DrainLosesNothing
PROPERTIES
  NoAddDuringWait
  NoVerdictByShutdown
  ShutdownEnds
CHECK_DEADLOCK FALSE

SPECIFICATION AnswerSpec
CONSTANT MaxAttempts = 2
INVARIANTS
  AnswerTypeOK
  AcceptedCanBeStored
  CostIsBounded
  ActiveIsNotCancelled
  CPFsAreRight
  CNPJsAreRight
  DocsAreKept
  BackoffIsInRange

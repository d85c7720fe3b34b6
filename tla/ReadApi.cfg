SPECIFICATION ApiSpec
CONSTANTS
  Docs = {d1}
  Pages = {p1, p2, p3}
  MaxAttempts = 3
  Clients = {c1}
  NoDoc = NoDoc
INVARIANTS
  ApiTypeOK
  OcrAnswerIsWhole
  KnownIsFound
  ServedStaysServed
  IdsAreStable
PROPERTY AnswersOnlyAdvance

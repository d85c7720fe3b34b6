SPECIFICATION ApiSpec
CONSTANTS
  Docs = {d1}
  Pages = {p1, p2}
  MaxAttempts = 1
  Clients = {c1}
  NoDoc = NoDoc
INVARIANT PartialIsNotReady

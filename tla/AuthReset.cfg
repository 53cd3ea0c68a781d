SPECIFICATION FairSpec
CONSTANTS
  Emails = {e1}
  Codes = {c1, c2}
  Passwords = {p1, p2}
  Reqs = {r1, r2}
  ClientOps = {"forgot", "verifyReset", "reset"}
  MaxAttempts = 3
  MaxId = 2
  None = None
INVARIANTS
  GrantWasProved
  ResetHasAccount
PROPERTIES
  EveryRequestAnswered

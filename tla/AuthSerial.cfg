SPECIFICATION Spec
CONSTANTS
  Emails = {e1, e2}
  Codes = {c1, c2}
  Passwords = {p1}
  Reqs = {r1}
  ClientOps = {"send", "verify", "register", "forgot", "verifyReset", "reset"}
  MaxAttempts = 2
  MaxId = 2
  None = None
INVARIANTS
  FreshCodeStartsClean
  VerifiedByOwnCode
SYMMETRY Symmetric

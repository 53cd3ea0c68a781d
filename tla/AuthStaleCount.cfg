SPECIFICATION Spec
CONSTANTS
  Emails = {e1}
  Codes = {c1, c2}
  Passwords = {p1, p2}
  Reqs = {r1, r2}
  ClientOps = {"send", "verify", "register"}
  MaxAttempts = 2
  MaxId = 2
  None = None
INVARIANTS
  FreshCodeStartsClean
SYMMETRY Symmetric

SPECIFICATION Spec
CONSTANTS
  Emails = {e1}
  Codes = {c1, c2}
  Passwords = {p1, p2}
  Reqs = {r1, r2, r3}
  ClientOps = {"send", "verify", "register"}
  MaxAttempts = 2
  MaxId = 2
  None = None
INVARIANTS
  TypeOK
  SingleUse
PROPERTIES
  RefinesPromise
SYMMETRY Symmetric

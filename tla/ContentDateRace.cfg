SPECIFICATION Spec
CONSTANTS
  Users = {u1, u2}
  Reqs = {r1, r2}
  Roles = {"USER"}
  ClientOps = {"createPost", "updatePost"}
  Days = {1, 2, 3}
  NullDates = FALSE
  MaxPost = 1
  MaxComment = 0
  MaxMark = 0
  Absent = Absent
  Null = Null
  None = None
INVARIANTS
  DatesInOrder
SYMMETRY Symmetric

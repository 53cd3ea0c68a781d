SPECIFICATION Spec
CONSTANTS
  Users = {u1, u2}
  Reqs = {r1, r2}
  Roles = {"USER", "ADMIN"}
  ClientOps = {"createPost", "updatePost", "deletePost"}
  Days = {1}
  NullDates = TRUE
  MaxPost = 1
  MaxComment = 0
  MaxMark = 0
  Absent = Absent
  Null = Null
  None = None
INVARIANTS
  TypeOK
  KvPostsByAdmins
PROPERTIES
  DatesStayInOrder
SYMMETRY Symmetric

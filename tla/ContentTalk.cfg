SPECIFICATION Spec
CONSTANTS
  Users = {u1, u2}
  Reqs = {r1, r2}
  Roles = {"USER", "ADMIN"}
  ClientOps = {"createPost", "deletePost", "createComment", "updateComment", "deleteComment", "toggle"}
  Days = {1}
  NullDates = FALSE
  MaxPost = 1
  MaxComment = 1
  MaxMark = 2
  Absent = Absent
  Null = Null
  None = None
INVARIANTS
  NoOrphans
PROPERTIES
  OnlyOwnersChange
  ToggleRemovesWhatItSaw
SYMMETRY Symmetric

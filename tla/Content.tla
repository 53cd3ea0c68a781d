------------------------------ MODULE Content ------------------------------
(***************************************************************************)
(* Posts, comments and bookmarks: the handlers that change them, as the    *)
(* requests of several users run them side by side in the API process.     *)
(* Every database call is one step.  A handler reads, decides on what it   *)
(* read, and writes by id what it was asked to; the row it read may have   *)
(* changed or gone by then.  The reads of a post's other fields, and the   *)
(* fields themselves, are left out: dates, KV flag and authors are what    *)
(* the handlers decide on.                                                 *)
(***************************************************************************)
EXTENDS Naturals

CONSTANTS Users, Reqs,
          Roles,                    \* the roles users have: "USER", "CREATOR", "ADMIN"
          ClientOps,                \* the operations the clients call
          Days,                     \* dates a client sends, counted from the epoch, day 0
          NullDates,                \* TRUE: clients may send null as a date of an update
          MaxPost, MaxComment, MaxMark,   \* the last ids the tables give (bounds)
          Absent, Null,             \* undefined and null, as a field of a request body
          None

AllOps == {"createPost", "updatePost", "deletePost", "createComment", "updateComment",
           "deleteComment", "toggle"}

ASSUME RolesAssumption == Roles \subseteq {"USER", "CREATOR", "ADMIN"} /\ Roles # {}
ASSUME OpsAssumption == ClientOps \subseteq AllOps
ASSUME BoundsAssumption == /\ MaxPost \in Nat /\ MaxComment \in Nat /\ MaxMark \in Nat
                           /\ Days \subseteq Nat \ {0} /\ NullDates \in BOOLEAN

Post    == [author : Users, start : Nat, end : Nat, isKv : BOOLEAN]
Comment == [author : Users, post : 1..MaxPost, text : BOOLEAN]

ASSUME NoneAssumption ==
  /\ None \notin Post \cup Comment \cup Users
  /\ Absent # Null /\ {Absent, Null} \cap (Nat \cup BOOLEAN) = {}

VARIABLES role,          \* the roles in the User table
          posts, nextPost,
          comments, nextComment,
          marks,         \* the bookmark id of a user and a post, 0 without bookmark
          nextMark,
          req,
          everAdmin      \* ghost: the users that have been ADMIN

tables == <<posts, nextPost, comments, nextComment, marks, nextMark>>
vars   == <<role, posts, nextPost, comments, nextComment, marks, nextMark, req, everAdmin>>

PostIds    == 1..MaxPost
CommentIds == 1..MaxComment

\* The fields of a request body that matter: Absent and Null are both accepted by
\* @IsOptional(), and both make `??' fall back to the stored date.
DateField == Days \cup {Absent} \cup (IF NullDates THEN {Null} ELSE {})
NoDto  == [start |-> Absent, end |-> Absent, isKv |-> Absent]
CreateDtos == [start : Days, end : Days, isKv : {TRUE, Absent}]
UpdateDtos == [start : DateField, end : DateField, isKv : {TRUE, FALSE, Absent}]

IsAdmin(ro) == ro = "ADMIN"
EpochAsSent(x) == x
Epoch(x) == IF x = Null THEN 0 ELSE x      \* new Date(null) is 1970-01-01

Idle == [pc |-> "idle", op |-> None, user |-> None, role |-> None, id |-> 0,
         ref |-> 0, dto |-> NoDto]
Free(r) == req[r].pc = "idle"

Goto(r, pc)       == req' = [req EXCEPT ![r].pc = pc]
GotoWith(r, pc, x) == req' = [req EXCEPT ![r].pc = pc, ![r].ref = x]
\* Any answer ends the request: which status it carries is not told apart.
Answer(r) == req' = [req EXCEPT ![r] = Idle]

-----------------------------------------------------------------------------
\* A request passes authMiddleware, which reads the user's role, and the validation of its
\* body.  createPost validates its dates before its first database call.
DatesValid(s, e) == ~(e < s)

Begin(r, u, op, id, dto, pc) ==
  /\ Free(r) /\ op \in ClientOps
  /\ req' = [req EXCEPT ![r] = [pc |-> pc, op |-> op, user |-> u, role |-> role[u],
                                id |-> id, ref |-> 0, dto |-> dto]]
  /\ UNCHANGED <<tables, role, everAdmin>>

BeginCreatePost(r, u) ==
  \E dto \in CreateDtos : /\ DatesValid(dto.start, dto.end)
                          /\ Begin(r, u, "createPost", 0, dto, "insertPost")
BeginUpdatePost(r, u) ==
  \E p \in PostIds, dto \in UpdateDtos : Begin(r, u, "updatePost", p, dto, "readPost")
BeginOnPost(r, u) ==
  \E p \in PostIds, op \in {"deletePost", "createComment", "toggle"} :
    Begin(r, u, op, p, NoDto, "readPost")
BeginOnComment(r, u) ==
  \E c \in CommentIds, op \in {"updateComment", "deleteComment"} :
    Begin(r, u, op, c, NoDto, "readComment")

-----------------------------------------------------------------------------
(* Posts. *)

\* isKv is taken from an ADMIN only.
KvUpdateAnyone(ro, isKv) == isKv
KvUpdate(ro, isKv) == IF IsAdmin(ro) THEN isKv ELSE Absent

InsertPost(r) ==
  LET dto == req[r].dto
  IN  /\ req[r].pc = "insertPost"
      /\ IF nextPost > MaxPost THEN UNCHANGED <<posts, nextPost>>
         ELSE /\ posts' = [posts EXCEPT ![nextPost] =
                             [author |-> req[r].user, start |-> dto.start, end |-> dto.end,
                              isKv |-> KvUpdate(req[r].role, dto.isKv) = TRUE]]
              /\ nextPost' = nextPost + 1
      /\ Answer(r)
      /\ UNCHANGED <<comments, nextComment, marks, nextMark, role, everAdmin>>

\* update: at least one field (of those here: a body with none of them changes nothing
\* that is modelled, whether it is refused or written), and the dates in order, those of the body where it has
\* them and otherwise those of the post as read.
Merged(x, stored) == IF x \in {Absent, Null} THEN stored ELSE x
UpdateAllowedUnchecked(post, ro, dto) ==
  dto.start # Absent \/ dto.end # Absent \/ KvUpdate(ro, dto.isKv) # Absent
UpdateAllowed(post, ro, dto) ==
  /\ dto.start # Absent \/ dto.end # Absent \/ KvUpdate(ro, dto.isKv) # Absent
  /\ DatesValid(Merged(dto.start, post.start), Merged(dto.end, post.end))

\* assertOwner
IsOwnerOrAdmin(author, r) == author = req[r].user \/ IsAdmin(req[r].role)
IsOwner(author, r) == author = req[r].user

\* The read at the start of updatePost, deletePost, createComment and toggle.
ReadPost(r) ==
  LET post == posts[req[r].id]
      op   == req[r].op
  IN  /\ req[r].pc = "readPost"
      /\ IF post = None THEN Answer(r)
         ELSE CASE op = "updatePost" ->
                     IF IsOwner(post.author, r) /\ UpdateAllowed(post, req[r].role, req[r].dto)
                     THEN Goto(r, "writePost") ELSE Answer(r)
                [] op = "deletePost" ->
                     IF IsOwner(post.author, r) THEN Goto(r, "erasePost") ELSE Answer(r)
                [] op = "createComment" -> Goto(r, "insertComment")
                [] op = "toggle" -> Goto(r, "readMark")
      /\ UNCHANGED <<tables, role, everAdmin>>

WritePost(r) ==
  LET p   == req[r].id
      dto == req[r].dto
      kv  == KvUpdate(req[r].role, dto.isKv)
  IN  /\ req[r].pc = "writePost"
      /\ posts' = IF posts[p] = None THEN posts ELSE
                  [posts EXCEPT ![p].start = IF dto.start = Absent THEN @ ELSE Epoch(dto.start),
                                ![p].end = IF dto.end = Absent THEN @ ELSE Epoch(dto.end),
                                ![p].isKv = IF kv = Absent THEN @ ELSE kv]
      \* Ghost: `ref' of an update says whether its post was written since it was read.
      /\ req' = [q \in Reqs |->
                   IF q = r THEN Idle
                   ELSE IF req[q].pc = "writePost" /\ req[q].id = p THEN [req[q] EXCEPT !.ref = 1]
                   ELSE req[q]]
      /\ UNCHANGED <<nextPost, comments, nextComment, marks, nextMark, role, everAdmin>>

\* The comments and bookmarks of a post go with it (onDelete: Cascade).
ErasePostOnly(r) ==
  /\ req[r].pc = "erasePost"
  /\ posts' = [posts EXCEPT ![req[r].id] = None]
  /\ Answer(r)
  /\ UNCHANGED <<nextPost, comments, nextComment, marks, nextMark, role, everAdmin>>
ErasePost(r) ==
  LET p == req[r].id
  IN  /\ req[r].pc = "erasePost"
      /\ posts' = [posts EXCEPT ![p] = None]
      /\ comments' = [c \in CommentIds |->
           IF comments[c] # None /\ comments[c].post = p THEN None ELSE comments[c]]
      /\ marks' = [um \in Users \X PostIds |-> IF um[2] = p THEN 0 ELSE marks[um]]
      /\ Answer(r)
      /\ UNCHANGED <<nextPost, nextComment, nextMark, role, everAdmin>>

-----------------------------------------------------------------------------
(* Comments. *)

\* The insert fails on the foreign key when the post has gone since it was read.
InsertCommentUnchecked(r) ==
  /\ req[r].pc = "insertComment"
  /\ IF nextComment > MaxComment THEN UNCHANGED <<comments, nextComment>>
     ELSE /\ comments' = [comments EXCEPT ![nextComment] =
                            [author |-> req[r].user, post |-> req[r].id, text |-> FALSE]]
          /\ nextComment' = nextComment + 1
  /\ Answer(r)
  /\ UNCHANGED <<posts, nextPost, marks, nextMark, role, everAdmin>>
InsertComment(r) ==
  /\ req[r].pc = "insertComment"
  /\ IF posts[req[r].id] = None \/ nextComment > MaxComment
     THEN UNCHANGED <<comments, nextComment>>
     ELSE /\ comments' = [comments EXCEPT ![nextComment] =
                            [author |-> req[r].user, post |-> req[r].id, text |-> FALSE]]
          /\ nextComment' = nextComment + 1
  /\ Answer(r)
  /\ UNCHANGED <<posts, nextPost, marks, nextMark, role, everAdmin>>

ReadComment(r) ==
  /\ req[r].pc = "readComment"
  /\ IF comments[req[r].id] = None THEN Answer(r)
     ELSE GotoWith(r, "readRole", comments[req[r].id].author)
  /\ UNCHANGED <<tables, role, everAdmin>>

\* assertCommentOwner: an ADMIN may moderate.
IsCommentOwner(author, r) == author = req[r].user \/ IsAdmin(role[req[r].user])

\* getActorRole: the role is read once more.
ReadRole(r) ==
  /\ req[r].pc = "readRole"
  /\ IF IsCommentOwner(req[r].ref, r)
     THEN Goto(r, IF req[r].op = "updateComment" THEN "writeComment" ELSE "eraseComment")
     ELSE Answer(r)
  /\ UNCHANGED <<tables, role, everAdmin>>

\* A text is told apart only from the text before: a write flips it.
WriteComment(r) ==
  LET c == req[r].id
  IN  /\ req[r].pc = "writeComment"
      /\ comments' = IF comments[c] = None THEN comments
                     ELSE [comments EXCEPT ![c].text = ~@]
      /\ Answer(r)
      /\ UNCHANGED <<posts, nextPost, nextComment, marks, nextMark, role, everAdmin>>

EraseComment(r) ==
  /\ req[r].pc = "eraseComment"
  /\ comments' = [comments EXCEPT ![req[r].id] = None]
  /\ Answer(r)
  /\ UNCHANGED <<posts, nextPost, nextComment, marks, nextMark, role, everAdmin>>

-----------------------------------------------------------------------------
(* Bookmarks. *)

ReadMark(r) ==
  LET m == marks[<<req[r].user, req[r].id>>]
  IN  /\ req[r].pc = "readMark"
      /\ IF m = 0 THEN Goto(r, "insertMark") ELSE GotoWith(r, "eraseMark", m)
      /\ UNCHANGED <<tables, role, everAdmin>>

\* @@unique([userId, postId]) and the foreign key refuse the insert of a second bookmark
\* and of one on a post that has gone.
InsertMark(r) ==
  LET um == <<req[r].user, req[r].id>>
  IN  /\ req[r].pc = "insertMark"
      /\ IF marks[um] # 0 \/ posts[req[r].id] = None \/ nextMark > MaxMark
         THEN UNCHANGED <<marks, nextMark>>
         ELSE marks' = [marks EXCEPT ![um] = nextMark] /\ nextMark' = nextMark + 1
      /\ Answer(r)
      /\ UNCHANGED <<posts, nextPost, comments, nextComment, role, everAdmin>>

\* The bookmark is deleted by the id that was read.
EraseMarkByKey(r) ==
  /\ req[r].pc = "eraseMark"
  /\ marks' = [marks EXCEPT ![<<req[r].user, req[r].id>>] = 0]
  /\ Answer(r)
  /\ UNCHANGED <<posts, nextPost, comments, nextComment, nextMark, role, everAdmin>>
EraseMark(r) ==
  /\ req[r].pc = "eraseMark"
  /\ marks' = [um \in Users \X PostIds |-> IF marks[um] = req[r].ref THEN 0 ELSE marks[um]]
  /\ Answer(r)
  /\ UNCHANGED <<posts, nextPost, comments, nextComment, nextMark, role, everAdmin>>

-----------------------------------------------------------------------------

\* A database call fails without effect.
DbError(r) == ~Free(r) /\ Answer(r) /\ UNCHANGED <<tables, role, everAdmin>>

\* Roles are changed by hand in the database: no endpoint does it.
ChangeRole(u, ro) == /\ role[u] # ro
                     /\ role' = [role EXCEPT ![u] = ro]
                     /\ everAdmin' = IF IsAdmin(ro) THEN everAdmin \cup {u} ELSE everAdmin
                     /\ UNCHANGED <<tables, req>>

Crash == /\ \E r \in Reqs : ~Free(r)
         /\ req' = [r \in Reqs |-> Idle]
         /\ UNCHANGED <<tables, role, everAdmin>>

Init == /\ role \in [Users -> Roles]
        /\ everAdmin = {u \in Users : IsAdmin(role[u])}
        /\ posts = [p \in PostIds |-> None] /\ nextPost = 1
        /\ comments = [c \in CommentIds |-> None] /\ nextComment = 1
        /\ marks = [um \in Users \X PostIds |-> 0] /\ nextMark = 1
        /\ req = [r \in Reqs |-> Idle]

Request(r) == \E u \in Users : \/ BeginCreatePost(r, u) \/ BeginUpdatePost(r, u)
                               \/ BeginOnPost(r, u) \/ BeginOnComment(r, u)

Proceed(r) == \/ InsertPost(r) \/ ReadPost(r) \/ WritePost(r) \/ ErasePost(r)
              \/ InsertComment(r) \/ ReadComment(r) \/ ReadRole(r)
              \/ WriteComment(r) \/ EraseComment(r)
              \/ ReadMark(r) \/ InsertMark(r) \/ EraseMark(r)
              \/ DbError(r)

Next == \/ \E r \in Reqs : Request(r) \/ Proceed(r)
        \/ \E u \in Users, ro \in Roles : ChangeRole(u, ro)
        \/ Crash

Spec == Init /\ [][Next]_vars

-----------------------------------------------------------------------------
(* Properties. *)

TypeOK == /\ role \in [Users -> Roles] /\ everAdmin \subseteq Users
          /\ posts \in [PostIds -> Post \cup {None}] /\ nextPost \in 1..(MaxPost + 1)
          /\ comments \in [CommentIds -> Comment \cup {None}]
          /\ nextComment \in 1..(MaxComment + 1)
          /\ marks \in [Users \X PostIds -> 0..MaxMark] /\ nextMark \in 1..(MaxMark + 1)
          /\ \A r \in Reqs : req[r].user \in Users \cup {None}

\* No comment and no bookmark outlives its post, however its creation and the post's
\* deletion overlap (schema.prisma:101,114, comment.service.ts:37-43).
NoOrphans == /\ \A c \in CommentIds : comments[c] # None => posts[comments[c].post] # None
             /\ \A um \in Users \X PostIds : marks[um] # 0 => posts[um[2]] # None

\* A post on the main banner was put there by an ADMIN: its author was one at some time,
\* for only the author can edit a post and only an ADMIN's isKv counts
\* (post.service.ts:197,226-228).
KvPostsByAdmins == \A p \in PostIds : posts[p] # None /\ posts[p].isKv
                                        => posts[p].author \in everAdmin

\* `endDate must be greater than or equal to startDate' (post.service.ts:30), of every
\* stored post.
DatesInOrder == \A p \in PostIds : posts[p] # None => posts[p].start <= posts[p].end

\* An update leaves the dates in order when the post was not written since it was read and
\* its body has no null, however many of them overlap (post.service.ts:245-267).
DatesStayInOrder ==
  [][\A r \in Reqs :
       LET p == req[r].id
       IN  (/\ req[r].pc = "writePost" /\ req'[r].pc # "writePost"
            /\ req[r].ref = 0 /\ Null \notin {req[r].dto.start, req[r].dto.end})
             => (posts'[p] # posts[p] => posts'[p].start <= posts'[p].end)]_vars

\* Posts are changed and deleted by their author only, comments by their author, by an
\* ADMIN, or with their post (README.md:59,81-82), whoever else's requests run meanwhile.
OnlyOwnersChange ==
  [][/\ \A p \in PostIds : posts[p] # None /\ posts'[p] # posts[p] =>
          \E r \in Reqs : /\ req[r].pc \in {"writePost", "erasePost"} /\ req[r].id = p
                          /\ req[r].user = posts[p].author
     /\ \A c \in CommentIds :
          comments[c] # None /\ comments'[c] # comments[c] /\ posts'[comments[c].post] # None =>
            \E r \in Reqs : /\ req[r].pc \in {"writeComment", "eraseComment"} /\ req[r].id = c
                            /\ req[r].user \in {comments[c].author} \cup everAdmin]_vars

\* A toggle removes the bookmark it saw, never one made since
\* (bookmark.service.ts:13-18).
ToggleRemovesWhatItSaw ==
  [][\A um \in Users \X PostIds :
       marks[um] # 0 /\ marks'[um] = 0 /\ posts'[um[2]] # None =>
         \E r \in Reqs : /\ req[r].pc = "eraseMark" /\ req[r].user = um[1]
                         /\ req[r].ref = marks[um]]_vars
=============================================================================

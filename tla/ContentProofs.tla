--------------------------- MODULE ContentProofs ---------------------------
(***************************************************************************)
(* Proofs about Content, for any users, requests, roles, dates and bounds. *)
(***************************************************************************)
EXTENDS Content, TLAPS

Pcs == {"idle", "insertPost", "readPost", "writePost", "erasePost", "insertComment",
        "readComment", "readRole", "writeComment", "eraseComment",
        "readMark", "insertMark", "eraseMark"}

RequestRecord == [pc : Pcs, op : AllOps \cup {None}, user : Users \cup {None},
                  role : Roles \cup {None}, id : Nat, ref : Nat \cup Users,
                  dto : {NoDto} \cup CreateDtos \cup UpdateDtos]

-----------------------------------------------------------------------------
(* What a request knows: of itself, and of the rows it has read. *)

Shaped(q) ==
  /\ q.pc # "idle" => q.user \in Users /\ q.role \in Roles
  /\ q.pc = "insertPost" => q.dto \in CreateDtos
  /\ q.pc = "readPost" => /\ q.op \in {"updatePost", "deletePost", "createComment", "toggle"}
                          /\ q.op = "updatePost" => q.ref = 0 /\ q.dto \in UpdateDtos
  /\ q.pc = "writePost" => q.dto \in UpdateDtos
  /\ q.pc \in {"readPost", "writePost", "erasePost", "insertComment",
               "readMark", "insertMark", "eraseMark"} => q.id \in PostIds
  /\ q.pc \in {"readComment", "readRole", "writeComment", "eraseComment"} => q.id \in CommentIds

\* The role it was let in with.
RoleKnown(q) == q.pc # "idle" /\ IsAdmin(q.role) => q.user \in everAdmin

\* The post is the user's own, unless it has gone; its number is not given again.
PostKnown(q) ==
  q.pc \in {"writePost", "erasePost"} =>
    q.id < nextPost /\ (posts[q.id] # None => posts[q.id].author = q.user)

CommentKnown(q) ==
  /\ q.pc = "readRole" =>
       q.id < nextComment /\ (comments[q.id] # None => comments[q.id].author = q.ref)
  /\ q.pc \in {"writeComment", "eraseComment"} =>
       /\ q.id < nextComment
       /\ comments[q.id] # None => q.user \in {comments[q.id].author} \cup everAdmin

\* The bookmark is the user's, or has gone; its number is not given again.
MarkKnown(q) ==
  q.pc = "eraseMark" =>
    /\ q.ref \in 1..(nextMark - 1)
    /\ \A um \in Users \X PostIds : marks[um] = q.ref => um = <<q.user, q.id>>

Known(q) == Shaped(q) /\ RoleKnown(q) /\ PostKnown(q) /\ CommentKnown(q) /\ MarkKnown(q)

\* The dates of an update still go with those of its post, if that was not written since.
DatesKnown(q) ==
  q.pc = "writePost" /\ q.ref = 0 /\ posts[q.id] # None =>
    DatesValid(Merged(q.dto.start, posts[q.id].start), Merged(q.dto.end, posts[q.id].end))

-----------------------------------------------------------------------------
(* The inductive invariant. *)

Typed == TypeOK /\ req \in [Reqs -> RequestRecord]

\* Rows have been given their number.
Numbered == /\ \A p \in PostIds : posts[p] # None => p < nextPost
            /\ \A c \in CommentIds : comments[c] # None => c < nextComment
            /\ \A um \in Users \X PostIds : marks[um] < nextMark

\* A bookmark's id is its own.
MarksDiffer == \A um, vm \in Users \X PostIds : marks[um] = marks[vm] /\ marks[um] # 0 => um = vm

AdminsRecorded == \A u \in Users : IsAdmin(role[u]) => u \in everAdmin

RequestsKnow == \A r \in Reqs : Known(req[r])
UpdatesKnow  == \A r \in Reqs : DatesKnown(req[r])

IInv == /\ Typed /\ Numbered /\ MarksDiffer /\ AdminsRecorded
        /\ NoOrphans /\ KvPostsByAdmins /\ RequestsKnow /\ UpdatesKnow

-----------------------------------------------------------------------------
(* Requests. *)

LEMMA Fields ==
  ASSUME NEW q \in RequestRecord
  PROVE  /\ q.pc \in Pcs /\ q.op \in AllOps \cup {None} /\ q.user \in Users \cup {None}
         /\ q.role \in Roles \cup {None} /\ q.id \in Nat /\ q.ref \in Nat \cup Users
         /\ q.dto \in {NoDto} \cup CreateDtos \cup UpdateDtos
BY DEF RequestRecord

LEMMA IdleFact == /\ Idle \in RequestRecord /\ Idle.pc = "idle"
                  /\ Known(Idle) /\ (Known(Idle))'
<1>1. Idle \in RequestRecord /\ Idle.pc = "idle"
  BY DEF Idle, RequestRecord, Pcs
<1> QED
  BY <1>1 DEF Known, Shaped, RoleKnown, PostKnown, CommentKnown, MarkKnown

\* A request that moves on, and one that also notes what it read.
LEMMA AtPc ==
  ASSUME NEW q \in RequestRecord, NEW pc \in Pcs
  PROVE  /\ [q EXCEPT !.pc = pc] \in RequestRecord
         /\ [q EXCEPT !.pc = pc].pc = pc
         /\ [q EXCEPT !.pc = pc].op = q.op
         /\ [q EXCEPT !.pc = pc].user = q.user
         /\ [q EXCEPT !.pc = pc].role = q.role
         /\ [q EXCEPT !.pc = pc].id = q.id
         /\ [q EXCEPT !.pc = pc].ref = q.ref
         /\ [q EXCEPT !.pc = pc].dto = q.dto
<1>1. [q EXCEPT !.pc = pc] \in RequestRecord
  BY Zenon DEF RequestRecord
<1> QED
  BY <1>1 DEF RequestRecord

LEMMA Noting ==
  ASSUME NEW q \in RequestRecord, NEW x \in Nat \cup Users
  PROVE  /\ [q EXCEPT !.ref = x] \in RequestRecord
         /\ [q EXCEPT !.ref = x].pc = q.pc
         /\ [q EXCEPT !.ref = x].op = q.op
         /\ [q EXCEPT !.ref = x].user = q.user
         /\ [q EXCEPT !.ref = x].role = q.role
         /\ [q EXCEPT !.ref = x].id = q.id
         /\ [q EXCEPT !.ref = x].ref = x
         /\ [q EXCEPT !.ref = x].dto = q.dto
<1>1. [q EXCEPT !.ref = x] \in RequestRecord
  BY Zenon DEF RequestRecord
<1> QED
  BY <1>1 DEF RequestRecord

\* Same(p, q): the request q stands where p stood, but for the place in its handler and the
\* note it took.
Same(p, q) == /\ q.op = p.op /\ q.user = p.user /\ q.role = p.role
              /\ q.id = p.id /\ q.dto = p.dto

\* Others(r): no other request moves.
Others(r) == \A s \in Reqs \ {r} : req'[s] = req[s]

LEMMA GotoFact ==
  ASSUME req \in [Reqs -> RequestRecord], NEW r \in Reqs, NEW pc \in Pcs, Goto(r, pc)
  PROVE  /\ req' \in [Reqs -> RequestRecord] /\ Others(r)
         /\ Same(req[r], req'[r]) /\ req'[r].pc = pc /\ req'[r].ref = req[r].ref
<1>1. req' = [req EXCEPT ![r] = [req[r] EXCEPT !.pc = pc]]
  BY DEF Goto
<1>2. req[r] \in RequestRecord
  OBVIOUS
<1> DEFINE q == [req[r] EXCEPT !.pc = pc]
<1>3. q \in RequestRecord /\ Same(req[r], q) /\ q.pc = pc /\ q.ref = req[r].ref
  BY <1>2, AtPc DEF Same
<1> HIDE DEF q
<1>4. req'[r] = q /\ req' \in [Reqs -> RequestRecord] /\ Others(r)
  BY <1>1, <1>3 DEF Others, q
<1> QED
  BY <1>3, <1>4

LEMMA GotoWithFact ==
  ASSUME req \in [Reqs -> RequestRecord], NEW r \in Reqs, NEW pc \in Pcs,
         NEW x \in Nat \cup Users, GotoWith(r, pc, x)
  PROVE  /\ req' \in [Reqs -> RequestRecord] /\ Others(r)
         /\ Same(req[r], req'[r]) /\ req'[r].pc = pc /\ req'[r].ref = x
<1> DEFINE q == [req[r] EXCEPT !.pc = pc]
<1> DEFINE qq == [q EXCEPT !.ref = x]
<1>1. req' = [[req EXCEPT ![r] = q] EXCEPT ![r] = qq]
  BY DEF GotoWith
<1>2. req[r] \in RequestRecord
  OBVIOUS
<1>3. q \in RequestRecord /\ Same(req[r], q) /\ q.pc = pc
  BY <1>2, AtPc DEF Same
<1> HIDE DEF q
<1>4. qq \in RequestRecord /\ Same(q, qq) /\ qq.pc = pc /\ qq.ref = x
  BY <1>3, Noting DEF Same
<1> HIDE DEF qq
<1>5. req'[r] = qq /\ req' \in [Reqs -> RequestRecord] /\ Others(r)
  BY <1>1, <1>3, <1>4 DEF Others
<1> QED
  BY <1>3, <1>4, <1>5 DEF Same

LEMMA AnswerFact ==
  ASSUME req \in [Reqs -> RequestRecord], NEW r \in Reqs, Answer(r)
  PROVE  /\ req' \in [Reqs -> RequestRecord] /\ Others(r)
         /\ req'[r] = Idle
BY IdleFact DEF Answer, Others

-----------------------------------------------------------------------------
(* Rows come with a new number, keep their author and go. *)

Later ==
  /\ everAdmin \subseteq everAdmin'
  /\ nextPost <= nextPost' /\ nextComment <= nextComment' /\ nextMark <= nextMark'
  /\ \A p \in PostIds : p < nextPost /\ posts'[p] # None =>
       posts[p] # None /\ posts'[p].author = posts[p].author
  /\ \A c \in CommentIds : c < nextComment /\ comments'[c] # None =>
       comments[c] # None /\ comments'[c].author = comments[c].author
  /\ \A um \in Users \X PostIds : marks'[um] \in {0, nextMark, marks[um]}

\* Posts are not rewritten: every action but WritePost.
PostsStand == \A p \in PostIds : p < nextPost => posts'[p] \in {None, posts[p]}

LEMMA Ids == PostIds \subseteq Nat /\ CommentIds \subseteq Nat /\ None \notin Post /\ None \notin Comment
BY BoundsAssumption, NoneAssumption DEF PostIds, CommentIds

LEMMA Counters ==
  ASSUME TypeOK
  PROVE  /\ nextPost \in Nat /\ nextComment \in Nat /\ nextMark \in Nat
         /\ nextPost >= 1 /\ nextComment >= 1 /\ nextMark >= 1
         /\ \A um \in Users \X PostIds : marks[um] \in Nat
BY BoundsAssumption DEF TypeOK

\* What a request knows stays true while others write.
LEMMA KnownStays ==
  ASSUME TypeOK, TypeOK', Later, NEW q \in RequestRecord, Known(q)
  PROVE  Known(q)'
<1>1. /\ nextPost \in Nat /\ nextComment \in Nat /\ nextMark \in Nat
      /\ nextPost' \in Nat /\ nextComment' \in Nat /\ nextMark' \in Nat
      /\ \A um \in Users \X PostIds : marks[um] \in Nat
  BY BoundsAssumption DEF TypeOK
<1>2. Shaped(q) /\ q.id \in Nat
  BY Fields DEF Known
<1>3. Shaped(q)'
  BY <1>2 DEF Shaped
<1>4. RoleKnown(q)'
  BY DEF Later, Known, RoleKnown
<1>5. PostKnown(q)'
  <2> SUFFICES ASSUME q.pc \in {"writePost", "erasePost"}
               PROVE  q.id < nextPost' /\ (posts'[q.id] # None => posts'[q.id].author = q.user)
    BY DEF PostKnown
  <2>1. q.id \in PostIds /\ q.id < nextPost /\ (posts[q.id] # None => posts[q.id].author = q.user)
    BY <1>2 DEF Known, PostKnown, Shaped
  <2> QED
    BY <1>1, <1>2, <2>1 DEF Later
<1>6. CommentKnown(q)'
  <2> SUFFICES ASSUME q.pc \in {"readRole", "writeComment", "eraseComment"}
               PROVE  CommentKnown(q)'
    BY DEF CommentKnown
  <2>1. q.id \in CommentIds /\ q.id < nextComment
    BY <1>2 DEF Known, CommentKnown, Shaped
  <2>2. /\ q.id < nextComment'
        /\ comments'[q.id] # None =>
             comments[q.id] # None /\ comments'[q.id].author = comments[q.id].author
    BY <1>1, <1>2, <2>1 DEF Later
  <2> QED
    BY <2>2 DEF Known, CommentKnown, Later
<1>7. MarkKnown(q)'
  <2> SUFFICES ASSUME q.pc = "eraseMark"
               PROVE  /\ q.ref \in 1..(nextMark' - 1)
                      /\ \A um \in Users \X PostIds : marks'[um] = q.ref => um = <<q.user, q.id>>
    BY DEF MarkKnown
  <2>1. /\ q.ref \in 1..(nextMark - 1)
        /\ \A um \in Users \X PostIds : marks[um] = q.ref => um = <<q.user, q.id>>
    BY DEF Known, MarkKnown
  <2>2. nextMark <= nextMark' /\ \A um \in Users \X PostIds : marks'[um] \in {0, nextMark, marks[um]}
    BY DEF Later
  <2>3. q.ref \in Nat /\ q.ref # 0 /\ q.ref < nextMark
    BY <1>1, <2>1
  <2>4. q.ref \in 1..(nextMark' - 1)
    BY <1>1, <2>1, <2>2
  <2>5. ASSUME NEW um \in Users \X PostIds, marks'[um] = q.ref
        PROVE  um = <<q.user, q.id>>
    <3>1. marks'[um] \in {0, nextMark, marks[um]}
      BY <2>2
    <3>2. marks[um] = q.ref
      BY <1>1, <2>3, <2>5, <3>1
    <3> QED
      BY <2>1, <3>2
  <2> QED
    BY <2>4, <2>5
<1> QED
  BY <1>3, <1>4, <1>5, <1>6, <1>7 DEF Known

LEMMA DatesStay ==
  ASSUME PostsStand, NEW q \in RequestRecord, Known(q), DatesKnown(q)
  PROVE  DatesKnown(q)'
<1> SUFFICES ASSUME q.pc = "writePost", q.ref = 0, posts'[q.id] # None
             PROVE  DatesValid(Merged(q.dto.start, posts'[q.id].start),
                               Merged(q.dto.end, posts'[q.id].end))
  BY DEF DatesKnown
<1>1. q.id \in PostIds /\ q.id < nextPost
  BY DEF Known, Shaped, PostKnown
<1>2. posts'[q.id] = posts[q.id]
  BY <1>1 DEF PostsStand
<1> QED
  BY <1>2 DEF DatesKnown

\* One request moves, and knows what it should.
LEMMA RequestsStay ==
  ASSUME IInv, TypeOK', Later, PostsStand, NEW r \in Reqs,
         req' \in [Reqs -> RequestRecord], Others(r), Known(req[r])', DatesKnown(req[r])'
  PROVE  Typed' /\ RequestsKnow' /\ UpdatesKnow'
<1>1. ASSUME NEW s \in Reqs, s # r
      PROVE  Known(req[s])' /\ DatesKnown(req[s])'
  <2>1. PICK q \in RequestRecord : q = req[s] /\ q = req'[s]
    BY <1>1 DEF Others, IInv, Typed
  <2>2. Known(q) /\ DatesKnown(q)
    BY <2>1 DEF IInv, RequestsKnow, UpdatesKnow
  <2>3. Known(q)' /\ DatesKnown(q)'
    BY <2>2, KnownStays, DatesStay DEF IInv, Typed
  <2> QED
    BY <2>1, <2>3
<1>2. ASSUME NEW s \in Reqs
      PROVE  Known(req[s])' /\ DatesKnown(req[s])'
  BY <1>1
<1> QED
  BY <1>2 DEF Typed, RequestsKnow, UpdatesKnow

-----------------------------------------------------------------------------
(* Steps that only read. *)

Reads == UNCHANGED <<tables, role, everAdmin>>

LEMMA ReadsNext ==
  ASSUME IInv, Reads, NEW r \in Reqs, req' \in [Reqs -> RequestRecord], Others(r),
         NEW q \in RequestRecord, q = req'[r], Known(q), DatesKnown(q)
  PROVE  IInv'
<1>1. /\ UNCHANGED <<posts, nextPost, comments, nextComment, marks, nextMark>>
      /\ UNCHANGED <<role, everAdmin>>
  BY DEF Reads, tables
<1>2. Known(q)' /\ DatesKnown(q)'
  BY <1>1 DEF Known, Shaped, RoleKnown, PostKnown, CommentKnown, MarkKnown, DatesKnown
<1>3. (\A s \in Reqs : req'[s].user \in Users \cup {None})
  BY DEF RequestRecord
<1>4. TypeOK'
  BY <1>1, <1>3 DEF IInv, Typed, TypeOK
<1>5. Later /\ PostsStand
  BY <1>1, Counters DEF IInv, Typed, Later, PostsStand
<1>6. Known(req[r])' /\ DatesKnown(req[r])'
  BY <1>2
<1>7. Typed' /\ RequestsKnow' /\ UpdatesKnow'
  BY <1>4, <1>5, <1>6, RequestsStay
<1>8. Numbered' /\ MarksDiffer' /\ AdminsRecorded' /\ NoOrphans' /\ KvPostsByAdmins'
  BY <1>1 DEF IInv, Numbered, MarksDiffer, AdminsRecorded, NoOrphans, KvPostsByAdmins
<1> QED
  BY <1>7, <1>8 DEF IInv

LEMMA AnswerNext ==
  ASSUME IInv, Reads, NEW r \in Reqs, Answer(r)
  PROVE  IInv'
<1>1. DatesKnown(Idle)
  BY IdleFact DEF DatesKnown
<1> QED
  BY <1>1, IdleFact, AnswerFact, ReadsNext DEF IInv, Typed

\* What a request that is let in carries.
LEMMA BeginNext ==
  ASSUME IInv, NEW r \in Reqs, NEW u \in Users, NEW op \in AllOps, NEW id \in Nat,
         NEW dto \in {NoDto} \cup CreateDtos \cup UpdateDtos, NEW pc \in Pcs,
         Begin(r, u, op, id, dto, pc),
         \/ pc = "insertPost" /\ dto \in CreateDtos
         \/ /\ pc = "readPost" /\ id \in PostIds
            /\ op \in {"updatePost", "deletePost", "createComment", "toggle"}
            /\ op = "updatePost" => dto \in UpdateDtos
         \/ pc = "readComment" /\ id \in CommentIds
  PROVE  IInv'
<1> DEFINE q == [pc |-> pc, op |-> op, user |-> u, role |-> role[u], id |-> id,
                 ref |-> 0, dto |-> dto]
<1>1. role[u] \in Roles
  BY DEF IInv, Typed, TypeOK
<1>2. q \in RequestRecord
  BY <1>1 DEF RequestRecord
<1>3. /\ q.pc = pc /\ q.op = op /\ q.user = u /\ q.role = role[u] /\ q.id = id
      /\ q.ref = 0 /\ q.dto = dto
  OBVIOUS
<1>4. req' = [req EXCEPT ![r] = q] /\ Reads
  BY DEF Begin, Reads
<1> HIDE DEF q
<1>5. Shaped(q)
  BY <1>1, <1>3 DEF Shaped
<1>6. RoleKnown(q)
  BY <1>3 DEF RoleKnown, IInv, AdminsRecorded
<1>7. PostKnown(q) /\ CommentKnown(q) /\ MarkKnown(q) /\ DatesKnown(q)
  BY <1>3 DEF PostKnown, CommentKnown, MarkKnown, DatesKnown
<1>8. req' \in [Reqs -> RequestRecord] /\ Others(r) /\ req'[r] = q
  BY <1>2, <1>4 DEF IInv, Typed, Others
<1> QED
  BY <1>2, <1>4, <1>5, <1>6, <1>7, <1>8, ReadsNext DEF Known

LEMMA RequestNext ==
  ASSUME IInv, NEW r \in Reqs, Request(r)
  PROVE  IInv'
<1>0. PICK u \in Users : \/ BeginCreatePost(r, u) \/ BeginUpdatePost(r, u)
                         \/ BeginOnPost(r, u) \/ BeginOnComment(r, u)
  BY DEF Request
<1>1. CASE BeginCreatePost(r, u)
  BY <1>1, BeginNext DEF BeginCreatePost, AllOps, Pcs
<1>2. CASE BeginUpdatePost(r, u)
  BY <1>2, BeginNext, Ids DEF BeginUpdatePost, AllOps, Pcs
<1>3. CASE BeginOnPost(r, u)
  BY <1>3, BeginNext, Ids DEF BeginOnPost, AllOps, Pcs
<1>4. CASE BeginOnComment(r, u)
  BY <1>4, BeginNext, Ids DEF BeginOnComment, AllOps, Pcs
<1> QED
  BY <1>0, <1>1, <1>2, <1>3, <1>4

\* A request that goes on, knowing what it just read.
LEMMA GotoNext ==
  ASSUME IInv, Reads, NEW r \in Reqs, NEW pc \in Pcs, Goto(r, pc), req[r].pc # "idle",
         \A q \in RequestRecord : Same(req[r], q) /\ q.pc = pc /\ q.ref = req[r].ref
           => Shaped(q) /\ PostKnown(q) /\ CommentKnown(q) /\ MarkKnown(q) /\ DatesKnown(q)
  PROVE  IInv'
<1>1. PICK q \in RequestRecord : /\ q = req'[r] /\ Same(req[r], q) /\ q.pc = pc
                                 /\ q.ref = req[r].ref
  BY GotoFact DEF IInv, Typed
<1>2. RoleKnown(q)
  BY <1>1 DEF IInv, RequestsKnow, Known, RoleKnown, Same
<1>3. Known(q) /\ DatesKnown(q)
  BY <1>1, <1>2 DEF Known
<1> QED
  BY <1>1, <1>3, GotoFact, ReadsNext DEF IInv, Typed

LEMMA GotoWithNext ==
  ASSUME IInv, Reads, NEW r \in Reqs, NEW pc \in Pcs, NEW x \in Nat \cup Users,
         GotoWith(r, pc, x), req[r].pc # "idle",
         \A q \in RequestRecord : Same(req[r], q) /\ q.pc = pc /\ q.ref = x
           => Shaped(q) /\ PostKnown(q) /\ CommentKnown(q) /\ MarkKnown(q) /\ DatesKnown(q)
  PROVE  IInv'
<1>1. PICK q \in RequestRecord : q = req'[r] /\ Same(req[r], q) /\ q.pc = pc /\ q.ref = x
  BY GotoWithFact DEF IInv, Typed
<1>2. RoleKnown(q)
  BY <1>1 DEF IInv, RequestsKnow, Known, RoleKnown, Same
<1>3. Known(q) /\ DatesKnown(q)
  BY <1>1, <1>2 DEF Known
<1> QED
  BY <1>1, <1>3, GotoWithFact, ReadsNext DEF IInv, Typed

LEMMA ReadPostNext ==
  ASSUME IInv, NEW r \in Reqs, ReadPost(r)
  PROVE  IInv'
<1> DEFINE post == posts[req[r].id]
<1> DEFINE op == req[r].op
<1>1. /\ req[r].pc = "readPost" /\ Reads
      /\ req[r].user \in Users /\ req[r].role \in Roles /\ req[r].id \in PostIds
      /\ op \in {"updatePost", "deletePost", "createComment", "toggle"}
      /\ op = "updatePost" => req[r].ref = 0 /\ req[r].dto \in UpdateDtos
  BY DEF ReadPost, Reads, IInv, RequestsKnow, Known, Shaped
<1>2. CASE Answer(r)
  BY <1>1, <1>2, AnswerNext
<1>3. post # None => req[r].id < nextPost
  BY <1>1 DEF IInv, Numbered
<1>4. CASE /\ op = "updatePost" /\ post # None /\ Goto(r, "writePost")
           /\ IsOwner(post.author, r) /\ UpdateAllowed(post, req[r].role, req[r].dto)
  <2>1. ASSUME NEW q \in RequestRecord, Same(req[r], q), q.pc = "writePost", q.ref = req[r].ref
        PROVE  Shaped(q) /\ PostKnown(q) /\ CommentKnown(q) /\ MarkKnown(q) /\ DatesKnown(q)
    <3>1. Shaped(q) /\ CommentKnown(q) /\ MarkKnown(q)
      BY <1>1, <1>4, <2>1 DEF Same, Shaped, CommentKnown, MarkKnown
    <3>2. PostKnown(q)
      BY <1>3, <1>4, <2>1 DEF Same, PostKnown, IsOwner
    <3>3. DatesKnown(q)
      BY <1>4, <2>1 DEF Same, DatesKnown, UpdateAllowed
    <3> QED
      BY <3>1, <3>2, <3>3
  <2> QED
    BY <1>1, <1>4, <2>1, GotoNext DEF Pcs
<1>5. CASE /\ op = "deletePost" /\ post # None /\ Goto(r, "erasePost")
           /\ IsOwner(post.author, r)
  <2>1. ASSUME NEW q \in RequestRecord, Same(req[r], q), q.pc = "erasePost", q.ref = req[r].ref
        PROVE  Shaped(q) /\ PostKnown(q) /\ CommentKnown(q) /\ MarkKnown(q) /\ DatesKnown(q)
    <3>1. Shaped(q) /\ CommentKnown(q) /\ MarkKnown(q) /\ DatesKnown(q)
      BY <1>1, <2>1 DEF Same, Shaped, CommentKnown, MarkKnown, DatesKnown
    <3>2. PostKnown(q)
      BY <1>3, <1>5, <2>1 DEF Same, PostKnown, IsOwner
    <3> QED
      BY <3>1, <3>2
  <2> QED
    BY <1>1, <1>5, <2>1, GotoNext DEF Pcs
<1>6. ASSUME NEW pc \in {"insertComment", "readMark"}, Goto(r, pc)
      PROVE  IInv'
  <2>1. ASSUME NEW q \in RequestRecord, Same(req[r], q), q.pc = pc, q.ref = req[r].ref
        PROVE  Shaped(q) /\ PostKnown(q) /\ CommentKnown(q) /\ MarkKnown(q) /\ DatesKnown(q)
    BY <1>1, <2>1 DEF Same, Shaped, PostKnown, CommentKnown, MarkKnown, DatesKnown
  <2> QED
    BY <1>1, <1>6, <2>1, GotoNext DEF Pcs
<1>7. \/ Answer(r)
      \/ /\ op = "updatePost" /\ post # None /\ Goto(r, "writePost")
         /\ IsOwner(post.author, r) /\ UpdateAllowed(post, req[r].role, req[r].dto)
      \/ /\ op = "deletePost" /\ post # None /\ Goto(r, "erasePost")
         /\ IsOwner(post.author, r)
      \/ Goto(r, "insertComment") \/ Goto(r, "readMark")
  BY <1>1 DEF ReadPost
<1> QED
  BY <1>2, <1>4, <1>5, <1>6, <1>7

LEMMA ReadCommentNext ==
  ASSUME IInv, NEW r \in Reqs, ReadComment(r)
  PROVE  IInv'
<1>1. /\ req[r].pc = "readComment" /\ Reads /\ req[r].id \in CommentIds
      /\ req[r].user \in Users /\ req[r].role \in Roles
  BY DEF ReadComment, Reads, IInv, RequestsKnow, Known, Shaped
<1>2. CASE comments[req[r].id] = None
  BY <1>1, <1>2, AnswerNext DEF ReadComment
<1>3. CASE comments[req[r].id] # None
  <2>0. comments[req[r].id].author \in Users /\ req[r].id < nextComment
    BY <1>1, <1>3 DEF IInv, Typed, TypeOK, Comment, Numbered
  <2>1. PICK author \in Users : author = comments[req[r].id].author
    BY <2>0
  <2>2. GotoWith(r, "readRole", author)
    BY <1>3, <2>1 DEF ReadComment
  <2>3. ASSUME NEW q \in RequestRecord, Same(req[r], q), q.pc = "readRole", q.ref = author
        PROVE  Shaped(q) /\ PostKnown(q) /\ CommentKnown(q) /\ MarkKnown(q) /\ DatesKnown(q)
    BY <1>1, <2>0, <2>1, <2>3 DEF Same, Shaped, PostKnown, CommentKnown, MarkKnown, DatesKnown
  <2>4. "readRole" \in Pcs /\ author \in Nat \cup Users /\ req[r].pc # "idle"
    BY <1>1 DEF Pcs
  <2> QED
    BY <1>1, <2>2, <2>3, <2>4, GotoWithNext
<1> QED
  BY <1>2, <1>3

LEMMA ReadRoleNext ==
  ASSUME IInv, NEW r \in Reqs, ReadRole(r)
  PROVE  IInv'
<1>1. /\ req[r].pc = "readRole" /\ Reads /\ req[r].id \in CommentIds
      /\ req[r].user \in Users /\ req[r].role \in Roles
      /\ req[r].id < nextComment
      /\ comments[req[r].id] # None => comments[req[r].id].author = req[r].ref
  BY DEF ReadRole, Reads, IInv, RequestsKnow, Known, Shaped, CommentKnown
<1>2. CASE ~IsCommentOwner(req[r].ref, r)
  BY <1>1, <1>2, AnswerNext DEF ReadRole
<1>3. CASE IsCommentOwner(req[r].ref, r)
  <2>1. PICK pc \in {"writeComment", "eraseComment"} : Goto(r, pc)
    BY <1>3 DEF ReadRole
  <2>2. req[r].user \in {req[r].ref} \cup everAdmin
    BY <1>1, <1>3 DEF IsCommentOwner, IInv, AdminsRecorded
  <2>3. ASSUME NEW q \in RequestRecord, Same(req[r], q), q.pc = pc, q.ref = req[r].ref
        PROVE  Shaped(q) /\ PostKnown(q) /\ CommentKnown(q) /\ MarkKnown(q) /\ DatesKnown(q)
    BY <1>1, <2>2, <2>3 DEF Same, Shaped, PostKnown, CommentKnown, MarkKnown, DatesKnown
  <2> QED
    BY <1>1, <2>1, <2>3, GotoNext DEF Pcs
<1> QED
  BY <1>2, <1>3

LEMMA ReadMarkNext ==
  ASSUME IInv, NEW r \in Reqs, ReadMark(r)
  PROVE  IInv'
<1>0. PICK um \in Users \X PostIds : um = <<req[r].user, req[r].id>>
  BY DEF ReadMark, IInv, RequestsKnow, Known, Shaped
<1>1. /\ req[r].pc = "readMark" /\ Reads /\ req[r].id \in PostIds
      /\ req[r].user \in Users /\ req[r].role \in Roles
  BY DEF ReadMark, Reads, IInv, RequestsKnow, Known, Shaped
<1>2. CASE marks[um] = 0
  <2>1. ASSUME NEW q \in RequestRecord, Same(req[r], q), q.pc = "insertMark", q.ref = req[r].ref
        PROVE  Shaped(q) /\ PostKnown(q) /\ CommentKnown(q) /\ MarkKnown(q) /\ DatesKnown(q)
    BY <1>1, <2>1 DEF Same, Shaped, PostKnown, CommentKnown, MarkKnown, DatesKnown
  <2>2. Goto(r, "insertMark")
    BY <1>0, <1>2 DEF ReadMark
  <2> QED
    BY <1>1, <2>1, <2>2, GotoNext DEF Pcs
<1>3. CASE marks[um] # 0
  <2>1. GotoWith(r, "eraseMark", marks[um])
    BY <1>0, <1>3 DEF ReadMark
  <2>2. marks[um] \in Nat /\ marks[um] < nextMark /\ nextMark \in Nat
    BY Counters DEF IInv, Typed, Numbered
  <2>3. \A vm \in Users \X PostIds : marks[vm] = marks[um] => vm = um
    BY <1>3 DEF IInv, MarksDiffer
  <2>4. ASSUME NEW q \in RequestRecord, Same(req[r], q), q.pc = "eraseMark", q.ref = marks[um]
        PROVE  Shaped(q) /\ PostKnown(q) /\ CommentKnown(q) /\ MarkKnown(q) /\ DatesKnown(q)
    <3>1. Shaped(q) /\ PostKnown(q) /\ CommentKnown(q) /\ DatesKnown(q)
      BY <1>1, <2>4 DEF Same, Shaped, PostKnown, CommentKnown, DatesKnown
    <3>2. MarkKnown(q)
      BY <1>0, <1>3, <2>2, <2>3, <2>4 DEF Same, MarkKnown
    <3> QED
      BY <3>1, <3>2
  <2> QED
    BY <1>1, <2>1, <2>2, <2>4, GotoWithNext DEF Pcs
<1> QED
  BY <1>2, <1>3

-----------------------------------------------------------------------------
(* Steps that write. *)

TablesTyped ==
  /\ role \in [Users -> Roles] /\ everAdmin \subseteq Users
  /\ posts \in [PostIds -> Post \cup {None}] /\ nextPost \in 1..(MaxPost + 1)
  /\ comments \in [CommentIds -> Comment \cup {None}]
  /\ nextComment \in 1..(MaxComment + 1)
  /\ marks \in [Users \X PostIds -> 0..MaxMark] /\ nextMark \in 1..(MaxMark + 1)

LEMMA TablesFact == TypeOK => TablesTyped
BY DEF TypeOK, TablesTyped

\* An answer, whatever was written before it.
LEMMA WrittenNext ==
  ASSUME IInv, TablesTyped', Later, PostsStand, NEW r \in Reqs, Answer(r)
  PROVE  Typed' /\ RequestsKnow' /\ UpdatesKnow'
<1>1. req' \in [Reqs -> RequestRecord] /\ Others(r) /\ req'[r] = Idle
  BY AnswerFact DEF IInv, Typed
<1>2. \A s \in Reqs : req'[s].user \in Users \cup {None}
  BY <1>1 DEF RequestRecord
<1>3. TypeOK'
  BY <1>2 DEF TablesTyped, TypeOK
<1>4. Known(req[r])' /\ DatesKnown(req[r])'
  BY <1>1, IdleFact DEF Known, Shaped, RoleKnown, PostKnown, CommentKnown, MarkKnown, DatesKnown
<1> QED
  BY <1>1, <1>3, <1>4, RequestsStay

LEMMA InsertPostNext ==
  ASSUME IInv, NEW r \in Reqs, InsertPost(r)
  PROVE  IInv'
<1>1. /\ req[r].pc = "insertPost" /\ Answer(r)
      /\ UNCHANGED <<comments, nextComment, marks, nextMark, role, everAdmin>>
  BY DEF InsertPost
<1>2. CASE nextPost > MaxPost
  <2>1. Reads
    BY <1>2 DEF InsertPost, Reads, tables
  <2> QED
    BY <1>1, <2>1, AnswerNext
<1>3. CASE ~(nextPost > MaxPost)
  <2> DEFINE new == [author |-> req[r].user, start |-> req[r].dto.start,
                     end |-> req[r].dto.end,
                     isKv |-> KvUpdate(req[r].role, req[r].dto.isKv) = TRUE]
  <2>0. TablesTyped /\ nextPost \in Nat /\ nextPost \in PostIds /\ nextPost \in 1..(MaxPost + 1)
    BY <1>3, TablesFact, BoundsAssumption DEF IInv, Typed, TablesTyped, PostIds
  <2>1. posts' = [posts EXCEPT ![nextPost] = new] /\ nextPost' = nextPost + 1
    BY <1>3 DEF InsertPost
  <2>2. req[r].user \in Users /\ req[r].dto \in CreateDtos /\ Shaped(req[r]) /\ RoleKnown(req[r])
    BY <1>1 DEF IInv, RequestsKnow, Known, Shaped
  <2>3. new \in Post
    BY <2>2, BoundsAssumption DEF CreateDtos, Post
  <2>4. new.author = req[r].user
    OBVIOUS
  <2>5. new.isKv => new.author \in everAdmin
    BY <1>1, <2>2, NoneAssumption DEF KvUpdate, RoleKnown
  <2> HIDE DEF new
  <2>6. /\ posts' \in [PostIds -> Post \cup {None}] /\ posts'[nextPost] = new
        /\ \A p \in PostIds \ {nextPost} : posts'[p] = posts[p]
    BY <2>0, <2>1, <2>3 DEF TablesTyped
  <2>7. nextPost' \in 1..(MaxPost + 1)
    BY <1>3, <2>0, <2>1, BoundsAssumption
  <2>8. TablesTyped'
    BY <1>1, <2>0, <2>6, <2>7 DEF TablesTyped
  <2>9. Later /\ PostsStand
    BY <1>1, <2>0, <2>1, <2>6, Counters, Ids DEF Later, PostsStand, IInv, Typed
  <2>10. Typed' /\ RequestsKnow' /\ UpdatesKnow'
    BY <1>1, <2>8, <2>9, WrittenNext
  <2>11. Numbered'
    BY <1>1, <2>0, <2>1, <2>6, Ids DEF IInv, Numbered
  <2>12. NoOrphans'
    <3>1. \A p \in PostIds : posts[p] # None => posts'[p] # None
      BY <2>3, <2>6, Ids
    <3>2. \A c \in CommentIds : comments[c] # None => comments[c].post \in PostIds
      BY <2>0 DEF TablesTyped, Comment, PostIds
    <3>3. \A um \in Users \X PostIds : um[2] \in PostIds
      OBVIOUS
    <3> QED
      BY <1>1, <3>1, <3>2, <3>3 DEF IInv, NoOrphans
  <2>13. KvPostsByAdmins'
    BY <1>1, <2>5, <2>6 DEF IInv, KvPostsByAdmins
  <2>14. MarksDiffer' /\ AdminsRecorded'
    BY <1>1 DEF IInv, MarksDiffer, AdminsRecorded
  <2> QED
    BY <2>10, <2>11, <2>12, <2>13, <2>14 DEF IInv
<1> QED
  BY <1>2, <1>3

LEMMA ErasePostNext ==
  ASSUME IInv, NEW r \in Reqs, ErasePost(r)
  PROVE  IInv'
<1> DEFINE p == req[r].id
<1>1. /\ req[r].pc = "erasePost" /\ Answer(r) /\ p \in PostIds
      /\ UNCHANGED <<nextPost, nextComment, nextMark, role, everAdmin>>
  BY DEF ErasePost, IInv, RequestsKnow, Known, Shaped
<1>2. /\ posts' = [posts EXCEPT ![p] = None]
      /\ comments' = [c \in CommentIds |->
           IF comments[c] # None /\ comments[c].post = p THEN None ELSE comments[c]]
      /\ marks' = [um \in Users \X PostIds |-> IF um[2] = p THEN 0 ELSE marks[um]]
  BY DEF ErasePost
<1> HIDE DEF p
<1>3. TablesTyped
  BY TablesFact DEF IInv, Typed
<1>4. /\ posts' \in [PostIds -> Post \cup {None}] /\ posts'[p] = None
      /\ \A o \in PostIds \ {p} : posts'[o] = posts[o]
  BY <1>1, <1>2, <1>3 DEF TablesTyped
<1>5. /\ comments' \in [CommentIds -> Comment \cup {None}]
      /\ \A c \in CommentIds : comments'[c] # None => comments'[c] = comments[c] /\ comments[c].post # p
  BY <1>2, <1>3 DEF TablesTyped
<1>6. /\ marks' \in [Users \X PostIds -> 0..MaxMark]
      /\ \A um \in Users \X PostIds : marks'[um] # 0 => marks'[um] = marks[um] /\ um[2] # p
  BY <1>2, <1>3, BoundsAssumption DEF TablesTyped
<1>7. TablesTyped'
  BY <1>1, <1>3, <1>4, <1>5, <1>6 DEF TablesTyped
<1>8. Later /\ PostsStand
  BY <1>1, <1>4, <1>5, <1>6, Counters DEF Later, PostsStand, IInv, Typed
<1>9. Typed' /\ RequestsKnow' /\ UpdatesKnow'
  BY <1>1, <1>7, <1>8, WrittenNext
<1>10. Numbered'
  <2>1. \A um \in Users \X PostIds : marks[um] < nextMark /\ 0 < nextMark
    BY Counters DEF IInv, Typed, Numbered
  <2> QED
    BY <1>1, <1>4, <1>5, <1>6, <2>1 DEF IInv, Numbered
<1>11. NoOrphans'
  <2>1. \A c \in CommentIds : comments'[c] # None => posts'[comments'[c].post] # None
    BY <1>3, <1>4, <1>5 DEF IInv, NoOrphans, TablesTyped, Comment, PostIds
  <2>2. \A um \in Users \X PostIds : marks'[um] # 0 => posts'[um[2]] # None
    BY <1>4, <1>6 DEF IInv, NoOrphans
  <2> QED
    BY <2>1, <2>2 DEF NoOrphans
<1>12. KvPostsByAdmins' /\ MarksDiffer' /\ AdminsRecorded'
  BY <1>1, <1>4, <1>6 DEF IInv, KvPostsByAdmins, MarksDiffer, AdminsRecorded
<1> QED
  BY <1>9, <1>10, <1>11, <1>12 DEF IInv

\* A step that leaves the posts and the bookmarks alone.
LEMMA CommentsNext ==
  ASSUME IInv, NEW r \in Reqs, Answer(r),
         UNCHANGED <<posts, nextPost, marks, nextMark, role, everAdmin>>,
         comments' \in [CommentIds -> Comment \cup {None}],
         nextComment' \in 1..(MaxComment + 1), nextComment <= nextComment',
         \A c \in CommentIds : comments'[c] # None =>
           \/ /\ comments[c] # None /\ comments'[c].author = comments[c].author
              /\ comments'[c].post = comments[c].post
           \/ c = nextComment /\ c < nextComment' /\ posts[comments'[c].post] # None
  PROVE  IInv'
<1>1. TablesTyped'
  BY TablesFact DEF IInv, Typed, TablesTyped
<1>2. Later /\ PostsStand
  BY Counters DEF Later, PostsStand, IInv, Typed
<1>3. Typed' /\ RequestsKnow' /\ UpdatesKnow'
  BY <1>1, <1>2, WrittenNext
<1>4. \A c \in CommentIds : comments'[c] # None => c < nextComment'
  <2>1. nextComment' \in Nat /\ nextComment \in Nat /\ CommentIds \subseteq Nat
    BY Counters, Ids, BoundsAssumption DEF IInv, Typed
  <2> QED
    BY <2>1 DEF IInv, Numbered
<1>5. Numbered'
  BY <1>4 DEF IInv, Numbered
<1>6. NoOrphans'
  BY DEF IInv, NoOrphans
<1>7. KvPostsByAdmins' /\ MarksDiffer' /\ AdminsRecorded'
  BY DEF IInv, KvPostsByAdmins, MarksDiffer, AdminsRecorded
<1> QED
  BY <1>3, <1>5, <1>6, <1>7 DEF IInv

LEMMA InsertCommentNext ==
  ASSUME IInv, NEW r \in Reqs, InsertComment(r)
  PROVE  IInv'
<1>1. /\ req[r].pc = "insertComment" /\ Answer(r) /\ req[r].id \in PostIds
      /\ req[r].user \in Users
      /\ UNCHANGED <<posts, nextPost, marks, nextMark, role, everAdmin>>
  BY DEF InsertComment, IInv, RequestsKnow, Known, Shaped
<1>2. CASE posts[req[r].id] = None \/ nextComment > MaxComment
  <2>1. Reads
    BY <1>2 DEF InsertComment, Reads, tables
  <2> QED
    BY <1>1, <2>1, AnswerNext
<1>3. CASE ~(posts[req[r].id] = None \/ nextComment > MaxComment)
  <2> DEFINE new == [author |-> req[r].user, post |-> req[r].id, text |-> FALSE]
  <2>0. TablesTyped /\ nextComment \in Nat /\ nextComment \in CommentIds
    BY <1>3, TablesFact, BoundsAssumption DEF IInv, Typed, TablesTyped, CommentIds
  <2>1. comments' = [comments EXCEPT ![nextComment] = new] /\ nextComment' = nextComment + 1
    BY <1>3 DEF InsertComment
  <2>2. new \in Comment /\ new.post = req[r].id
    BY <1>1 DEF Comment, PostIds
  <2> HIDE DEF new
  <2>3. /\ comments' \in [CommentIds -> Comment \cup {None}]
        /\ comments'[nextComment] = new
        /\ \A c \in CommentIds \ {nextComment} : comments'[c] = comments[c]
    BY <2>0, <2>1, <2>2 DEF TablesTyped
  <2>4. /\ nextComment' \in 1..(MaxComment + 1)
        /\ nextComment <= nextComment' /\ nextComment < nextComment'
    BY <1>3, <2>0, <2>1, BoundsAssumption DEF TablesTyped
  <2>5. posts[new.post] # None
    BY <1>3, <2>2
  <2> QED
    BY <1>1, <2>3, <2>4, <2>5, CommentsNext
<1> QED
  BY <1>2, <1>3

LEMMA WriteCommentNext ==
  ASSUME IInv, NEW r \in Reqs, WriteComment(r)
  PROVE  IInv'
<1>0. PICK c \in CommentIds : c = req[r].id
  BY DEF WriteComment, IInv, RequestsKnow, Known, Shaped
<1>1. /\ Answer(r) /\ UNCHANGED <<posts, nextPost, nextComment, marks, nextMark, role, everAdmin>>
  BY DEF WriteComment
<1>2. TablesTyped /\ nextComment \in Nat
  BY TablesFact, Counters DEF IInv, Typed
<1>3. CASE comments[c] = None
  <2>1. Reads
    BY <1>0, <1>1, <1>3 DEF WriteComment, Reads, tables
  <2> QED
    BY <1>1, <2>1, AnswerNext
<1>4. CASE comments[c] # None
  <2>1. comments[c] \in Comment
    BY <1>2, <1>4 DEF TablesTyped
  <2> DEFINE new == [comments[c] EXCEPT !.text = ~comments[c].text]
  <2>2. comments' = [comments EXCEPT ![c] = new]
    BY <1>0, <1>4 DEF WriteComment
  <2>3. new \in Comment
    <3>1. (~comments[c].text) \in BOOLEAN
      OBVIOUS
    <3> QED
      BY <2>1, <3>1, Zenon DEF Comment
  <2>4. new.author = comments[c].author /\ new.post = comments[c].post
    BY <2>1 DEF Comment
  <2> HIDE DEF new
  <2>5. /\ comments' \in [CommentIds -> Comment \cup {None}] /\ comments'[c] = new
        /\ \A d \in CommentIds \ {c} : comments'[d] = comments[d]
    BY <1>2, <2>2, <2>3 DEF TablesTyped
  <2>6. \A d \in CommentIds : comments'[d] # None =>
           /\ comments[d] # None /\ comments'[d].author = comments[d].author
           /\ comments'[d].post = comments[d].post
    BY <1>4, <2>4, <2>5
  <2>7. nextComment' \in 1..(MaxComment + 1) /\ nextComment <= nextComment'
    BY <1>1, <1>2 DEF TablesTyped
  <2> QED
    BY <1>1, <2>5, <2>6, <2>7, CommentsNext
<1> QED
  BY <1>3, <1>4

LEMMA EraseCommentNext ==
  ASSUME IInv, NEW r \in Reqs, EraseComment(r)
  PROVE  IInv'
<1>0. PICK c \in CommentIds : c = req[r].id
  BY DEF EraseComment, IInv, RequestsKnow, Known, Shaped
<1>1. /\ Answer(r) /\ UNCHANGED <<posts, nextPost, nextComment, marks, nextMark, role, everAdmin>>
      /\ comments' = [comments EXCEPT ![c] = None]
  BY <1>0 DEF EraseComment
<1>2. TablesTyped /\ nextComment \in Nat
  BY TablesFact, Counters DEF IInv, Typed
<1>3. /\ comments' \in [CommentIds -> Comment \cup {None}] /\ comments'[c] = None
      /\ \A d \in CommentIds \ {c} : comments'[d] = comments[d]
  BY <1>1, <1>2 DEF TablesTyped
<1>4. nextComment' \in 1..(MaxComment + 1) /\ nextComment <= nextComment'
  BY <1>1, <1>2 DEF TablesTyped
<1> QED
  BY <1>1, <1>3, <1>4, CommentsNext

\* A step that leaves the posts and the comments alone.
LEMMA MarksNext ==
  ASSUME IInv, NEW r \in Reqs, Answer(r),
         UNCHANGED <<posts, nextPost, comments, nextComment, role, everAdmin>>,
         marks' \in [Users \X PostIds -> 0..MaxMark], nextMark' \in 1..(MaxMark + 1),
         nextMark <= nextMark',
         \A um \in Users \X PostIds :
           marks'[um] # 0 /\ marks'[um] # marks[um] =>
             marks'[um] = nextMark /\ nextMark < nextMark' /\ posts[um[2]] # None,
         \A um, vm \in Users \X PostIds :
           marks'[um] = nextMark /\ marks'[vm] = nextMark => um = vm
  PROVE  IInv'
<1>1. TablesTyped'
  BY TablesFact DEF IInv, Typed, TablesTyped
<1>2. Later /\ PostsStand
  BY Counters DEF Later, PostsStand, IInv, Typed
<1>3. Typed' /\ RequestsKnow' /\ UpdatesKnow'
  BY <1>1, <1>2, WrittenNext
<1>4. /\ nextMark \in Nat /\ nextMark' \in Nat /\ nextMark >= 1
      /\ \A um \in Users \X PostIds : marks'[um] \in Nat /\ marks[um] \in Nat /\ marks[um] < nextMark
  BY Counters, BoundsAssumption DEF IInv, Typed, Numbered
<1>5. \A um \in Users \X PostIds : marks'[um] < nextMark'
  BY <1>4
<1>6. Numbered'
  BY <1>5 DEF IInv, Numbered
<1>7. MarksDiffer'
  <2> SUFFICES ASSUME NEW um \in Users \X PostIds, NEW vm \in Users \X PostIds,
                      marks'[um] = marks'[vm], marks'[um] # 0
               PROVE  um = vm
    BY DEF MarksDiffer
  <2>1. CASE marks'[um] = nextMark
    BY <2>1
  <2>2. CASE marks'[um] # nextMark
    <3>1. marks'[um] = marks[um] /\ marks'[vm] = marks[vm]
      BY <2>2
    <3> QED
      BY <3>1 DEF IInv, MarksDiffer
  <2> QED
    BY <2>1, <2>2
<1>8. NoOrphans'
  BY DEF IInv, NoOrphans
<1>9. KvPostsByAdmins' /\ AdminsRecorded'
  BY DEF IInv, KvPostsByAdmins, AdminsRecorded
<1> QED
  BY <1>3, <1>6, <1>7, <1>8, <1>9 DEF IInv

LEMMA InsertMarkNext ==
  ASSUME IInv, NEW r \in Reqs, InsertMark(r)
  PROVE  IInv'
<1>0. PICK um \in Users \X PostIds : um = <<req[r].user, req[r].id>> /\ um[2] = req[r].id
  BY DEF InsertMark, IInv, RequestsKnow, Known, Shaped
<1>1. /\ Answer(r) /\ UNCHANGED <<posts, nextPost, comments, nextComment, role, everAdmin>>
  BY DEF InsertMark
<1>2. TablesTyped /\ nextMark \in Nat /\ nextMark >= 1
  BY TablesFact, Counters DEF IInv, Typed
<1>3. CASE marks[um] # 0 \/ posts[um[2]] = None \/ nextMark > MaxMark
  <2>1. Reads
    BY <1>0, <1>1, <1>3 DEF InsertMark, Reads, tables
  <2> QED
    BY <1>1, <2>1, AnswerNext
<1>4. CASE ~(marks[um] # 0 \/ posts[um[2]] = None \/ nextMark > MaxMark)
  <2>1. marks' = [marks EXCEPT ![um] = nextMark] /\ nextMark' = nextMark + 1
    BY <1>0, <1>4 DEF InsertMark
  <2>2. nextMark \in 0..MaxMark /\ nextMark' \in 1..(MaxMark + 1) /\ nextMark < nextMark'
    BY <1>2, <1>4, <2>1, BoundsAssumption
  <2>3. /\ marks' \in [Users \X PostIds -> 0..MaxMark] /\ marks'[um] = nextMark
        /\ \A vm \in Users \X PostIds : vm # um => marks'[vm] = marks[vm]
    BY <1>2, <2>1, <2>2 DEF TablesTyped
  <2>4. \A vm \in Users \X PostIds : marks[vm] # nextMark
    BY <1>2, Counters DEF IInv, Typed, Numbered
  <2>5. \A vm, wm \in Users \X PostIds :
           marks'[vm] = nextMark /\ marks'[wm] = nextMark => vm = wm
    BY <2>3, <2>4
  <2>6. \A vm \in Users \X PostIds :
           marks'[vm] # 0 /\ marks'[vm] # marks[vm] =>
             marks'[vm] = nextMark /\ nextMark < nextMark' /\ posts[vm[2]] # None
    BY <1>4, <2>2, <2>3
  <2>7. nextMark <= nextMark'
    BY <1>2, <2>1
  <2> QED
    BY <1>1, <2>2, <2>3, <2>5, <2>6, <2>7, MarksNext
<1> QED
  BY <1>0, <1>3, <1>4

LEMMA EraseMarkNext ==
  ASSUME IInv, NEW r \in Reqs, EraseMark(r)
  PROVE  IInv'
<1>1. /\ Answer(r)
      /\ UNCHANGED <<posts, nextPost, comments, nextComment, nextMark, role, everAdmin>>
      /\ marks' = [um \in Users \X PostIds |-> IF marks[um] = req[r].ref THEN 0 ELSE marks[um]]
  BY DEF EraseMark
<1>2. TablesTyped /\ nextMark \in Nat
  BY TablesFact, Counters DEF IInv, Typed
<1>3. 0 \in 0..MaxMark
  BY BoundsAssumption
<1>4. /\ marks' \in [Users \X PostIds -> 0..MaxMark]
      /\ \A um \in Users \X PostIds : marks'[um] \in {0, marks[um]}
  BY <1>1, <1>2, <1>3 DEF TablesTyped
<1>5. \A um \in Users \X PostIds : marks'[um] # nextMark
  <2>1. \A um \in Users \X PostIds : marks[um] \in Nat /\ marks[um] < nextMark /\ nextMark >= 1
    BY Counters DEF IInv, Typed, Numbered
  <2> QED
    BY <1>2, <1>4, <2>1
<1>6. nextMark' \in 1..(MaxMark + 1) /\ nextMark <= nextMark'
  BY <1>1, <1>2 DEF TablesTyped
<1>7. \A um \in Users \X PostIds : ~(marks'[um] # 0 /\ marks'[um] # marks[um])
  BY <1>4
<1> QED
  BY <1>1, <1>4, <1>5, <1>6, <1>7, MarksNext

-----------------------------------------------------------------------------
(* An update writes over what has been written since it read. *)

\* Three fields of one row, one after the other.
LEMMA RowWritten ==
  ASSUME NEW f, NEW p \in DOMAIN f, NEW s, NEW e, NEW k,
         NEW g, g = [f EXCEPT ![p].start = s, ![p].end = e, ![p].isKv = k]
  PROVE  /\ g[p] = [[[f[p] EXCEPT !.start = s] EXCEPT !.end = e] EXCEPT !.isKv = k]
         /\ \A o \in DOMAIN f : o # p => g[o] = f[o]
         /\ g = [o \in DOMAIN f |-> g[o]]
OBVIOUS

\* What an update writes: the dates of the body where it has them, the KV flag of an ADMIN.
LEMMA WrittenPost ==
  ASSUME TablesTyped, NEW r \in Reqs, WritePost(r), NEW p \in PostIds, p = req[r].id,
         posts[p] # None, req[r].dto \in UpdateDtos
  PROVE  LET dto == req[r].dto
             kv  == KvUpdate(req[r].role, dto.isKv)
         IN  /\ posts' \in [PostIds -> Post \cup {None}] /\ posts'[p] \in Post
             /\ \A o \in PostIds \ {p} : posts'[o] = posts[o]
             /\ posts'[p].author = posts[p].author
             /\ posts'[p].start = IF dto.start = Absent THEN posts[p].start ELSE Epoch(dto.start)
             /\ posts'[p].end = IF dto.end = Absent THEN posts[p].end ELSE Epoch(dto.end)
             /\ posts'[p].isKv = IF kv = Absent THEN posts[p].isKv ELSE kv
<1> DEFINE dto == req[r].dto
<1> DEFINE kv == KvUpdate(req[r].role, dto.isKv)
<1>1. PICK x \in Post : x = posts[p] /\ x.start \in Nat /\ x.end \in Nat /\ x.isKv \in BOOLEAN
  BY DEF TablesTyped, Post
<1>2. /\ dto.start \in Days \cup {Absent, Null} /\ dto.end \in Days \cup {Absent, Null}
      /\ dto.isKv \in {TRUE, FALSE, Absent}
  BY DEF UpdateDtos, DateField
<1>3. PICK st \in Nat : st = IF dto.start = Absent THEN x.start ELSE Epoch(dto.start)
  BY <1>1, <1>2, BoundsAssumption DEF Epoch
<1>4. PICK en \in Nat : en = IF dto.end = Absent THEN x.end ELSE Epoch(dto.end)
  BY <1>1, <1>2, BoundsAssumption DEF Epoch
<1>5. PICK ik \in BOOLEAN : ik = IF kv = Absent THEN x.isKv ELSE kv
  BY <1>1, <1>2 DEF KvUpdate
<1>6. PICK a, b, y : /\ a = [x EXCEPT !.start = st]
                     /\ b = [a EXCEPT !.end = en]
                     /\ y = [b EXCEPT !.isKv = ik]
  OBVIOUS
<1>7. posts' = [posts EXCEPT ![p].start = st, ![p].end = en, ![p].isKv = ik]
  BY <1>1, <1>3, <1>4, <1>5 DEF WritePost
<1>8. posts \in [PostIds -> Post \cup {None}] /\ p \in DOMAIN posts
  BY DEF TablesTyped
<1>9. /\ posts'[p] = y /\ (\A o \in DOMAIN posts : o # p => posts'[o] = posts[o])
      /\ posts' = [o \in DOMAIN posts |-> posts'[o]]
  BY <1>1, <1>6, <1>7, <1>8, RowWritten
<1>10. /\ y \in Post /\ y.author = x.author
       /\ y.start = st /\ y.end = en /\ y.isKv = ik
  <2>1. a \in Post /\ b \in Post /\ y \in Post
    <3>1. a \in Post
      BY <1>6, Zenon DEF Post
    <3>2. b \in Post
      BY <1>6, <3>1, Zenon DEF Post
    <3> QED
      BY <1>6, <3>1, <3>2, Zenon DEF Post
  <2>2. a.author = x.author /\ a.start = st
    BY <1>6 DEF Post
  <2>3. b.author = x.author /\ b.start = st /\ b.end = en
    BY <1>6, <2>1, <2>2 DEF Post
  <2>4. y.author = x.author /\ y.start = st /\ y.end = en /\ y.isKv = ik
    BY <1>6, <2>1, <2>3 DEF Post
  <2> QED
    BY <2>1, <2>4
<1>11. /\ posts' \in [PostIds -> Post \cup {None}] /\ posts'[p] = y
       /\ \A o \in PostIds \ {p} : posts'[o] = posts[o]
  BY <1>8, <1>9, <1>10
<1> QED
  BY <1>1, <1>3, <1>4, <1>5, <1>10, <1>11

\* The requests after an update: its own is done, and those about to update the same post
\* note that it was written.
LEMMA Noticed ==
  ASSUME req \in [Reqs -> RequestRecord], NEW r \in Reqs, WritePost(r), NEW s \in Reqs, s # r
  PROVE  \/ /\ req'[s] = req[s]
            /\ ~(req[s].pc = "writePost" /\ req[s].id = req[r].id)
         \/ /\ req'[s] \in RequestRecord /\ Same(req[s], req'[s]) /\ req'[s].pc = req[s].pc
            /\ req'[s].ref = 1 /\ req[s].pc = "writePost"
<1>1. PICK q \in RequestRecord : q = req[s]
  OBVIOUS
<1>2. CASE q.pc = "writePost" /\ q.id = req[r].id
  <2>1. req'[s] = [q EXCEPT !.ref = 1]
    BY <1>1, <1>2 DEF WritePost
  <2> DEFINE n == [q EXCEPT !.ref = 1]
  <2>2. n \in RequestRecord /\ Same(q, n) /\ n.pc = q.pc /\ n.ref = 1
    BY Noting DEF Same
  <2> HIDE DEF n
  <2>3. req'[s] = n
    BY <2>1 DEF n
  <2> QED
    BY <1>1, <1>2, <2>2, <2>3
<1>3. CASE ~(q.pc = "writePost" /\ q.id = req[r].id)
  BY <1>1, <1>3 DEF WritePost
<1> QED
  BY <1>2, <1>3

LEMMA WritePostRequests ==
  ASSUME IInv, NEW r \in Reqs, WritePost(r), TablesTyped', Later,
         \A p \in PostIds : p # req[r].id => posts'[p] = posts[p]
  PROVE  Typed' /\ RequestsKnow' /\ UpdatesKnow'
<1>1. ASSUME NEW s \in Reqs
      PROVE  req'[s] \in RequestRecord
  BY <1>1, Noticed, IdleFact DEF WritePost, IInv, Typed
<1>2. req' \in [Reqs -> RequestRecord]
  <2>1. req' = [s \in Reqs |-> req'[s]]
    BY DEF WritePost
  <2> QED
    BY <1>1, <2>1
<1>3. TypeOK'
  <2>1. \A s \in Reqs : req'[s].user \in Users \cup {None}
    BY <1>2 DEF RequestRecord
  <2> QED
    BY <2>1 DEF TablesTyped, TypeOK
<1>4. ASSUME NEW s \in Reqs
      PROVE  Known(req[s])' /\ DatesKnown(req[s])'
  <2>1. PICK q \in RequestRecord : q = req[s] /\ Known(q) /\ DatesKnown(q)
    BY DEF IInv, Typed, RequestsKnow, UpdatesKnow
  <2>2. PICK n \in RequestRecord : n = req'[s]
    BY <1>2
  <2>3. CASE s = r
    <3>1. n = Idle
      BY <2>2, <2>3 DEF WritePost
    <3>2. Known(n)' /\ DatesKnown(n)'
      BY <3>1, IdleFact DEF Known, Shaped, RoleKnown, PostKnown, CommentKnown, MarkKnown, DatesKnown
    <3> QED
      BY <2>2, <3>2
  <2>4. CASE s # r /\ n = q /\ ~(q.pc = "writePost" /\ q.id = req[r].id)
    <3>1. Known(q)'
      BY <1>3, <2>1, KnownStays DEF IInv, Typed
    <3>2. DatesKnown(q)'
      <4>1. q.pc = "writePost" => q.id \in PostIds /\ posts'[q.id] = posts[q.id]
        BY <2>1, <2>4 DEF Known, Shaped
      <4> QED
        BY <2>1, <4>1 DEF DatesKnown
    <3> QED
      BY <2>2, <2>4, <3>1, <3>2
  <2>5. CASE /\ Same(q, n) /\ n.pc = q.pc /\ n.ref = 1 /\ q.pc = "writePost"
    <3>1. Known(n)
      BY <2>1, <2>5 DEF Same, Known, Shaped, RoleKnown, PostKnown, CommentKnown, MarkKnown
    <3>2. Known(n)'
      BY <1>3, <3>1, KnownStays DEF IInv, Typed
    <3>3. DatesKnown(n)'
      BY <2>5 DEF DatesKnown
    <3> QED
      BY <2>2, <3>2, <3>3
  <2> QED
    BY <2>1, <2>2, <2>3, <2>4, <2>5, Noticed DEF IInv, Typed
<1> QED
  BY <1>2, <1>3, <1>4 DEF Typed, RequestsKnow, UpdatesKnow

LEMMA WritePostNext ==
  ASSUME IInv, NEW r \in Reqs, WritePost(r)
  PROVE  IInv'
<1>0. PICK p \in PostIds : p = req[r].id
  BY DEF WritePost, IInv, RequestsKnow, Known, Shaped
<1>1. /\ req[r].pc = "writePost" /\ req[r].dto \in UpdateDtos
      /\ UNCHANGED <<nextPost, comments, nextComment, marks, nextMark, role, everAdmin>>
      /\ PostKnown(req[r]) /\ RoleKnown(req[r])
  BY DEF WritePost, IInv, RequestsKnow, Known, Shaped
<1>2. TablesTyped
  BY TablesFact DEF IInv, Typed
<1>3. /\ posts' \in [PostIds -> Post \cup {None}]
      /\ \A o \in PostIds \ {p} : posts'[o] = posts[o]
      /\ posts'[p] # None <=> posts[p] # None
      /\ posts[p] # None => /\ posts'[p].author = posts[p].author
                            /\ posts'[p].isKv => posts[p].isKv \/ IsAdmin(req[r].role)
  <2>1. CASE posts[p] = None
    <3>1. posts' = posts
      BY <1>0, <2>1 DEF WritePost
    <3> QED
      BY <1>2, <2>1, <3>1 DEF TablesTyped
  <2>2. CASE posts[p] # None
    <3> DEFINE kv == KvUpdate(req[r].role, req[r].dto.isKv)
    <3>1. /\ posts' \in [PostIds -> Post \cup {None}] /\ posts'[p] \in Post
          /\ \A o \in PostIds \ {p} : posts'[o] = posts[o]
          /\ posts'[p].author = posts[p].author
          /\ posts'[p].isKv = IF kv = Absent THEN posts[p].isKv ELSE kv
      BY <1>0, <1>1, <1>2, <2>2, WrittenPost
    <3>2. kv # Absent => IsAdmin(req[r].role)
      BY DEF KvUpdate
    <3>3. posts'[p].isKv => posts[p].isKv \/ IsAdmin(req[r].role)
      <4>1. CASE kv = Absent
        <5>1. posts'[p].isKv = posts[p].isKv
          BY <3>1, <4>1
        <5> QED
          BY <5>1
      <4>2. CASE kv # Absent
        BY <3>2, <4>2
      <4> QED
        BY <4>1, <4>2
    <3> QED
      BY <2>2, <3>1, <3>3, Ids
  <2> QED
    BY <2>1, <2>2
<1>4. TablesTyped'
  BY <1>1, <1>2, <1>3 DEF TablesTyped
<1>5. Later
  <2>1. \A o \in PostIds : posts'[o] # None => posts[o] # None /\ posts'[o].author = posts[o].author
    BY <1>3
  <2> QED
    BY <1>1, <2>1, Counters DEF Later, IInv, Typed
<1>6. Typed' /\ RequestsKnow' /\ UpdatesKnow'
  BY <1>0, <1>3, <1>4, <1>5, WritePostRequests
<1>7. Numbered'
  BY <1>1, <1>3 DEF IInv, Numbered
<1>8. NoOrphans'
  <2>1. \A o \in PostIds : posts[o] # None => posts'[o] # None
    BY <1>3
  <2>2. \A c \in CommentIds : comments[c] # None => comments[c].post \in PostIds
    BY <1>2 DEF TablesTyped, Comment, PostIds
  <2>3. \A um \in Users \X PostIds : um[2] \in PostIds
    OBVIOUS
  <2> QED
    BY <1>1, <2>1, <2>2, <2>3 DEF IInv, NoOrphans
<1>9. KvPostsByAdmins'
  <2> SUFFICES ASSUME NEW o \in PostIds, posts'[o] # None, posts'[o].isKv
               PROVE  posts'[o].author \in everAdmin
    BY <1>1 DEF KvPostsByAdmins
  <2>1. CASE o # p
    BY <1>3, <2>1 DEF IInv, KvPostsByAdmins
  <2>2. CASE o = p /\ posts[p].isKv
    BY <1>3, <2>2 DEF IInv, KvPostsByAdmins
  <2>3. CASE o = p /\ IsAdmin(req[r].role)
    <3>1. posts[p].author = req[r].user
      BY <1>0, <1>1, <1>3, <2>3 DEF PostKnown
    <3> QED
      BY <1>1, <1>3, <2>3, <3>1 DEF RoleKnown
  <2> QED
    BY <1>3, <2>1, <2>2, <2>3
<1>10. MarksDiffer' /\ AdminsRecorded'
  BY <1>1 DEF IInv, MarksDiffer, AdminsRecorded
<1> QED
  BY <1>6, <1>7, <1>8, <1>9, <1>10 DEF IInv

-----------------------------------------------------------------------------
(* The invariant. *)

LEMMA ChangeRoleNext ==
  ASSUME IInv, NEW u \in Users, NEW ro \in Roles, ChangeRole(u, ro)
  PROVE  IInv'
<1>1. /\ UNCHANGED <<posts, nextPost, comments, nextComment, marks, nextMark, req>>
      /\ role' = [role EXCEPT ![u] = ro]
      /\ everAdmin' = IF IsAdmin(ro) THEN everAdmin \cup {u} ELSE everAdmin
  BY DEF ChangeRole, tables
<1>2. TypeOK'
  BY <1>1 DEF IInv, Typed, TypeOK
<1>3. Later /\ PostsStand
  BY <1>1, Counters DEF IInv, Typed, Later, PostsStand
<1>4. ASSUME NEW s \in Reqs
      PROVE  Known(req[s])' /\ DatesKnown(req[s])'
  <2>1. PICK q \in RequestRecord : q = req[s] /\ q = req'[s] /\ Known(q) /\ DatesKnown(q)
    BY <1>1 DEF IInv, Typed, RequestsKnow, UpdatesKnow
  <2>2. Known(q)' /\ DatesKnown(q)'
    BY <1>2, <1>3, <2>1, KnownStays, DatesStay DEF IInv, Typed
  <2> QED
    BY <2>1, <2>2
<1>5. Typed' /\ RequestsKnow' /\ UpdatesKnow'
  BY <1>1, <1>2, <1>4 DEF IInv, Typed, RequestsKnow, UpdatesKnow
<1>6. AdminsRecorded'
  BY <1>1 DEF IInv, Typed, TypeOK, AdminsRecorded
<1>7. Numbered' /\ MarksDiffer' /\ NoOrphans' /\ KvPostsByAdmins'
  BY <1>1 DEF IInv, Numbered, MarksDiffer, NoOrphans, KvPostsByAdmins
<1> QED
  BY <1>5, <1>6, <1>7 DEF IInv

LEMMA CrashNext ==
  ASSUME IInv, Crash
  PROVE  IInv'
<1>1. /\ UNCHANGED <<posts, nextPost, comments, nextComment, marks, nextMark, role, everAdmin>>
      /\ req' = [r \in Reqs |-> Idle]
  BY DEF Crash, tables
<1>2. req' \in [Reqs -> RequestRecord] /\ \A r \in Reqs : req'[r] = Idle
  BY <1>1, IdleFact
<1>3. TypeOK'
  BY <1>1, <1>2 DEF IInv, Typed, TypeOK, Idle
<1>4. ASSUME NEW s \in Reqs
      PROVE  Known(req[s])' /\ DatesKnown(req[s])'
  BY <1>2, IdleFact DEF Known, Shaped, RoleKnown, PostKnown, CommentKnown, MarkKnown, DatesKnown
<1>5. Typed' /\ RequestsKnow' /\ UpdatesKnow'
  BY <1>2, <1>3, <1>4 DEF Typed, RequestsKnow, UpdatesKnow
<1>6. Numbered' /\ MarksDiffer' /\ AdminsRecorded' /\ NoOrphans' /\ KvPostsByAdmins'
  BY <1>1 DEF IInv, Numbered, MarksDiffer, AdminsRecorded, NoOrphans, KvPostsByAdmins
<1> QED
  BY <1>5, <1>6 DEF IInv

LEMMA InvInit == Init => IInv
<1> SUFFICES ASSUME Init PROVE IInv
  OBVIOUS
<1>1. TypeOK
  BY BoundsAssumption DEF Init, TypeOK, Idle
<1>2. req \in [Reqs -> RequestRecord] /\ \A r \in Reqs : req[r] = Idle
  BY IdleFact DEF Init
<1>3. RequestsKnow /\ UpdatesKnow
  BY <1>2, IdleFact DEF RequestsKnow, UpdatesKnow, DatesKnown
<1>4. Numbered /\ MarksDiffer /\ AdminsRecorded /\ NoOrphans /\ KvPostsByAdmins
  BY DEF Init, Numbered, MarksDiffer, AdminsRecorded, NoOrphans, KvPostsByAdmins
<1> QED
  BY <1>1, <1>2, <1>3, <1>4 DEF IInv, Typed

LEMMA InvNext == IInv /\ [Next]_vars => IInv'
<1> SUFFICES ASSUME IInv, [Next]_vars PROVE IInv'
  OBVIOUS
<1>1. CASE UNCHANGED vars
  BY <1>1 DEF vars, IInv, Typed, TypeOK, Numbered, MarksDiffer, AdminsRecorded, NoOrphans,
              KvPostsByAdmins, RequestsKnow, UpdatesKnow, Known, Shaped, RoleKnown, PostKnown,
              CommentKnown, MarkKnown, DatesKnown
<1>2. ASSUME NEW r \in Reqs, Request(r)
      PROVE  IInv'
  BY <1>2, RequestNext
<1>3. ASSUME NEW r \in Reqs, Proceed(r)
      PROVE  IInv'
  <2>1. CASE DbError(r)
    BY <2>1, AnswerNext DEF DbError, Reads
  <2> QED
    BY <1>3, <2>1, InsertPostNext, ReadPostNext, WritePostNext, ErasePostNext,
       InsertCommentNext, ReadCommentNext, ReadRoleNext, WriteCommentNext, EraseCommentNext,
       ReadMarkNext, InsertMarkNext, EraseMarkNext DEF Proceed
<1> QED
  BY <1>1, <1>2, <1>3, ChangeRoleNext, CrashNext DEF Next

-----------------------------------------------------------------------------
(* Theorems about the states. *)

\* What a request has read, its own role included, stays true of the rows it is going to
\* write, or they have gone (post.service.ts:197-267, comment.service.ts:60-114).
THEOREM Invariance == Spec => []IInv
BY InvInit, InvNext, PTL DEF Spec

\* Tables and requests always hold what their columns and fields can hold.
THEOREM TypeCorrect == Spec => []TypeOK
<1>1. IInv => TypeOK
  BY DEF IInv, Typed
<1> QED
  BY <1>1, Invariance, PTL

\* No comment and no bookmark outlives its post, however many requests make and delete them
\* side by side (schema.prisma:101,114).
THEOREM NothingOrphaned == Spec => []NoOrphans
<1>1. IInv => NoOrphans
  BY DEF IInv
<1> QED
  BY <1>1, Invariance, PTL

\* Whatever roles are given and taken while requests run, a post on the main banner is by a
\* user who has been ADMIN (post.service.ts:197,226-228).
THEOREM BannerIsTheAdmins == Spec => []KvPostsByAdmins
<1>1. IInv => KvPostsByAdmins
  BY DEF IInv
<1> QED
  BY <1>1, Invariance, PTL

-----------------------------------------------------------------------------
(* Theorems about the steps. *)

\* The steps that touch the rows.
Writer(r) == \/ InsertPost(r) \/ WritePost(r) \/ ErasePost(r)
             \/ InsertComment(r) \/ WriteComment(r) \/ EraseComment(r)
             \/ InsertMark(r) \/ EraseMark(r)

LEMMA WhoWrites ==
  ASSUME Next
  PROVE  UNCHANGED <<posts, comments, marks>> \/ \E r \in Reqs : Writer(r)
<1>1. ASSUME NEW r \in Reqs, Request(r)
      PROVE  UNCHANGED <<posts, comments, marks>>
  BY <1>1 DEF Request, BeginCreatePost, BeginUpdatePost, BeginOnPost, BeginOnComment, Begin, tables
<1>2. ASSUME NEW r \in Reqs, Proceed(r)
      PROVE  UNCHANGED <<posts, comments, marks>> \/ Writer(r)
  BY <1>2 DEF Proceed, Writer, ReadPost, ReadComment, ReadRole, ReadMark, DbError, tables
<1>3. ASSUME NEW u \in Users, NEW ro \in Roles, ChangeRole(u, ro)
      PROVE  UNCHANGED <<posts, comments, marks>>
  BY <1>3 DEF ChangeRole, tables
<1>4. CASE Crash
  BY <1>4 DEF Crash, tables
<1> QED
  BY <1>1, <1>2, <1>3, <1>4 DEF Next

\* Who changes or deletes a post wrote it; who changes or deletes a comment wrote it or has
\* been ADMIN, unless its post goes (post.service.ts:197, comment.service.ts:14-22).
PostOwned == \A p \in PostIds : posts[p] # None /\ posts'[p] # posts[p] =>
               \E r \in Reqs : /\ req[r].pc \in {"writePost", "erasePost"} /\ req[r].id = p
                               /\ req[r].user = posts[p].author
CommentOwned ==
  \A c \in CommentIds :
    comments[c] # None /\ comments'[c] # comments[c] /\ posts'[comments[c].post] # None =>
      \E r \in Reqs : /\ req[r].pc \in {"writeComment", "eraseComment"} /\ req[r].id = c
                      /\ req[r].user \in {comments[c].author} \cup everAdmin

LEMMA PostOwnedStep ==
  ASSUME IInv, NEW r \in Reqs, Writer(r)
  PROVE  PostOwned
<1> SUFFICES ASSUME NEW p \in PostIds, posts[p] # None, posts'[p] # posts[p]
             PROVE  /\ req[r].pc \in {"writePost", "erasePost"} /\ req[r].id = p
                    /\ req[r].user = posts[p].author
  BY DEF PostOwned
<1>1. p < nextPost /\ p # nextPost
  BY Ids, Counters DEF IInv, Typed, Numbered
<1>2. TablesTyped /\ req[r] \in RequestRecord
  BY TablesFact DEF IInv, Typed
<1>3. ~InsertPost(r)
  BY <1>1, <1>2 DEF InsertPost, TablesTyped
<1>4. (WritePost(r) \/ ErasePost(r)) /\ req[r].pc \in {"writePost", "erasePost"}
  BY <1>3 DEF Writer, WritePost, ErasePost, InsertComment, WriteComment, EraseComment,
              InsertMark, EraseMark
<1>5. PICK o \in PostIds : o = req[r].id /\ PostKnown(req[r])
  BY <1>4 DEF IInv, RequestsKnow, Known, Shaped
<1>6. o = p
  <2>1. CASE ErasePost(r)
    BY <1>2, <1>5, <2>1 DEF ErasePost, TablesTyped
  <2>2. CASE WritePost(r) /\ posts[o] = None
    BY <1>5, <2>2 DEF WritePost
  <2>3. CASE WritePost(r) /\ posts[o] # None
    <3>1. req[r].dto \in UpdateDtos
      BY <2>3 DEF WritePost, IInv, RequestsKnow, Known, Shaped
    <3>2. \A q \in PostIds \ {o} : posts'[q] = posts[q]
      BY <1>2, <1>5, <2>3, <3>1, WrittenPost
    <3> QED
      BY <3>2
  <2> QED
    BY <1>4, <2>1, <2>2, <2>3
<1> QED
  BY <1>4, <1>5, <1>6 DEF PostKnown

LEMMA CommentOwnedStep ==
  ASSUME IInv, NEW r \in Reqs, Writer(r)
  PROVE  CommentOwned
<1> SUFFICES ASSUME NEW c \in CommentIds, comments[c] # None, comments'[c] # comments[c],
                    posts'[comments[c].post] # None
             PROVE  /\ req[r].pc \in {"writeComment", "eraseComment"} /\ req[r].id = c
                    /\ req[r].user \in {comments[c].author} \cup everAdmin
  BY DEF CommentOwned
<1>1. c < nextComment /\ c # nextComment
  BY Ids, Counters DEF IInv, Typed, Numbered
<1>2. TablesTyped /\ req[r] \in RequestRecord
  BY TablesFact DEF IInv, Typed
<1>3. ~InsertComment(r)
  BY <1>1, <1>2 DEF InsertComment, TablesTyped
<1>4. ~ErasePost(r)
  <2>1. comments[c].post \in PostIds
    BY <1>2 DEF TablesTyped, Comment, PostIds
  <2> QED
    BY <1>2, <2>1 DEF ErasePost, TablesTyped
<1>5. /\ WriteComment(r) \/ EraseComment(r)
      /\ req[r].pc \in {"writeComment", "eraseComment"}
  BY <1>3, <1>4 DEF Writer, InsertPost, WritePost, WriteComment, EraseComment,
                    InsertMark, EraseMark
<1>6. PICK d \in CommentIds : d = req[r].id /\ CommentKnown(req[r])
  BY <1>5 DEF IInv, RequestsKnow, Known, Shaped
<1>7. \A e \in CommentIds \ {d} : comments'[e] = comments[e]
  BY <1>2, <1>5, <1>6 DEF WriteComment, EraseComment, TablesTyped
<1> QED
  BY <1>5, <1>6, <1>7 DEF CommentKnown

\* Posts are changed and deleted by their author only, comments by their author or an ADMIN,
\* whoever else's requests run meanwhile.
THEOREM OwnersOnly == Spec => OnlyOwnersChange
<1>1. IInv /\ [Next]_vars => [PostOwned /\ CommentOwned]_vars
  <2> SUFFICES ASSUME IInv, Next PROVE PostOwned /\ CommentOwned
    OBVIOUS
  <2>1. CASE UNCHANGED <<posts, comments, marks>>
    BY <2>1 DEF PostOwned, CommentOwned
  <2> QED
    BY <2>1, WhoWrites, PostOwnedStep, CommentOwnedStep
<1> QED
  BY <1>1, Invariance, PTL DEF Spec, OnlyOwnersChange, PostOwned, CommentOwned

\* The bookmark that goes is the one some toggle saw.
MarkSeen == \A um \in Users \X PostIds :
              marks[um] # 0 /\ marks'[um] = 0 /\ posts'[um[2]] # None =>
                \E r \in Reqs : /\ req[r].pc = "eraseMark" /\ req[r].user = um[1]
                                /\ req[r].ref = marks[um]

\* A toggle that finds a bookmark removes that one, never another made since
\* (bookmark.service.ts:13-18).
THEOREM TogglesRemoveTheirOwn == Spec => ToggleRemovesWhatItSaw
<1>1. ASSUME IInv, NEW r \in Reqs, Writer(r), NEW um \in Users \X PostIds,
             marks[um] # 0, marks'[um] = 0, posts'[um[2]] # None
      PROVE  req[r].pc = "eraseMark" /\ req[r].user = um[1] /\ req[r].ref = marks[um]
  <2>1. TablesTyped /\ nextMark \in Nat /\ nextMark >= 1
    BY <1>1, TablesFact, Counters DEF IInv, Typed
  <2>2. ~ErasePost(r)
    <3>1. um[2] \in PostIds
      BY <1>1
    <3> QED
      BY <1>1, <2>1, <3>1 DEF ErasePost, TablesTyped
  <2>3. ~InsertMark(r)
    BY <1>1, <2>1 DEF InsertMark, TablesTyped
  <2>4. EraseMark(r) /\ req[r].pc = "eraseMark"
    BY <1>1, <2>2, <2>3 DEF Writer, InsertPost, WritePost, InsertComment, WriteComment,
                            EraseComment, EraseMark
  <2>5. marks[um] = req[r].ref
    BY <1>1, <2>4 DEF EraseMark
  <2>6. um = <<req[r].user, req[r].id>>
    BY <1>1, <2>4, <2>5 DEF IInv, RequestsKnow, Known, MarkKnown
  <2> QED
    BY <2>4, <2>5, <2>6
<1>2. IInv /\ [Next]_vars => [MarkSeen]_vars
  <2> SUFFICES ASSUME IInv, Next PROVE MarkSeen
    OBVIOUS
  <2>1. CASE UNCHANGED <<posts, comments, marks>>
    BY <2>1 DEF MarkSeen
  <2> QED
    BY <1>1, <2>1, WhoWrites DEF MarkSeen
<1> QED
  BY <1>2, Invariance, PTL DEF Spec, ToggleRemovesWhatItSaw, MarkSeen

\* The update that finds its post as it read it, and has no null, leaves the dates in order.
LEMMA UpdateInOrder ==
  ASSUME IInv, NEW r \in Reqs, WritePost(r), req[r].ref = 0,
         Null \notin {req[r].dto.start, req[r].dto.end},
         posts[req[r].id] # None
  PROVE  posts'[req[r].id].start <= posts'[req[r].id].end
<1>1. PICK p \in PostIds : p = req[r].id
  BY DEF WritePost, IInv, RequestsKnow, Known, Shaped
<1>2. TablesTyped /\ req[r].pc = "writePost" /\ req[r].dto \in UpdateDtos
  BY TablesFact DEF WritePost, IInv, Typed, RequestsKnow, Known, Shaped
<1>3. PICK x \in Post : x = posts[p] /\ x.start \in Nat /\ x.end \in Nat
  BY <1>1, <1>2 DEF TablesTyped, Post
<1>4. PICK s, e : s = req[r].dto.start /\ e = req[r].dto.end
  OBVIOUS
<1>5. /\ posts'[p].start = IF s = Absent THEN x.start ELSE Epoch(s)
      /\ posts'[p].end = IF e = Absent THEN x.end ELSE Epoch(e)
  BY <1>1, <1>2, <1>3, <1>4, WrittenPost
<1>6. s # Null /\ e # Null
  BY <1>4
<1>7. posts'[p].start = Merged(s, x.start) /\ posts'[p].end = Merged(e, x.end)
  BY <1>5, <1>6 DEF Merged, Epoch
<1>8. ~(Merged(e, x.end) < Merged(s, x.start))
  BY <1>1, <1>2, <1>3, <1>4 DEF IInv, UpdatesKnow, DatesKnown, DatesValid
<1>9. posts'[p].start \in Nat /\ posts'[p].end \in Nat
  <2>1. s \in Days \cup {Absent} /\ e \in Days \cup {Absent}
    BY <1>2, <1>4, <1>6 DEF UpdateDtos, DateField
  <2> QED
    BY <1>3, <1>5, <1>6, <2>1, BoundsAssumption DEF Epoch
<1> QED
  BY <1>1, <1>7, <1>8, <1>9

\* Such updates, of the step at hand.
InOrder == \A r \in Reqs :
             LET p == req[r].id
             IN  (/\ req[r].pc = "writePost" /\ req'[r].pc # "writePost"
                  /\ req[r].ref = 0 /\ Null \notin {req[r].dto.start, req[r].dto.end})
                   => (posts'[p] # posts[p] => posts'[p].start <= posts'[p].end)

LEMMA InOrderStep ==
  ASSUME IInv, NEW s \in Reqs, Writer(s)
  PROVE  InOrder
<1> SUFFICES ASSUME NEW r \in Reqs, NEW p, p = req[r].id,
                    req[r].pc = "writePost", req'[r].pc # "writePost", req[r].ref = 0,
                    Null \notin {req[r].dto.start, req[r].dto.end}, posts'[p] # posts[p]
             PROVE  posts'[p].start <= posts'[p].end
  BY DEF InOrder
<1>1. p \in PostIds /\ p < nextPost /\ req \in [Reqs -> RequestRecord] /\ TablesTyped
  BY TablesFact DEF IInv, Typed, RequestsKnow, Known, Shaped, PostKnown
<1>2. p # nextPost
  BY <1>1, Ids, Counters DEF IInv, Typed
<1>3. ~InsertPost(s)
  BY <1>1, <1>2 DEF InsertPost, TablesTyped
<1>4. WritePost(s) \/ ErasePost(s)
  BY <1>3 DEF Writer, InsertComment, WriteComment, EraseComment, InsertMark, EraseMark
<1>5. s = r
  <2> SUFFICES ASSUME s # r PROVE FALSE
    OBVIOUS
  <2>1. CASE WritePost(s)
    BY <1>1, <2>1, Noticed
  <2>2. CASE ErasePost(s)
    BY <1>1, <2>2, AnswerFact DEF ErasePost, Others
  <2> QED
    BY <1>4, <2>1, <2>2
<1>6. WritePost(r)
  BY <1>4, <1>5 DEF ErasePost
<1>7. posts[p] # None
  BY <1>6 DEF WritePost
<1> QED
  BY <1>6, <1>7, UpdateInOrder

\* However many updates of a post overlap, the ones that find it as they read it, and have
\* no null, leave the dates in order (post.service.ts:245-267).
THEOREM UpdatesKeepOrder == Spec => DatesStayInOrder
<1>1. IInv /\ [Next]_vars => [InOrder]_vars
  <2> SUFFICES ASSUME IInv, Next PROVE InOrder
    OBVIOUS
  <2>1. CASE UNCHANGED <<posts, comments, marks>>
    BY <2>1 DEF InOrder
  <2> QED
    BY <2>1, WhoWrites, InOrderStep
<1> QED
  BY <1>1, Invariance, PTL DEF Spec, DatesStayInOrder, InOrder
=============================================================================

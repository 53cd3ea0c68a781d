-------------------------- MODULE AuthCodesProofs --------------------------
(***************************************************************************)
(* Proofs about AuthCodes, for any number of e-mails, codes, requests in   *)
(* flight, attempts and row ids.                                           *)
(***************************************************************************)
EXTENDS AuthCodes, TLAPS

\* What a request in flight carries, by the step it is at.
Flight(r) ==
  /\ ~Free(r) => req[r].email \in Emails /\ req[r].op \in AllOps
  /\ req[r].pc = "upsert" => req[r].op \in {"send", "forgot"}
  /\ req[r].pc = "count" => req[r].attempts + 1 < MaxAttempts
  /\ req[r].pc \in {"consume", "create", "find", "update"} => req[r].password \in Passwords
  /\ req[r].pc = "consume" => req[r].op \in {"register", "reset"}
  /\ req[r].pc = "create" => req[r].op = "register"
  /\ req[r].pc \in {"find", "update"} => req[r].op = "reset"

Typed == TypeOK /\ \A r \in Reqs : Flight(r)

Statuses == {0, 200, 201, 400, 404, 409, 410, 429, 500}

-----------------------------------------------------------------------------
(* What the three ways of changing a request do. *)

LEMMA AwaitFact ==
  ASSUME NEW r \in Reqs, req \in [Reqs -> Request0],
         NEW pc \in {"upsert", "drop", "count", "mark", "consume"},
         NEW op \in AllOps, NEW e \in Emails, NEW p \in Passwords \cup {None},
         NEW id \in 0..MaxId, NEW n \in 0..(MaxAttempts - 1),
         Await(r, pc, op, e, p, id, n)
  PROVE  /\ req' \in [Reqs -> Request0]
         /\ req'[r].pc = pc /\ req'[r].op = op /\ req'[r].email = e /\ req'[r].password = p
         /\ req'[r].id = id /\ req'[r].attempts = n
         /\ \A q \in Reqs \ {r} : req'[q] = req[q]
BY DEF Await, Request0

LEMMA ReplyFact ==
  ASSUME NEW r \in Reqs, req \in [Reqs -> Request0],
         NEW op \in AllOps, NEW e \in Emails, NEW st \in Statuses,
         Reply(r, op, e, st)
  PROVE  /\ req' \in [Reqs -> Request0]
         /\ req'[r].pc = "done" /\ req'[r].id = 0
         /\ \A q \in Reqs \ {r} : req'[q] = req[q]
<1> DEFINE x == [pc |-> "done", op |-> op, email |-> e, password |-> None,
                 id |-> 0, attempts |-> 0, status |-> st]
<1>1. x \in Request0
  BY BoundsAssumption DEF Request0, Statuses
<1>2. req' = [req EXCEPT ![r] = x]
  BY DEF Reply
<1> QED
  BY <1>1, <1>2

LEMMA AnswerFact ==
  ASSUME NEW r \in Reqs, Typed, ~Free(r), NEW st \in Statuses,
         Answer(r, st)
  PROVE  /\ req' \in [Reqs -> Request0]
         /\ req'[r].pc = "done" /\ req'[r].id = 0
         /\ \A q \in Reqs \ {r} : req'[q] = req[q]
BY ReplyFact DEF Answer, Typed, TypeOK, Flight

LEMMA GotoFact ==
  ASSUME NEW r \in Reqs, req \in [Reqs -> Request0],
         NEW pc \in {"mail", "create", "find", "update"}, Goto(r, pc)
  PROVE  /\ req' \in [Reqs -> Request0]
         /\ req'[r].pc = pc /\ req'[r].op = req[r].op /\ req'[r].email = req[r].email
         /\ req'[r].password = req[r].password /\ req'[r].id = req[r].id
         /\ \A q \in Reqs \ {r} : req'[q] = req[q]
BY DEF Goto, Request0

\* A request that another step leaves alone keeps what it carries.
LEMMA FlightKept ==
  ASSUME NEW q, Flight(q), req'[q] = req[q]
  PROVE  Flight(q)'
BY DEF Flight, Free

LEMMA FlightDone ==
  ASSUME NEW q, req'[q].pc \in {"done", "idle", "mail"},
         req'[q].pc = "mail" => req'[q].email \in Emails /\ req'[q].op \in AllOps
  PROVE  Flight(q)'
BY DEF Flight, Free

LEMMA AwaitTyped ==
  ASSUME NEW r \in Reqs, req \in [Reqs -> Request0],
         NEW pc \in {"upsert", "drop", "count", "mark", "consume"},
         NEW op \in AllOps, NEW e \in Emails, NEW p \in Passwords \cup {None},
         NEW id \in 0..MaxId, NEW n \in 0..(MaxAttempts - 1),
         Await(r, pc, op, e, p, id, n),
         pc = "upsert" => op \in {"send", "forgot"},
         pc = "count" => n + 1 < MaxAttempts,
         pc = "consume" => p \in Passwords /\ op \in {"register", "reset"}
  PROVE  /\ req' \in [Reqs -> Request0]
         /\ Flight(r)'
         /\ \A q \in Reqs \ {r} : req'[q] = req[q]
<1>1. /\ req' \in [Reqs -> Request0]
      /\ \A q \in Reqs \ {r} : req'[q] = req[q]
  BY AwaitFact
<1>2. /\ req'[r].pc = pc /\ req'[r].op = op /\ req'[r].email = e
      /\ req'[r].password = p /\ req'[r].attempts = n
  BY AwaitFact
<1>3. pc \notin {"create", "find", "update"}
  OBVIOUS
<1>4. Flight(r)'
  BY <1>2, <1>3 DEF Flight, Free
<1> QED
  BY <1>1, <1>4

-----------------------------------------------------------------------------
(* Typing. *)

LEMMA KeyFact == ASSUME NEW e \in Emails, NEW op \in AllOps PROVE Key(e, op) \in Keys
BY DEF Key, Purpose, Keys, Purposes, AllOps

LEMMA RowsUpdate ==
  ASSUME rows \in [Keys -> Row \cup {None}], NEW k \in Keys, NEW x \in Row \cup {None}
  PROVE  [rows EXCEPT ![k] = x] \in [Keys -> Row \cup {None}]
OBVIOUS

\* Deleting a row by its id leaves a table, and no row of that id.
LEMMA DeleteFact ==
  ASSUME rows \in [Keys -> Row \cup {None}], NEW id, DeleteRow(id)
  PROVE  /\ rows' \in [Keys -> Row \cup {None}]
         /\ \A k \in Keys : rows'[k] = None \/ (rows'[k] = rows[k] /\ rows[k].id # id)
BY DEF DeleteRow, Holds

LEMMA InitTyped == Init => Typed
<1> SUFFICES ASSUME Init PROVE Typed
  OBVIOUS
<1>1. Idle \in Request0
  BY BoundsAssumption DEF Idle, Request0
<1>2. TypeOK
  BY <1>1, BoundsAssumption DEF Init, TypeOK
<1>3. \A r \in Reqs : Flight(r)
  BY DEF Init, Flight, Idle, Free
<1> QED
  BY <1>2, <1>3 DEF Typed

\* The first step of a handler, for each endpoint.
LEMMA RequestTyped == ASSUME Typed, NEW r \in Reqs, Request(r) PROVE Typed'
<1> USE DEF Typed
<1>0. /\ req \in [Reqs -> Request0] /\ \A q \in Reqs : Flight(q)
      /\ \A k \in Keys : rows[k] # None => rows[k] \in Row
      /\ 0 \in 0..MaxId /\ 0 \in 0..(MaxAttempts - 1)
  BY BoundsAssumption DEF TypeOK
<1> DEFINE Done == /\ req' \in [Reqs -> Request0]
                   /\ Flight(r)' /\ \A q \in Reqs \ {r} : req'[q] = req[q]
<1>a. ASSUME NEW op \in AllOps, NEW e \in Emails, NEW st \in Statuses, Reply(r, op, e, st)
      PROVE  Done
  BY <1>0, <1>a, ReplyFact, FlightDone
<1>b. ASSUME Done, UNCHANGED tables, TypeOK' \/ UNCHANGED ghosts
      PROVE  Typed'
  BY <1>0, <1>b, FlightKept DEF TypeOK, tables, ghosts
<1>1. ASSUME NEW e \in Emails, NEW p \in Passwords, SendVerificationCode(r, e, p)
      PROVE  Typed'
  <2>1. CASE Reply(r, "send", e, 200)
    BY <1>1, <1>a, <1>b, <2>1 DEF SendVerificationCode, AllOps, Statuses
  <2>2. CASE Await(r, "upsert", "send", e, p, 0, 0)
    <3>1. Done
      BY <1>0, <2>2, AwaitTyped DEF AllOps
    <3> QED
      BY <1>1, <1>b, <3>1 DEF SendVerificationCode
  <2> QED
    BY <1>1, <2>1, <2>2 DEF SendVerificationCode
<1>2. ASSUME NEW e \in Emails, ForgotPassword(r, e)
      PROVE  Typed'
  <2>1. CASE Reply(r, "forgot", e, 200)
    BY <1>2, <1>a, <1>b, <2>1 DEF ForgotPassword, AllOps, Statuses
  <2>2. CASE Await(r, "upsert", "forgot", e, None, 0, 0)
    <3>1. Done
      BY <1>0, <2>2, AwaitTyped DEF AllOps
    <3> QED
      BY <1>2, <1>b, <3>1 DEF ForgotPassword
  <2> QED
    BY <1>2, <2>1, <2>2 DEF ForgotPassword
<1>r. ASSUME NEW op \in AllOps, NEW e \in Emails, Refused(r, op, e)
      PROVE  Done
  BY <1>a, <1>r DEF Refused, Statuses
<1>3. ASSUME NEW op \in AllOps, NEW e \in Emails, NEW c \in Codes, Verify(r, op, e, c)
      PROVE  Typed'
  <2> DEFINE k == Key(e, op)
             row == rows[k]
             live == row # None /\ ~row.expired
             right == row.attempts < MaxAttempts /\ row.code = c
  <2>0. k \in Keys
    BY KeyFact
  <2>1. CASE Refused(r, op, e) /\ UNCHANGED ghosts
    BY <1>3, <1>r, <1>b, <2>1 DEF Verify
  <2>2. CASE /\ live /\ ~right
             /\ Await(r, IF LastAttempt(row) THEN "drop" ELSE "count",
                      op, e, None, row.id, row.attempts)
             /\ missed' = missed \cup {k}
             /\ UNCHANGED <<proved, matched>>
    <3>1. row.id \in 0..MaxId /\ row.attempts \in 0..(MaxAttempts - 1)
      BY <1>0, <2>0, <2>2 DEF Row, Ids
    <3>2. CASE LastAttempt(row)
      BY <1>0, <1>3, <1>b, <2>0, <2>2, <3>1, <3>2, AwaitTyped DEF TypeOK, tables, Verify
    <3>3. CASE ~LastAttempt(row)
      <4>1. row.attempts + 1 < MaxAttempts
        BY <3>1, <3>3, BoundsAssumption DEF LastAttempt
      <4>2. Done
        BY <1>0, <2>0, <2>2, <3>1, <3>3, <4>1, AwaitTyped
      <4> QED
        BY <1>3, <1>b, <2>0, <2>2, <4>2 DEF TypeOK, tables, Verify
    <3> QED
      BY <3>2, <3>3
  <2>3. CASE /\ live /\ right
             /\ Await(r, "mark", op, e, None, row.id, 0)
             /\ proved' = proved \cup {row.id}
             /\ matched' = matched \cup {k}
             /\ UNCHANGED missed
    <3>1. row.id \in Ids /\ row.id \in 0..MaxId
      BY <1>0, <2>0, <2>3 DEF Row, Ids
    <3>2. Done
      BY <1>0, <2>3, <3>1, AwaitTyped
    <3> QED
      BY <1>3, <1>b, <2>0, <2>3, <3>1, <3>2 DEF TypeOK, tables, Verify
  <2> QED
    BY <1>3, <2>1, <2>2, <2>3 DEF Verify
<1>4. ASSUME NEW e \in Emails, Register(r, e)
      PROVE  Typed'
  <2> DEFINE row == rows[Key(e, "register")]
  <2>0. row # None => row \in Row
    BY <1>0, KeyFact DEF AllOps
  <2>1. CASE Refused(r, "register", e)
    BY <1>4, <1>r, <1>b, <2>1 DEF Register, AllOps
  <2>2. CASE Reply(r, "register", e, 400)
    BY <1>4, <1>a, <1>b, <2>2 DEF Register, AllOps, Statuses
  <2>3. CASE /\ row # None /\ ~(~row.verified \/ row.password = None)
             /\ Await(r, "consume", "register", e, row.password, row.id, 0)
    <3>1. row.password \in Passwords /\ row.id \in 0..MaxId
      BY <2>0, <2>3 DEF Row, Ids
    <3>2. Done
      BY <1>0, <2>3, <3>1, AwaitTyped DEF AllOps
    <3> QED
      BY <1>4, <1>b, <3>2 DEF Register
  <2> QED
    BY <1>4, <2>1, <2>2, <2>3 DEF Register
<1>5. ASSUME NEW e \in Emails, NEW c \in Codes, NEW p \in Passwords, ResetPassword(r, e, c, p)
      PROVE  Typed'
  <2> DEFINE row == rows[Key(e, "reset")]
  <2>0. row # None => row \in Row
    BY <1>0, KeyFact DEF AllOps
  <2>1. CASE Refused(r, "reset", e)
    BY <1>5, <1>r, <1>b, <2>1 DEF ResetPassword, AllOps
  <2>2. CASE Reply(r, "reset", e, 400)
    BY <1>5, <1>a, <1>b, <2>2 DEF ResetPassword, AllOps, Statuses
  <2>3. CASE row # None /\ Await(r, "consume", "reset", e, p, row.id, 0)
    <3>1. row.id \in 0..MaxId
      BY <2>0, <2>3 DEF Row, Ids
    <3>2. Done
      BY <1>0, <2>3, <3>1, AwaitTyped DEF AllOps
    <3> QED
      BY <1>5, <1>b, <3>2 DEF ResetPassword
  <2> QED
    BY <1>5, <2>1, <2>2, <2>3 DEF ResetPassword
<1> QED
  BY <1>1, <1>2, <1>3, <1>4, <1>5 DEF Request

\* Going on to the next step keeps what the request carries.
LEMMA GotoTyped ==
  ASSUME NEW r \in Reqs, req \in [Reqs -> Request0], Flight(r), ~Free(r),
         NEW pc \in {"mail", "create", "find", "update"}, Goto(r, pc),
         pc = "create" => req[r].op = "register" /\ req[r].password \in Passwords,
         pc \in {"find", "update"} => req[r].op = "reset" /\ req[r].password \in Passwords
  PROVE  /\ req' \in [Reqs -> Request0]
         /\ Flight(r)'
         /\ \A q \in Reqs \ {r} : req'[q] = req[q]
<1>1. req' \in [Reqs -> Request0] /\ \A q \in Reqs \ {r} : req'[q] = req[q]
  BY GotoFact
<1>2. /\ req'[r].pc = pc /\ req'[r].op = req[r].op /\ req'[r].email = req[r].email
      /\ req'[r].password = req[r].password
  BY GotoFact
<1>3. Flight(r)'
  BY <1>2 DEF Flight, Free
<1> QED
  BY <1>1, <1>3

\* A later step of a handler.
LEMMA ProceedTyped == ASSUME Typed, NEW r \in Reqs, Proceed(r) PROVE Typed'
<1> USE DEF Typed
<1>0. /\ req \in [Reqs -> Request0] /\ req[r] \in Request0
      /\ rows \in [Keys -> Row \cup {None}]
      /\ \A q \in Reqs : Flight(q)
  BY DEF TypeOK
<1> DEFINE Done == /\ req' \in [Reqs -> Request0]
                   /\ Flight(r)' /\ \A q \in Reqs \ {r} : req'[q] = req[q]
<1>a. ASSUME NEW st \in Statuses, ~Free(r), Answer(r, st)
      PROVE  Done
  BY <1>0, <1>a, AnswerFact, FlightDone
<1>b. ASSUME Done, TypeOK'
      PROVE  Typed'
  BY <1>0, <1>b, FlightKept
<1>c. ASSUME Done, UNCHANGED <<tables, ghosts>>
      PROVE  Typed'
  BY <1>0, <1>b, <1>c DEF TypeOK, tables, ghosts
<1>d. ASSUME Done, UNCHANGED <<nextId, password, ghosts>>, rows' \in [Keys -> Row \cup {None}]
      PROVE  Typed'
  BY <1>0, <1>b, <1>d DEF TypeOK, ghosts
<1>1. CASE SetPending(r)
  <2> DEFINE k == Key(req[r].email, req[r].op)
             fresh == rows[k] = None
  <2>0. /\ ~Free(r) /\ k \in Keys /\ req[r].password \in Passwords \cup {None}
    BY <1>0, <1>1, KeyFact DEF SetPending, Flight, Free, Request0
  <2>1. CASE fresh /\ nextId > MaxId
    BY <1>1, <1>a, <1>c, <2>0, <2>1 DEF SetPending, Statuses
  <2>2. CASE ~(fresh /\ nextId > MaxId)
    <3>1. Done
      BY <1>0, <1>1, <2>0, <2>2, GotoTyped DEF SetPending
    <3>2. PICK c \in Codes : rows' = [rows EXCEPT ![k] = Issued(k, c, req[r].password)]
      BY <1>1, <2>2 DEF SetPending
    <3>3. Issued(k, c, req[r].password) \in Row
      <4>1. (IF fresh THEN nextId ELSE rows[k].id) \in Ids
        <5>1. CASE fresh
          BY <2>2, <5>1, BoundsAssumption DEF TypeOK, Ids
        <5>2. CASE ~fresh
          BY <1>0, <2>0, <5>2 DEF Row
        <5> QED
          BY <5>1, <5>2
      <4>2. 0 \in 0..(MaxAttempts - 1)
        BY BoundsAssumption
      <4> QED
        BY <2>0, <4>1, <4>2 DEF Issued, Row
    <3>4. rows' \in [Keys -> Row \cup {None}]
      BY <1>0, <2>0, <3>2, <3>3, RowsUpdate
    <3>5. nextId' \in 1..(MaxId + 1)
      BY <1>1, <2>2, BoundsAssumption DEF SetPending, TypeOK
    <3>6. TypeOK'
      BY <1>1, <2>0, <2>2, <3>1, <3>4, <3>5 DEF SetPending, TypeOK
    <3> QED
      BY <1>b, <3>1, <3>6
  <2> QED
    BY <2>1, <2>2
<1>2. CASE SendMail(r)
  BY <1>2, <1>a, <1>c DEF SendMail, Statuses, Free
<1>3. CASE DropRow(r)
  BY <1>0, <1>3, <1>a, <1>d, DeleteFact DEF DropRow, Statuses, Free, DeleteRow
<1>4. CASE CountMiss(r)
  <2>1. req[r].attempts + 1 \in 0..(MaxAttempts - 1)
    BY <1>0, <1>4, BoundsAssumption DEF CountMiss, Flight, Request0
  <2>2. \A k \in Keys : Holds(k, req[r].id) =>
          [rows[k] EXCEPT !.attempts = req[r].attempts + 1] \in Row
    BY <1>0, <2>1 DEF Holds, Row
  <2>3. rows' \in [Keys -> Row \cup {None}]
    BY <1>0, <1>4, <2>2 DEF CountMiss
  <2> QED
    BY <1>4, <1>a, <1>d, <2>3 DEF CountMiss, Statuses, Free
<1>5. CASE MarkVerified(r)
  <2>1. \A k \in Keys : Holds(k, req[r].id) => [rows[k] EXCEPT !.verified = TRUE] \in Row
    BY <1>0 DEF Holds, Row
  <2>2. rows' \in [Keys -> Row \cup {None}]
    BY <1>0, <1>5, <2>1 DEF MarkVerified
  <2> QED
    BY <1>5, <1>a, <1>d, <2>2 DEF MarkVerified, Statuses, Free
<1>6. CASE Consume(r)
  <2>1. rows' \in [Keys -> Row \cup {None}]
    BY <1>0, <1>6 DEF Consume, DeleteRow
  <2>2. Done
    BY <1>0, <1>6, <1>a, GotoTyped DEF Consume, Statuses, Free, Flight
  <2> QED
    BY <1>6, <1>d, <2>1, <2>2 DEF Consume
<1>7. CASE CreateUser(r)
  <2>1. Done
    BY <1>7, <1>a DEF CreateUser, Statuses, Free
  <2>2. password' \in [Emails -> Passwords \cup {None}]
    BY <1>0, <1>7 DEF CreateUser, TypeOK, Flight
  <2> QED
    BY <1>7, <1>b, <2>1, <2>2 DEF CreateUser, TypeOK, ghosts
<1>8. CASE FindUser(r)
  <2>1. Done
    BY <1>0, <1>8, <1>a, GotoTyped DEF FindUser, Statuses, Free, Flight
  <2> QED
    BY <1>8, <1>c, <2>1 DEF FindUser
<1>9. CASE UpdatePassword(r)
  <2>1. Done
    BY <1>9, <1>a DEF UpdatePassword, Statuses, Free
  <2>2. password' \in [Emails -> Passwords \cup {None}]
    BY <1>0, <1>9 DEF UpdatePassword, TypeOK, Flight
  <2> QED
    BY <1>9, <1>b, <2>1, <2>2 DEF UpdatePassword, TypeOK, ghosts
<1>10. CASE DbError(r)
  BY <1>10, <1>a, <1>c DEF DbError, Statuses
<1> QED
  BY <1>1, <1>2, <1>3, <1>4, <1>5, <1>6, <1>7, <1>8, <1>9, <1>10 DEF Proceed

LEMMA NextTyped == Typed /\ [Next]_vars => Typed'
<1> SUFFICES ASSUME Typed, [Next]_vars PROVE Typed'
  OBVIOUS
<1>1. ASSUME NEW r \in Reqs, Request(r) \/ Proceed(r) PROVE Typed'
  BY <1>1, RequestTyped, ProceedTyped
<1>2. ASSUME NEW k \in Keys, Expire(k) PROVE Typed'
  <2>1. rows' \in [Keys -> Row \cup {None}]
    <3>1. rows[k] \in Row
      BY <1>2 DEF Expire, Typed, TypeOK
    <3>2. [rows[k] EXCEPT !.expired = TRUE] \in Row
      BY <3>1, Zenon DEF Row
    <3> QED
      BY <1>2, <3>2 DEF Expire, Typed, TypeOK
  <2> QED
    BY <1>2, <2>1 DEF Expire, Typed, TypeOK, Flight, Free, ghosts
<1>3. CASE Crash
  <2>1. Idle \in Request0
    BY BoundsAssumption DEF Idle, Request0
  <2>2. TypeOK'
    BY <1>3, <2>1 DEF Crash, Typed, TypeOK, tables, ghosts
  <2>3. \A r \in Reqs : req'[r].pc = "idle"
    BY <1>3 DEF Crash, Idle
  <2> QED
    BY <2>2, <2>3, FlightDone DEF Typed
<1>4. CASE UNCHANGED vars
  BY <1>4 DEF vars, Typed, TypeOK, Flight, Free
<1> QED
  BY <1>1, <1>2, <1>3, <1>4 DEF Next

\* Type correctness, with what every request carries.
THEOREM Typing == Spec => []Typed
BY InitTyped, NextTyped, PTL DEF Spec

\* The type invariant the runs check.
COROLLARY TypeCorrect == Spec => []TypeOK
BY Typing, PTL DEF Typed

-----------------------------------------------------------------------------
(* The inductive invariant behind the safety properties. *)

\* Ids are handed out once: every id in use is below AUTO_INCREMENT, and no two rows of
\* the table share one.
FreshIds == /\ \A k \in Keys : rows[k] # None => rows[k].id < nextId
            /\ \A r \in Reqs : req[r].id < nextId
UniqueIds == \A k, l \in Keys :
               rows[k] # None /\ rows[l] # None /\ rows[k].id = rows[l].id => k = l

\* A reset that is under way belongs to an account.
ResetsHaveAccount ==
  /\ ResetHasAccount
  /\ \A r \in Reqs : \/ req[r].pc = "upsert" /\ req[r].op = "forgot"
                     \/ req[r].pc = "consume" /\ req[r].op = "reset"
                     => password[req[r].email] # None

\* Together they are inductive.
IInv == Typed /\ FreshIds /\ UniqueIds /\ SingleUse /\ GrantWasProved /\ ResetsHaveAccount

\* What the first step of a handler does to its own request and to the ghosts.
Started(r) ==
  /\ UNCHANGED tables
  /\ proved \subseteq proved'
  /\ \A q \in Reqs \ {r} : req'[q] = req[q]
  /\ req'[r].pc \in {"done", "upsert", "drop", "count", "mark", "consume"}
  /\ req'[r].id = 0 \/ \E k \in Keys : rows[k] # None /\ req'[r].id = rows[k].id
  /\ req'[r].pc = "mark" => req'[r].id \in proved'
  /\ req'[r].pc = "consume" =>
       \E k \in Keys : rows[k] # None /\ rows[k].verified /\ req'[r].id = rows[k].id
  /\ req'[r].pc = "consume" /\ req'[r].op = "reset" =>
       req'[r].email \in Emails /\ rows[<<req'[r].email, "PASSWORD_RESET">>] # None
  /\ req'[r].pc = "upsert" /\ req'[r].op = "forgot" => password[req'[r].email] # None

LEMMA RequestStarts == ASSUME Typed, NEW r \in Reqs, Request(r) PROVE Started(r)
<1>0. /\ req \in [Reqs -> Request0]
      /\ \A k \in Keys : rows[k] # None => rows[k] \in Row
      /\ 0 \in 0..MaxId /\ 0 \in 0..(MaxAttempts - 1)
  BY BoundsAssumption DEF Typed, TypeOK
<1>a. ASSUME NEW op \in AllOps, NEW e \in Emails, NEW st \in Statuses, Reply(r, op, e, st),
             UNCHANGED <<tables, ghosts>>
      PROVE  Started(r)
  BY <1>0, <1>a, ReplyFact DEF Started, ghosts
<1>1. ASSUME NEW e \in Emails, NEW p \in Passwords, SendVerificationCode(r, e, p)
      PROVE  Started(r)
  <2>1. CASE Reply(r, "send", e, 200)
    BY <1>1, <1>a, <2>1 DEF SendVerificationCode, AllOps, Statuses
  <2>2. CASE Await(r, "upsert", "send", e, p, 0, 0)
    BY <1>0, <1>1, <2>2, AwaitFact DEF SendVerificationCode, Started, ghosts, AllOps
  <2> QED
    BY <1>1, <2>1, <2>2 DEF SendVerificationCode
<1>2. ASSUME NEW e \in Emails, ForgotPassword(r, e)
      PROVE  Started(r)
  <2>1. CASE Reply(r, "forgot", e, 200)
    BY <1>2, <1>a, <2>1 DEF ForgotPassword, AllOps, Statuses
  <2>2. CASE password[e] # None /\ Await(r, "upsert", "forgot", e, None, 0, 0)
    BY <1>0, <1>2, <2>2, AwaitFact DEF ForgotPassword, Started, ghosts, AllOps
  <2> QED
    BY <1>2, <2>1, <2>2 DEF ForgotPassword
<1>r. ASSUME NEW op \in AllOps, NEW e \in Emails, Refused(r, op, e), UNCHANGED <<tables, ghosts>>
      PROVE  Started(r)
  BY <1>a, <1>r DEF Refused, Statuses
<1>3. ASSUME NEW op \in AllOps, NEW e \in Emails, NEW c \in Codes, Verify(r, op, e, c)
      PROVE  Started(r)
  <2> DEFINE k == Key(e, op)
             row == rows[k]
             live == row # None /\ ~row.expired
             right == row.attempts < MaxAttempts /\ row.code = c
  <2>0. k \in Keys /\ UNCHANGED tables
    BY <1>3, KeyFact DEF Verify
  <2>1. CASE Refused(r, op, e) /\ UNCHANGED ghosts
    BY <1>r, <2>0, <2>1
  <2>2. CASE /\ live /\ ~right
             /\ Await(r, IF LastAttempt(row) THEN "drop" ELSE "count",
                      op, e, None, row.id, row.attempts)
             /\ UNCHANGED <<proved, matched>>
    <3>1. row.id \in 0..MaxId /\ row.attempts \in 0..(MaxAttempts - 1)
      BY <1>0, <2>0, <2>2 DEF Row, Ids
    <3>2. /\ req'[r].pc \in {"drop", "count"} /\ req'[r].id = row.id
          /\ \A q \in Reqs \ {r} : req'[q] = req[q]
      BY <1>0, <2>2, <3>1, AwaitFact
    <3> QED
      BY <2>0, <2>2, <3>2 DEF Started
  <2>3. CASE /\ live /\ right
             /\ Await(r, "mark", op, e, None, row.id, 0)
             /\ proved' = proved \cup {row.id}
    <3>1. row.id \in 0..MaxId
      BY <1>0, <2>0, <2>3 DEF Row, Ids
    <3>2. /\ req'[r].pc = "mark" /\ req'[r].id = row.id
          /\ \A q \in Reqs \ {r} : req'[q] = req[q]
      BY <1>0, <2>3, <3>1, AwaitFact
    <3> QED
      BY <2>0, <2>3, <3>2 DEF Started
  <2> QED
    BY <1>3, <2>1, <2>2, <2>3 DEF Verify
<1>4. ASSUME NEW e \in Emails, Register(r, e)
      PROVE  Started(r)
  <2> DEFINE k == Key(e, "register")
             row == rows[k]
  <2>0. k \in Keys
    BY KeyFact DEF AllOps
  <2>1. CASE Refused(r, "register", e)
    BY <1>4, <1>r, <2>1 DEF Register, AllOps
  <2>2. CASE Reply(r, "register", e, 400)
    BY <1>4, <1>a, <2>2 DEF Register, AllOps, Statuses
  <2>3. CASE /\ row # None /\ ~(~row.verified \/ row.password = None)
             /\ Await(r, "consume", "register", e, row.password, row.id, 0)
    <3>1. row.password \in Passwords /\ row.id \in 0..MaxId
      BY <1>0, <2>0, <2>3 DEF Row, Ids
    <3>2. /\ req'[r].pc = "consume" /\ req'[r].id = row.id /\ req'[r].op = "register"
          /\ \A q \in Reqs \ {r} : req'[q] = req[q]
      BY <1>0, <2>3, <3>1, AwaitFact DEF AllOps
    <3>3. UNCHANGED tables /\ proved' = proved
      BY <1>4 DEF Register, ghosts
    <3> QED
      BY <2>0, <2>3, <3>2, <3>3 DEF Started
  <2> QED
    BY <1>4, <2>1, <2>2, <2>3 DEF Register
<1>5. ASSUME NEW e \in Emails, NEW c \in Codes, NEW p \in Passwords, ResetPassword(r, e, c, p)
      PROVE  Started(r)
  <2> DEFINE k == Key(e, "reset")
             row == rows[k]
  <2>0. k \in Keys /\ k = <<e, "PASSWORD_RESET">>
    BY KeyFact DEF AllOps, Key, Purpose
  <2>1. CASE Refused(r, "reset", e)
    BY <1>5, <1>r, <2>1 DEF ResetPassword, AllOps
  <2>2. CASE Reply(r, "reset", e, 400)
    BY <1>5, <1>a, <2>2 DEF ResetPassword, AllOps, Statuses
  <2>3. CASE /\ row # None /\ row.verified
             /\ Await(r, "consume", "reset", e, p, row.id, 0)
    <3>1. row.id \in 0..MaxId
      BY <1>0, <2>0, <2>3 DEF Row, Ids
    <3>2. /\ req'[r].pc = "consume" /\ req'[r].id = row.id /\ req'[r].email = e
          /\ \A q \in Reqs \ {r} : req'[q] = req[q]
      BY <1>0, <2>3, <3>1, AwaitFact DEF AllOps
    <3>3. UNCHANGED tables /\ proved' = proved
      BY <1>5 DEF ResetPassword, ghosts
    <3> QED
      BY <2>0, <2>3, <3>2, <3>3 DEF Started
  <2> QED
    BY <1>5, <2>1, <2>2, <2>3 DEF ResetPassword
<1> QED
  BY <1>1, <1>2, <1>3, <1>4, <1>5 DEF Request

-----------------------------------------------------------------------------
(* Ids and single use. *)

\* A step that issues nothing and consumes nothing.
LEMMA IdsKept ==
  ASSUME FreshIds, UniqueIds, SingleUse, nextId' = nextId,
         \A k \in Keys : rows'[k] = None \/ (rows[k] # None /\ rows'[k].id = rows[k].id),
         \A q \in Reqs : /\ req'[q].id < nextId
                         /\ HoldsGrant(q)' => HoldsGrant(q) /\ req'[q].id = req[q].id
  PROVE  FreshIds' /\ UniqueIds' /\ SingleUse'
<1>1. FreshIds'
  BY DEF FreshIds
<1>2. UniqueIds'
  BY DEF UniqueIds
<1>3. SingleUse'
  BY DEF SingleUse, Exists, Holds
<1> QED
  BY <1>1, <1>2, <1>3

LEMMA ProceedIds ==
  ASSUME Typed, FreshIds, UniqueIds, SingleUse, NEW r \in Reqs, Proceed(r)
  PROVE  FreshIds' /\ UniqueIds' /\ SingleUse'
<1>0. /\ req \in [Reqs -> Request0] /\ rows \in [Keys -> Row \cup {None}]
      /\ nextId \in Nat /\ 0 < nextId
      /\ \A k \in Keys : rows[k] # None => rows[k] \in Row /\ rows[k].id \in Nat
      /\ \A q \in Reqs : req[q].id \in Nat /\ req[q].id < nextId
  <2>1. /\ req \in [Reqs -> Request0] /\ rows \in [Keys -> Row \cup {None}]
        /\ nextId \in Nat /\ 0 < nextId
    BY BoundsAssumption DEF Typed, TypeOK
  <2>2. \A x \in Row : x.id \in Nat
    BY BoundsAssumption DEF Row, Ids
  <2>3. \A x \in Request0 : x.id \in Nat
    BY BoundsAssumption DEF Request0
  <2>4. \A k \in Keys : rows[k] # None => rows[k] \in Row /\ rows[k].id \in Nat
    BY <2>1, <2>2
  <2>5. \A q \in Reqs : req[q].id \in Nat /\ req[q].id < nextId
    BY <2>1, <2>3 DEF FreshIds
  <2> QED
    BY <2>1, <2>4, <2>5
<1>a. ASSUME NEW st \in Statuses, ~Free(r), Answer(r, st)
      PROVE  \A q \in Reqs : /\ req'[q].id < nextId
                             /\ HoldsGrant(q)' => HoldsGrant(q) /\ req'[q].id = req[q].id
  <2>1. /\ req'[r].pc = "done" /\ req'[r].id = 0
        /\ \A q \in Reqs \ {r} : req'[q] = req[q]
    BY <1>a, AnswerFact
  <2> QED
    BY <1>0, <2>1 DEF HoldsGrant
<1>g. ASSUME NEW pc \in {"mail", "create", "find", "update"}, Goto(r, pc)
      PROVE  /\ req'[r].pc = pc /\ req'[r].id = req[r].id
             /\ \A q \in Reqs \ {r} : req'[q] = req[q]
  BY <1>0, <1>g, GotoFact
<1>1. CASE SetPending(r)
  <2> DEFINE k == Key(req[r].email, req[r].op)
             fresh == rows[k] = None
  <2>0. ~Free(r) /\ k \in Keys
    BY <1>1, KeyFact DEF SetPending, Typed, Flight, Free
  <2>1. CASE fresh /\ nextId > MaxId
    <3>1. Answer(r, 500) /\ rows' = rows /\ nextId' = nextId
      BY <1>1, <2>1 DEF SetPending, tables
    <3> QED
      BY <1>a, <2>0, <3>1, IdsKept DEF Statuses
  <2>2. CASE ~(fresh /\ nextId > MaxId)
    <3> DEFINE id == IF fresh THEN nextId ELSE rows[k].id
    <3>1. PICK c \in Codes : rows' = [rows EXCEPT ![k] = Issued(k, c, req[r].password)]
      BY <1>1, <2>2 DEF SetPending
    <3>2. /\ rows'[k].id = id
          /\ \A l \in Keys \ {k} : rows'[l] = rows[l]
      BY <1>0, <2>0, <3>1 DEF Issued
    <3>3. /\ req'[r].pc = "mail" /\ req'[r].id = req[r].id
          /\ \A q \in Reqs \ {r} : req'[q] = req[q]
      BY <1>1, <1>g, <2>2 DEF SetPending
    <3>4. nextId' = IF fresh THEN nextId + 1 ELSE nextId
      BY <1>1, <2>2 DEF SetPending
    <3>5. \A q \in Reqs : HoldsGrant(q)' => HoldsGrant(q) /\ req'[q].id = req[q].id
      BY <3>3 DEF HoldsGrant
    <3>6. FreshIds'
      <4>1. nextId' \in Nat /\ nextId <= nextId' /\ id < nextId'
        BY <1>0, <2>0, <3>4 DEF FreshIds
      <4>2. \A l \in Keys : rows'[l] # None => rows'[l].id < nextId'
        BY <1>0, <3>2, <4>1 DEF FreshIds
      <4>3. \A q \in Reqs : req'[q].id < nextId'
        BY <1>0, <3>3, <4>1
      <4> QED
        BY <4>2, <4>3 DEF FreshIds
    <3>7. \A l \in Keys \ {k} : rows[l] # None => rows[l].id # id
      BY <1>0, <2>0 DEF FreshIds, UniqueIds
    <3>8. UniqueIds'
      BY <3>2, <3>7 DEF UniqueIds
    <3>9. \A q \in Reqs : HoldsGrant(q) => req[q].id # id
      BY <1>0, <2>0 DEF SingleUse, Exists, Holds
    <3>10. SingleUse'
      BY <3>2, <3>5, <3>9 DEF SingleUse, Exists, Holds
    <3> QED
      BY <3>6, <3>8, <3>10
  <2> QED
    BY <2>1, <2>2
<1>2. CASE SendMail(r)
  BY <1>2, <1>a, IdsKept DEF SendMail, Statuses, Free, tables
<1>3. CASE DropRow(r)
  <2>1. \A k \in Keys : rows'[k] = None \/ (rows[k] # None /\ rows'[k].id = rows[k].id)
    BY <1>0, <1>3, DeleteFact DEF DropRow
  <2> QED
    BY <1>3, <1>a, <2>1, IdsKept DEF DropRow, Statuses, Free
<1>4. CASE CountMiss(r)
  <2>1. \A k \in Keys : rows'[k] = None \/ (rows[k] # None /\ rows'[k].id = rows[k].id)
    BY <1>0, <1>4 DEF CountMiss, Holds, Row
  <2> QED
    BY <1>4, <1>a, <2>1, IdsKept DEF CountMiss, Statuses, Free
<1>5. CASE MarkVerified(r)
  <2>1. \A k \in Keys : rows'[k] = None \/ (rows[k] # None /\ rows'[k].id = rows[k].id)
    BY <1>0, <1>5 DEF MarkVerified, Holds, Row
  <2> QED
    BY <1>5, <1>a, <2>1, IdsKept DEF MarkVerified, Statuses, Free
<1>6. CASE Consume(r)
  <2>0. /\ \A k \in Keys : rows'[k] = None \/ (rows'[k] = rows[k] /\ rows[k].id # req[r].id)
        /\ nextId' = nextId
    BY <1>0, <1>6, DeleteFact DEF Consume
  <2>1. CASE Exists(req[r].id)
    <3>1. PICK pc \in {"create", "find"} : Goto(r, pc)
      BY <1>6, <2>1 DEF Consume
    <3>2. /\ req'[r].pc = pc /\ req'[r].id = req[r].id
          /\ \A q \in Reqs \ {r} : req'[q] = req[q]
      BY <1>g, <3>1
    <3>3. FreshIds' /\ UniqueIds'
      BY <1>0, <2>0, <3>2 DEF FreshIds, UniqueIds
    <3>4. \A q \in Reqs \ {r} : HoldsGrant(q)' => HoldsGrant(q) /\ req'[q].id # req[r].id
      BY <2>1, <3>2 DEF SingleUse, HoldsGrant
    <3>5. SingleUse'
      BY <2>0, <3>2, <3>4 DEF SingleUse, Exists, Holds
    <3> QED
      BY <3>3, <3>5
  <2>2. CASE ~Exists(req[r].id)
    BY <1>6, <1>a, <2>0, <2>2, IdsKept DEF Consume, Statuses, Free
  <2> QED
    BY <2>1, <2>2
<1>7. CASE CreateUser(r)
  BY <1>7, <1>a, IdsKept DEF CreateUser, Statuses, Free
<1>8. CASE FindUser(r)
  <2>1. CASE Goto(r, "update")
    <3>1. \A q \in Reqs : /\ req'[q].id < nextId
                          /\ HoldsGrant(q)' => HoldsGrant(q) /\ req'[q].id = req[q].id
      BY <1>0, <1>8, <1>g, <2>1 DEF HoldsGrant, FindUser
    <3> QED
      BY <1>8, <3>1, IdsKept DEF FindUser, tables
  <2>2. CASE Answer(r, 404)
    BY <1>8, <1>a, <2>2, IdsKept DEF FindUser, Statuses, Free, tables
  <2> QED
    BY <1>8, <2>1, <2>2 DEF FindUser
<1>9. CASE UpdatePassword(r)
  BY <1>9, <1>a, IdsKept DEF UpdatePassword, Statuses, Free
<1>10. CASE DbError(r)
  BY <1>10, <1>a, IdsKept DEF DbError, Statuses, tables
<1> QED
  BY <1>1, <1>2, <1>3, <1>4, <1>5, <1>6, <1>7, <1>8, <1>9, <1>10 DEF Proceed

LEMMA NextIds ==
  Typed /\ FreshIds /\ UniqueIds /\ SingleUse /\ [Next]_vars
    => FreshIds' /\ UniqueIds' /\ SingleUse'
<1> SUFFICES ASSUME Typed, FreshIds, UniqueIds, SingleUse, [Next]_vars
             PROVE  FreshIds' /\ UniqueIds' /\ SingleUse'
  OBVIOUS
<1>0. /\ rows \in [Keys -> Row \cup {None}]
      /\ nextId \in Nat /\ 0 < nextId
      /\ \A q \in Reqs : req[q].id < nextId
  BY BoundsAssumption DEF Typed, TypeOK, FreshIds
<1>1. ASSUME NEW r \in Reqs, Request(r) PROVE FreshIds' /\ UniqueIds' /\ SingleUse'
  <2>1. Started(r)
    BY <1>1, RequestStarts
  <2>2. rows' = rows /\ nextId' = nextId
    BY <2>1 DEF Started, tables
  <2>3. req'[r].id < nextId
    BY <1>0, <2>1 DEF Started, FreshIds
  <2>4. \A q \in Reqs : /\ req'[q].id < nextId
                        /\ HoldsGrant(q)' => HoldsGrant(q) /\ req'[q].id = req[q].id
    BY <1>0, <2>1, <2>3 DEF Started, HoldsGrant
  <2> QED
    BY <2>2, <2>4, IdsKept
<1>2. ASSUME NEW r \in Reqs, Proceed(r) PROVE FreshIds' /\ UniqueIds' /\ SingleUse'
  BY <1>2, ProceedIds
<1>3. ASSUME NEW k \in Keys, Expire(k) PROVE FreshIds' /\ UniqueIds' /\ SingleUse'
  <2>1. \A l \in Keys : rows'[l] = None \/ (rows[l] # None /\ rows'[l].id = rows[l].id)
    BY <1>0, <1>3 DEF Expire, Row
  <2> QED
    BY <1>0, <1>3, <2>1, IdsKept DEF Expire, HoldsGrant
<1>4. CASE Crash
  BY <1>0, <1>4, IdsKept DEF Crash, Idle, HoldsGrant, tables
<1>5. CASE UNCHANGED vars
  BY <1>0, <1>5, IdsKept DEF vars, HoldsGrant
<1> QED
  BY <1>1, <1>2, <1>3, <1>4, <1>5 DEF Next

LEMMA InitIds == Init => FreshIds /\ UniqueIds /\ SingleUse
BY DEF Init, Idle, FreshIds, UniqueIds, SingleUse, HoldsGrant

\* Of all requests that read one code row, whenever they read it and whatever lands in
\* between, at most one consumes it; and a consumed row is not in the table.
THEOREM CodesAreUsedOnce == Spec => []SingleUse
<1>1. Spec => [](FreshIds /\ UniqueIds /\ SingleUse)
  BY Typing, InitIds, NextIds, PTL DEF Spec
<1> QED
  BY <1>1, PTL

-----------------------------------------------------------------------------
(* Proof of possession, and accounts behind resets. *)

NeedsProof(q) == req[q].pc \in {"mark", "consume"} \/ HoldsGrant(q)

\* What a later step of a handler does to the requests, as far as proofs are concerned.
LEMMA ProceedRequests ==
  ASSUME Typed, NEW r \in Reqs, Proceed(r)
  PROVE  /\ \A q \in Reqs \ {r} : req'[q] = req[q]
         /\ NeedsProof(r)' => NeedsProof(r) /\ req'[r].id = req[r].id
         /\ req'[r].pc \notin {"upsert", "consume"}
         /\ req'[r].pc \in {"find", "update"} =>
              /\ req'[r].email = req[r].email
              /\ \/ req[r].pc = "consume" /\ req[r].op = "reset"
                 \/ req[r].pc = "find"
<1>0. req \in [Reqs -> Request0] /\ Flight(r)
  BY DEF Typed, TypeOK
<1>a. ASSUME NEW st \in Statuses, ~Free(r), Answer(r, st)
      PROVE  req'[r].pc = "done" /\ \A q \in Reqs \ {r} : req'[q] = req[q]
  BY <1>a, AnswerFact
<1>g. ASSUME NEW pc \in {"mail", "create", "find", "update"}, Goto(r, pc)
      PROVE  /\ req'[r].pc = pc /\ req'[r].id = req[r].id /\ req'[r].email = req[r].email
             /\ \A q \in Reqs \ {r} : req'[q] = req[q]
  BY <1>0, <1>g, GotoFact
<1>1. ASSUME NEW st \in Statuses, ~Free(r), Answer(r, st)
      PROVE  /\ \A q \in Reqs \ {r} : req'[q] = req[q]
             /\ ~NeedsProof(r)' /\ req'[r].pc \notin {"upsert", "consume", "find", "update"}
  BY <1>1, <1>a DEF NeedsProof, HoldsGrant
<1>2. CASE SetPending(r)
  BY <1>1, <1>2, <1>g DEF SetPending, Statuses, Free, NeedsProof, HoldsGrant
<1>3. CASE SendMail(r) \/ DropRow(r) \/ CountMiss(r) \/ MarkVerified(r)
  BY <1>1, <1>3 DEF SendMail, DropRow, CountMiss, MarkVerified, Statuses, Free
<1>4. CASE Consume(r)
  <2>1. CASE Answer(r, 500)
    BY <1>1, <1>4, <2>1 DEF Consume, Statuses, Free
  <2>2. CASE req[r].op = "register" /\ Goto(r, "create")
    BY <1>4, <1>g, <2>2 DEF Consume, NeedsProof, HoldsGrant
  <2>3. CASE req[r].op # "register" /\ Goto(r, "find")
    BY <1>0, <1>4, <1>g, <2>3 DEF Consume, NeedsProof, HoldsGrant, Flight
  <2> QED
    BY <1>4, <2>1, <2>2, <2>3 DEF Consume
<1>5. CASE CreateUser(r) \/ UpdatePassword(r) \/ DbError(r)
  BY <1>1, <1>5 DEF CreateUser, UpdatePassword, DbError, Statuses, Free
<1>6. CASE FindUser(r)
  BY <1>1, <1>6, <1>g DEF FindUser, Statuses, Free, NeedsProof, HoldsGrant
<1> QED
  BY <1>2, <1>3, <1>4, <1>5, <1>6 DEF Proceed

LEMMA ProvedDef ==
  GrantWasProved <=> /\ \A k \in Keys : rows[k] # None /\ rows[k].verified
                                          => rows[k].id \in proved
                     /\ \A q \in Reqs : NeedsProof(q) => req[q].id \in proved
BY DEF GrantWasProved, NeedsProof

LEMMA NextProved == Typed /\ GrantWasProved /\ [Next]_vars => GrantWasProved'
<1> SUFFICES ASSUME Typed, GrantWasProved, [Next]_vars PROVE GrantWasProved'
  OBVIOUS
<1>0. /\ rows \in [Keys -> Row \cup {None}]
      /\ \A k \in Keys : rows[k] # None /\ rows[k].verified => rows[k].id \in proved
      /\ \A q \in Reqs : NeedsProof(q) => req[q].id \in proved
  BY ProvedDef DEF Typed, TypeOK
<1>1. ASSUME NEW r \in Reqs, Request(r) PROVE GrantWasProved'
  <2>1. Started(r)
    BY <1>1, RequestStarts
  <2>2. NeedsProof(r)' => req'[r].id \in proved'
    BY <1>0, <2>1 DEF Started, NeedsProof, HoldsGrant
  <2>3. \A q \in Reqs \ {r} : NeedsProof(q)' => req'[q].id \in proved'
    BY <1>0, <2>1 DEF Started, NeedsProof, HoldsGrant
  <2>4. rows' = rows /\ proved \subseteq proved'
    BY <2>1 DEF Started, tables
  <2>5. \A k \in Keys : rows'[k] # None /\ rows'[k].verified => rows'[k].id \in proved'
    BY <1>0, <2>4
  <2>6. \A q \in Reqs : NeedsProof(q)' => req'[q].id \in proved'
    BY <2>2, <2>3
  <2> QED
    BY <2>5, <2>6 DEF GrantWasProved, NeedsProof, HoldsGrant
<1>2. ASSUME NEW r \in Reqs, Proceed(r) PROVE GrantWasProved'
  <2>1. proved' = proved
    BY <1>2 DEF Proceed, SetPending, SendMail, DropRow, CountMiss, MarkVerified, Consume,
                CreateUser, FindUser, UpdatePassword, DbError, ghosts
  <2>2. \A q \in Reqs : NeedsProof(q)' => req'[q].id \in proved'
    BY <1>0, <1>2, <2>1, ProceedRequests DEF NeedsProof, HoldsGrant
  <2>3. \A k \in Keys : rows'[k] # None /\ rows'[k].verified => rows'[k].id \in proved
    <3>1. CASE SetPending(r)
      <4> DEFINE k == Key(req[r].email, req[r].op)
      <4>0. k \in Keys
        BY <3>1, KeyFact DEF SetPending, Typed, Flight, Free
      <4>1. CASE rows' = rows
        BY <1>0, <4>1
      <4>2. CASE \E c \in Codes : rows' = [rows EXCEPT ![k] = Issued(k, c, req[r].password)]
        BY <1>0, <4>0, <4>2 DEF Issued
      <4> QED
        BY <3>1, <4>1, <4>2 DEF SetPending, tables
    <3>2. CASE DropRow(r) \/ Consume(r)
      BY <1>0, <3>2, DeleteFact DEF DropRow, Consume
    <3>3. CASE CountMiss(r)
      BY <1>0, <3>3 DEF CountMiss, Holds, Row
    <3>4. CASE MarkVerified(r)
      <4>1. req[r].id \in proved
        BY <1>0, <3>4 DEF MarkVerified, NeedsProof
      <4> QED
        BY <1>0, <3>4, <4>1 DEF MarkVerified, Holds, Row
    <3>5. CASE SendMail(r) \/ CreateUser(r) \/ FindUser(r) \/ UpdatePassword(r) \/ DbError(r)
      BY <1>0, <3>5 DEF SendMail, CreateUser, FindUser, UpdatePassword, DbError, tables
    <3> QED
      BY <1>2, <3>1, <3>2, <3>3, <3>4, <3>5 DEF Proceed
  <2> QED
    BY <2>1, <2>2, <2>3 DEF GrantWasProved, NeedsProof, HoldsGrant
<1>3. ASSUME NEW k \in Keys, Expire(k) PROVE GrantWasProved'
  <2>1. \A l \in Keys : rows'[l] # None /\ rows'[l].verified => rows'[l].id \in proved
    BY <1>0, <1>3 DEF Expire, Row
  <2> QED
    BY <1>0, <1>3, <2>1 DEF Expire, GrantWasProved, NeedsProof, HoldsGrant, ghosts
<1>4. CASE Crash
  BY <1>0, <1>4 DEF Crash, Idle, GrantWasProved, HoldsGrant, tables, ghosts
<1>5. CASE UNCHANGED vars
  BY <1>5 DEF vars, GrantWasProved, HoldsGrant
<1> QED
  BY <1>1, <1>2, <1>3, <1>4, <1>5 DEF Next

LEMMA InitProved == Init => GrantWasProved
BY DEF Init, Idle, GrantWasProved, HoldsGrant

\* An account is created, and a password set, only after a code mailed to that address for
\* that very row was presented, in every interleaving of any number of requests.
THEOREM GrantsAreProved == Spec => []GrantWasProved
BY Typing, InitProved, NextProved, PTL DEF Spec

\* A request that is resetting, or about to issue a reset code.
Resetting(q) == \/ req[q].pc \in {"find", "update"}
                \/ req[q].pc = "upsert" /\ req[q].op = "forgot"
                \/ req[q].pc = "consume" /\ req[q].op = "reset"

\* A step after which every account is still there, every reset row is an old one and
\* every reset in progress was in progress.
LEMMA AccountsKept ==
  ASSUME ResetsHaveAccount,
         \A e \in Emails : password[e] # None => password'[e] # None,
         \A e \in Emails : rows'[<<e, "PASSWORD_RESET">>] # None =>
                             rows[<<e, "PASSWORD_RESET">>] # None \/ password[e] # None,
         \A q \in Reqs : Resetting(q)' =>
           /\ req'[q].email \in Emails
           /\ \/ Resetting(q) /\ req'[q].email = req[q].email
              \/ password[req'[q].email] # None
  PROVE  ResetsHaveAccount'
<1>1. \A q \in Reqs : Resetting(q) => password[req[q].email] # None
  BY DEF ResetsHaveAccount, ResetHasAccount, Resetting
<1>2. \A q \in Reqs : Resetting(q)' => password'[req'[q].email] # None
  BY <1>1
<1>3. \A e \in Emails : rows'[<<e, "PASSWORD_RESET">>] # None => password'[e] # None
  BY DEF ResetsHaveAccount, ResetHasAccount
<1> QED
  BY <1>2, <1>3 DEF ResetsHaveAccount, ResetHasAccount, Resetting

LEMMA NextAccounts == Typed /\ ResetsHaveAccount /\ [Next]_vars => ResetsHaveAccount'
<1> SUFFICES ASSUME Typed, ResetsHaveAccount, [Next]_vars PROVE ResetsHaveAccount'
  OBVIOUS
<1>0. /\ rows \in [Keys -> Row \cup {None}] /\ password \in [Emails -> Passwords \cup {None}]
      /\ None \notin Passwords
      /\ \A q \in Reqs : Resetting(q) => req[q].email \in Emails
      /\ \A e \in Emails : <<e, "PASSWORD_RESET">> \in Keys
  BY NoneAssumption DEF Typed, TypeOK, Flight, Free, Resetting, Keys, Purposes
<1>1. ASSUME NEW r \in Reqs, Request(r) PROVE ResetsHaveAccount'
  <2>1. Started(r) /\ Flight(r)'
    BY <1>1, RequestStarts, RequestTyped DEF Typed
  <2>2. rows' = rows /\ password' = password
    BY <2>1 DEF Started, tables
  <2>3. Resetting(r)' => req'[r].email \in Emails /\ password[req'[r].email] # None
    BY <2>1 DEF Started, Resetting, Flight, Free, ResetsHaveAccount, ResetHasAccount
  <2>4. \A q \in Reqs : Resetting(q)' =>
          /\ req'[q].email \in Emails
          /\ \/ Resetting(q) /\ req'[q].email = req[q].email
             \/ password[req'[q].email] # None
    BY <1>0, <2>1, <2>3 DEF Started, Resetting
  <2> QED
    BY <2>2, <2>4, AccountsKept
<1>2. ASSUME NEW r \in Reqs, Proceed(r) PROVE ResetsHaveAccount'
  <2>1. \A q \in Reqs : Resetting(q)' =>
          /\ req'[q].email \in Emails
          /\ Resetting(q) /\ req'[q].email = req[q].email
    BY <1>0, <1>2, ProceedRequests DEF Resetting
  <2>2. \A e \in Emails : password[e] # None => password'[e] # None
    <3>1. CASE CreateUser(r) \/ UpdatePassword(r)
      BY <1>0, <3>1 DEF CreateUser, UpdatePassword, Typed, Flight
    <3>2. CASE password' = password
      BY <3>2
    <3> QED
      BY <1>2, <3>1, <3>2 DEF Proceed, SetPending, SendMail, DropRow, CountMiss, MarkVerified,
                              Consume, FindUser, DbError, tables
  <2>3. \A e \in Emails : rows'[<<e, "PASSWORD_RESET">>] # None =>
                            rows[<<e, "PASSWORD_RESET">>] # None \/ password[e] # None
    <3>1. CASE SetPending(r)
      <4> DEFINE k == Key(req[r].email, req[r].op)
      <4>1. CASE rows' = rows
        BY <4>1
      <4>2. CASE \E c \in Codes : rows' = [rows EXCEPT ![k] = Issued(k, c, req[r].password)]
        <5>1. req[r].op \in {"send", "forgot"} /\ req[r].email \in Emails
          BY <3>1 DEF SetPending, Typed, Flight, Free
        <5>2. CASE req[r].op = "send"
          BY <1>0, <4>2, <5>2 DEF Key, Purpose
        <5>3. CASE req[r].op = "forgot"
          <6>1. password[req[r].email] # None
            BY <3>1, <5>3 DEF SetPending, ResetsHaveAccount
          <6>2. k = <<req[r].email, "PASSWORD_RESET">>
            BY <5>3 DEF Key, Purpose
          <6> QED
            BY <1>0, <4>2, <6>1, <6>2
        <5> QED
          BY <5>1, <5>2, <5>3
      <4> QED
        BY <3>1, <4>1, <4>2 DEF SetPending, tables
    <3>2. CASE DropRow(r) \/ Consume(r)
      BY <1>0, <3>2, DeleteFact DEF DropRow, Consume
    <3>3. CASE CountMiss(r) \/ MarkVerified(r)
      BY <1>0, <3>3 DEF CountMiss, MarkVerified, Holds
    <3>4. CASE SendMail(r) \/ CreateUser(r) \/ FindUser(r) \/ UpdatePassword(r) \/ DbError(r)
      BY <3>4 DEF SendMail, CreateUser, FindUser, UpdatePassword, DbError, tables
    <3> QED
      BY <1>2, <3>1, <3>2, <3>3, <3>4 DEF Proceed
  <2> QED
    BY <2>1, <2>2, <2>3, AccountsKept
<1>3. ASSUME NEW k \in Keys, Expire(k) PROVE ResetsHaveAccount'
  BY <1>0, <1>3, AccountsKept DEF Expire, Resetting
<1>4. CASE Crash
  BY <1>4, AccountsKept DEF Crash, Idle, Resetting, tables
<1>5. CASE UNCHANGED vars
  BY <1>0, <1>5, AccountsKept DEF vars, Resetting
<1> QED
  BY <1>1, <1>2, <1>3, <1>4, <1>5 DEF Next

LEMMA InitAccounts == Init => ResetsHaveAccount
BY DEF Init, Idle, ResetsHaveAccount, ResetHasAccount, Keys, Purposes

\* A reset that consumed its code always finds the account it is for.
THEOREM ResetsFindTheirAccount == Spec => []ResetHasAccount
<1>1. Spec => []ResetsHaveAccount
  BY Typing, InitAccounts, NextAccounts, PTL DEF Spec
<1>2. ResetsHaveAccount => ResetHasAccount
  BY DEF ResetsHaveAccount
<1> QED
  BY <1>1, <1>2, PTL

\* All of it at once: the invariant from which the four properties follow, and the one a
\* proof about the handlers can start from.
THEOREM Invariance == Spec => []IInv
<1>1. Spec => []Typed
  BY Typing
<1>2. Spec => [](FreshIds /\ UniqueIds /\ SingleUse)
  BY Typing, InitIds, NextIds, PTL DEF Spec
<1>3. Spec => []GrantWasProved
  BY GrantsAreProved
<1>4. Spec => []ResetsHaveAccount
  BY Typing, InitAccounts, NextAccounts, PTL DEF Spec
<1> QED
  BY <1>1, <1>2, <1>3, <1>4, PTL DEF IInv

-----------------------------------------------------------------------------
(* What holds as long as requests do not overlap.  With overlapping        *)
(* requests neither property holds of the code: a miss is counted, and a   *)
(* row marked verified, by its id and from what was read before, although  *)
(* another request may have put a new code into the row since.             *)

\* At most one request is in flight.
NoOverlap == \A q, r \in Reqs : Free(q) \/ Free(r) \/ q = r

\* The row about to be written from a snapshot still has the code that was answered.
CountsTheMiss == \A r \in Reqs : req[r].pc = "count" =>
                   \A k \in Keys : rows[k] # None /\ rows[k].id = req[r].id => k \in missed
MarksTheMatch == \A r \in Reqs : req[r].pc = "mark" =>
                   \A k \in Keys : rows[k] # None /\ rows[k].id = req[r].id => k \in matched

SInv == FreshCodeStartsClean /\ VerifiedByOwnCode /\ CountsTheMiss /\ MarksTheMatch

\* A first step that leads to counting a miss, or marking a match, has recorded it for
\* the row it read.
LEMMA RequestRecords ==
  ASSUME Typed, UniqueIds, NEW r \in Reqs, Request(r)
  PROVE  /\ matched \subseteq matched' /\ missed \subseteq missed'
         /\ \A k \in Keys : rows[k] # None /\ rows[k].id = req'[r].id =>
              /\ req'[r].pc = "count" => k \in missed'
              /\ req'[r].pc = "mark" => k \in matched'
<1>0. /\ req \in [Reqs -> Request0]
      /\ \A k \in Keys : rows[k] # None => rows[k] \in Row
      /\ 0 \in 0..MaxId /\ 0 \in 0..(MaxAttempts - 1)
  BY BoundsAssumption DEF Typed, TypeOK
<1> DEFINE Recorded == \A k \in Keys : rows[k] # None /\ rows[k].id = req'[r].id =>
                         /\ req'[r].pc = "count" => k \in missed'
                         /\ req'[r].pc = "mark" => k \in matched'
<1>a. ASSUME NEW op \in AllOps, NEW e \in Emails, NEW st \in Statuses, Reply(r, op, e, st)
      PROVE  req'[r].pc \notin {"count", "mark"}
  BY <1>0, <1>a, ReplyFact
<1>r. ASSUME NEW op \in AllOps, NEW e \in Emails, Refused(r, op, e)
      PROVE  req'[r].pc \notin {"count", "mark"}
  BY <1>a, <1>r DEF Refused, Statuses
<1>b. ASSUME NEW pc \in {"upsert", "consume"}, NEW op \in AllOps,
             NEW e \in Emails, NEW p \in Passwords \cup {None}, NEW id \in 0..MaxId,
             Await(r, pc, op, e, p, id, 0)
      PROVE  req'[r].pc \notin {"count", "mark"}
  BY <1>0, <1>b, AwaitFact
<1>1. ASSUME NEW e \in Emails, NEW p \in Passwords, SendVerificationCode(r, e, p)
      PROVE  req'[r].pc \notin {"count", "mark"} /\ UNCHANGED ghosts
  BY <1>0, <1>1, <1>a, <1>b DEF SendVerificationCode, AllOps, Statuses
<1>2. ASSUME NEW e \in Emails, ForgotPassword(r, e)
      PROVE  req'[r].pc \notin {"count", "mark"} /\ UNCHANGED ghosts
  BY <1>0, <1>2, <1>a, <1>b DEF ForgotPassword, AllOps, Statuses
<1>3. ASSUME NEW op \in AllOps, NEW e \in Emails, NEW c \in Codes, Verify(r, op, e, c)
      PROVE  matched \subseteq matched' /\ missed \subseteq missed' /\ Recorded
  <2> DEFINE k == Key(e, op)
             row == rows[k]
  <2>0. k \in Keys /\ (row # None => row.id \in 0..MaxId /\ row.attempts \in 0..(MaxAttempts - 1))
    BY <1>0, KeyFact DEF Row, Ids
  <2>1. CASE Refused(r, op, e) /\ UNCHANGED ghosts
    BY <1>r, <2>1 DEF ghosts
  <2>2. CASE /\ row # None
             /\ Await(r, IF LastAttempt(row) THEN "drop" ELSE "count",
                      op, e, None, row.id, row.attempts)
             /\ missed' = missed \cup {k} /\ UNCHANGED <<proved, matched>>
    <3>1. req'[r].pc \in {"drop", "count"} /\ req'[r].id = row.id
      BY <1>0, <2>0, <2>2, AwaitFact
    <3> QED
      BY <2>0, <2>2, <3>1 DEF UniqueIds
  <2>3. CASE /\ row # None /\ Await(r, "mark", op, e, None, row.id, 0)
             /\ matched' = matched \cup {k} /\ UNCHANGED missed
    <3>1. req'[r].pc = "mark" /\ req'[r].id = row.id
      BY <1>0, <2>0, <2>3, AwaitFact
    <3> QED
      BY <2>0, <2>3, <3>1 DEF UniqueIds
  <2> QED
    BY <1>3, <2>1, <2>2, <2>3 DEF Verify
<1>4. ASSUME NEW e \in Emails, Register(r, e)
      PROVE  req'[r].pc \notin {"count", "mark"} /\ UNCHANGED ghosts
  <2>1. rows[Key(e, "register")] # None =>
          /\ rows[Key(e, "register")].password \in Passwords \cup {None}
          /\ rows[Key(e, "register")].id \in 0..MaxId
    BY <1>0, KeyFact DEF Row, Ids, AllOps
  <2> QED
    BY <1>4, <1>a, <1>b, <1>r, <2>1 DEF Register, AllOps, Statuses
<1>5. ASSUME NEW e \in Emails, NEW c \in Codes, NEW p \in Passwords, ResetPassword(r, e, c, p)
      PROVE  req'[r].pc \notin {"count", "mark"} /\ UNCHANGED ghosts
  <2>1. rows[Key(e, "reset")] # None => rows[Key(e, "reset")].id \in 0..MaxId
    BY <1>0, KeyFact DEF Row, Ids, AllOps
  <2> QED
    BY <1>5, <1>a, <1>b, <1>r, <2>1 DEF ResetPassword, AllOps, Statuses
<1> QED
  BY <1>1, <1>2, <1>3, <1>4, <1>5 DEF Request, ghosts

\* A later step, when no other request is in flight.
LEMMA ProceedSerial ==
  ASSUME Typed, NoOverlap, SInv, NEW r \in Reqs, Proceed(r)
  PROVE  SInv'
<1>0. /\ rows \in [Keys -> Row \cup {None}] /\ req \in [Reqs -> Request0]
      /\ \A k \in Keys : rows[k] # None => rows[k] \in Row
  BY DEF Typed, TypeOK
<1>1. \A q \in Reqs : req'[q].pc \notin {"count", "mark"}
  <2>1. ~Free(r)
    BY DEF Proceed, SetPending, SendMail, DropRow, CountMiss, MarkVerified, Consume,
           CreateUser, FindUser, UpdatePassword, DbError, Free
  <2>2. \A q \in Reqs \ {r} : req'[q] = req[q] /\ Free(q)
    BY <2>1, ProceedRequests DEF NoOverlap
  <2>a. ASSUME NEW st \in Statuses, Answer(r, st)
        PROVE  req'[r].pc = "done"
    BY <2>1, <2>a, AnswerFact
  <2>g. ASSUME NEW pc \in {"mail", "create", "find", "update"}, Goto(r, pc)
        PROVE  req'[r].pc = pc
    BY <1>0, <2>g, GotoFact
  <2>3. req'[r].pc \notin {"count", "mark"}
    BY <2>a, <2>g DEF Proceed, SetPending, SendMail, DropRow, CountMiss, MarkVerified,
                      Consume, CreateUser, FindUser, UpdatePassword, DbError, Statuses
  <2> QED
    BY <2>2, <2>3 DEF Free
<1>2. FreshCodeStartsClean' /\ VerifiedByOwnCode'
  <2>1. CASE SetPending(r)
    <3> DEFINE k == Key(req[r].email, req[r].op)
    <3>0. k \in Keys
      BY <2>1, KeyFact DEF SetPending, Typed, Flight, Free
    <3>1. CASE rows' = rows /\ UNCHANGED ghosts
      BY <3>1 DEF SInv, FreshCodeStartsClean, VerifiedByOwnCode, ghosts
    <3>2. CASE /\ \E c \in Codes : rows' = [rows EXCEPT ![k] = Issued(k, c, req[r].password)]
               /\ matched' = matched \ {k} /\ missed' = missed \ {k}
      <4>1. /\ rows'[k].attempts = 0 /\ ~rows'[k].verified
            /\ \A l \in Keys \ {k} : rows'[l] = rows[l]
        BY <1>0, <3>0, <3>2 DEF Issued
      <4> QED
        BY <3>2, <4>1 DEF SInv, FreshCodeStartsClean, VerifiedByOwnCode
    <3> QED
      BY <2>1, <3>1, <3>2 DEF SetPending, tables
  <2>2. CASE DropRow(r) \/ Consume(r)
    BY <1>0, <2>2, DeleteFact
    DEF DropRow, Consume, SInv, FreshCodeStartsClean, VerifiedByOwnCode, ghosts
  <2>3. CASE CountMiss(r)
    <3>1. \A k \in Keys : Holds(k, req[r].id) => k \in missed
      BY <2>3 DEF CountMiss, SInv, CountsTheMiss, Holds
    <3>2. \A k \in Keys : Holds(k, req[r].id) => rows'[k].verified = rows[k].verified
      BY <1>0, <2>3 DEF CountMiss, Holds, Row
    <3> QED
      BY <2>3, <3>1, <3>2
      DEF CountMiss, SInv, FreshCodeStartsClean, VerifiedByOwnCode, ghosts, Holds
  <2>4. CASE MarkVerified(r)
    <3>1. \A k \in Keys : Holds(k, req[r].id) => k \in matched
      BY <2>4 DEF MarkVerified, SInv, MarksTheMatch, Holds
    <3>2. \A k \in Keys : Holds(k, req[r].id) => rows'[k].attempts = rows[k].attempts
      BY <1>0, <2>4 DEF MarkVerified, Holds, Row
    <3> QED
      BY <2>4, <3>1, <3>2
      DEF MarkVerified, SInv, FreshCodeStartsClean, VerifiedByOwnCode, ghosts, Holds
  <2>5. CASE SendMail(r) \/ CreateUser(r) \/ FindUser(r) \/ UpdatePassword(r) \/ DbError(r)
    BY <2>5 DEF SendMail, CreateUser, FindUser, UpdatePassword, DbError, tables, ghosts,
                SInv, FreshCodeStartsClean, VerifiedByOwnCode
  <2> QED
    BY <2>1, <2>2, <2>3, <2>4, <2>5 DEF Proceed
<1> QED
  BY <1>1, <1>2 DEF SInv, CountsTheMiss, MarksTheMatch

LEMMA InitSerial == Init => SInv
BY DEF Init, Idle, SInv, FreshCodeStartsClean, VerifiedByOwnCode, CountsTheMiss, MarksTheMatch

LEMMA NextSerial == IInv /\ NoOverlap /\ SInv /\ [Next]_vars => SInv'
<1> SUFFICES ASSUME IInv, NoOverlap, SInv, [Next]_vars PROVE SInv'
  OBVIOUS
<1>0. /\ Typed /\ UniqueIds /\ rows \in [Keys -> Row \cup {None}]
  BY DEF IInv, Typed, TypeOK
<1>1. ASSUME NEW r \in Reqs, Request(r) PROVE SInv'
  <2>1. rows' = rows /\ \A q \in Reqs \ {r} : req'[q] = req[q]
    BY <1>0, <1>1, RequestStarts DEF Started, tables
  <2>2. /\ matched \subseteq matched' /\ missed \subseteq missed'
        /\ \A k \in Keys : rows[k] # None /\ rows[k].id = req'[r].id =>
             /\ req'[r].pc = "count" => k \in missed'
             /\ req'[r].pc = "mark" => k \in matched'
    BY <1>0, <1>1, RequestRecords
  <2> QED
    BY <2>1, <2>2 DEF SInv, FreshCodeStartsClean, VerifiedByOwnCode, CountsTheMiss,
                      MarksTheMatch
<1>2. ASSUME NEW r \in Reqs, Proceed(r) PROVE SInv'
  BY <1>0, <1>2, ProceedSerial
<1>3. ASSUME NEW k \in Keys, Expire(k) PROVE SInv'
  <2>1. \A l \in Keys : rows'[l] # None =>
          /\ rows[l] # None /\ rows'[l].id = rows[l].id
          /\ rows'[l].attempts = rows[l].attempts /\ rows'[l].verified = rows[l].verified
    BY <1>0, <1>3 DEF Expire, Row
  <2> QED
    BY <1>3, <2>1 DEF Expire, ghosts, SInv, FreshCodeStartsClean, VerifiedByOwnCode,
                      CountsTheMiss, MarksTheMatch
<1>4. CASE Crash
  BY <1>4 DEF Crash, Idle, tables, ghosts, SInv, FreshCodeStartsClean, VerifiedByOwnCode,
              CountsTheMiss, MarksTheMatch
<1>5. CASE UNCHANGED vars
  BY <1>5 DEF vars, SInv, FreshCodeStartsClean, VerifiedByOwnCode, CountsTheMiss,
              MarksTheMatch
<1> QED
  BY <1>1, <1>2, <1>3, <1>4, <1>5 DEF Next

LEMMA SerialInvariance == Spec /\ []NoOverlap => []SInv
BY Invariance, InitSerial, NextSerial, PTL DEF Spec

\* While requests do not overlap, a code that nobody answered wrongly has all its attempts.
\* (The serial run has one request slot, which leaves no room for overlap.)
THEOREM CodesStartClean == Spec /\ []NoOverlap => []FreshCodeStartsClean
<1>1. SInv => FreshCodeStartsClean
  BY DEF SInv
<1> QED
  BY <1>1, SerialInvariance, PTL

\* While requests do not overlap, a row is verified only by the code it holds now.
THEOREM OwnCodeVerifies == Spec /\ []NoOverlap => []VerifiedByOwnCode
<1>1. SInv => VerifiedByOwnCode
  BY DEF SInv
<1> QED
  BY <1>1, SerialInvariance, PTL
=============================================================================

----------------------------- MODULE AuthCodes -----------------------------
(***************************************************************************)
(* The e-mail codes behind registration and password reset: the table      *)
(* VerificationCode, the table User (one password per e-mail), and the     *)
(* HTTP requests in flight in the one API process.  Every await of a       *)
(* handler is a point where other requests run, so a handler is a chain of *)
(* steps, each one database or mail call with the checks made on its       *)
(* result.  A request keeps between its steps only what the handler keeps  *)
(* in its local variables: the snapshot it read may be stale when used.    *)
(*                                                                         *)
(* Time is abstracted to the one question the code asks of it: a row is    *)
(* `expired' once Date.now() > expiresAt.  A password stands for the pair  *)
(* of password hash and name that a pending registration carries.          *)
(*                                                                         *)
(* The operators named after a mistake (LastAttemptLate, ConsumeIfAny...)  *)
(* stand before the one they distort and are used by nothing: they show    *)
(* that the properties tell the code from a plausible error.               *)
(***************************************************************************)
EXTENDS Naturals

CONSTANTS Emails, Codes, Passwords,
          Reqs,          \* slots for requests in flight
          ClientOps,     \* the endpoints the clients call
          MaxAttempts,   \* MAX_CODE_ATTEMPTS, and the literal 5 of the reset store
          MaxId,         \* the last id the table can give to a row (bound)
          None

AllOps   == {"send", "verify", "register", "forgot", "verifyReset", "reset"}
Purposes == {"REGISTER", "PASSWORD_RESET"}
Ids      == 1..MaxId
Keys     == Emails \X Purposes           \* @@unique([email, purpose])

Row == [id : Ids, code : Codes, password : Passwords \cup {None},
        verified : BOOLEAN, attempts : 0..(MaxAttempts - 1), expired : BOOLEAN]

ASSUME BoundsAssumption == MaxAttempts \in Nat \ {0} /\ MaxId \in Nat
ASSUME OpsAssumption    == ClientOps \subseteq AllOps
ASSUME NoneAssumption   == /\ None \notin Emails \cup Codes \cup Passwords
                           /\ None \notin Row

VARIABLES rows,      \* the VerificationCode table, by its unique key
          nextId,    \* its AUTO_INCREMENT
          password,  \* the User table: the password of each e-mail, None without account
          req,       \* the requests
          \* Ghosts: they record what happened and enable nothing.
          proved,    \* ids of the rows for which the current code was presented
          matched,   \* keys whose current code was presented since it was issued
          missed     \* keys whose current code was answered wrongly since it was issued

ghosts == <<proved, matched, missed>>
tables == <<rows, nextId, password>>
vars   == <<rows, nextId, password, req, proved, matched, missed>>

Purpose(op) == IF op \in {"send", "verify", "register"} THEN "REGISTER" ELSE "PASSWORD_RESET"
Key(e, op)  == <<e, Purpose(op)>>
Holds(k, id) == rows[k] # None /\ rows[k].id = id
Exists(id)   == \E k \in Keys : Holds(k, id)

Idle == [pc |-> "idle", op |-> None, email |-> None, password |-> None,
         id |-> 0, attempts |-> 0, status |-> 0]
Free(r) == req[r].pc \in {"idle", "done"}

\* A handler starts for endpoint op; the rest of the action is its first read.
Starts(r, op) == Free(r) /\ op \in ClientOps

Await(r, pc, op, e, p, id, n) ==
  req' = [req EXCEPT ![r] = [pc |-> pc, op |-> op, email |-> e, password |-> p,
                             id |-> id, attempts |-> n, status |-> 0]]
Goto(r, pc) == req' = [req EXCEPT ![r].pc = pc]
Reply(r, op, e, st) ==
  req' = [req EXCEPT ![r] = [pc |-> "done", op |-> op, email |-> e, password |-> None,
                             id |-> 0, attempts |-> 0, status |-> st]]
Answer(r, st) == Reply(r, req[r].op, req[r].email, st)

-----------------------------------------------------------------------------
(* The first step of each endpoint. *)

\* sendVerificationCode: an e-mail with an account gets the same answer and no code.
SendVerificationCode(r, e, p) ==
  /\ Starts(r, "send")
  /\ IF password[e] # None THEN Reply(r, "send", e, 200)
                           ELSE Await(r, "upsert", "send", e, p, 0, 0)
  /\ UNCHANGED <<tables, ghosts>>

ForgotPasswordAnyone(r, e) ==
  /\ Starts(r, "forgot")
  /\ Await(r, "upsert", "forgot", e, None, 0, 0)
  /\ UNCHANGED <<tables, ghosts>>
ForgotPassword(r, e) ==
  /\ Starts(r, "forgot")
  /\ IF password[e] = None THEN Reply(r, "forgot", e, 200)
                           ELSE Await(r, "upsert", "forgot", e, None, 0, 0)
  /\ UNCHANGED <<tables, ghosts>>

\* verify and verifyPasswordReset: the row is read once, and everything decided from it.
Refused(r, op, e) ==
  \/ rows[Key(e, op)] = None /\ Reply(r, op, e, 400)
  \/ rows[Key(e, op)] # None /\ rows[Key(e, op)].expired /\ Reply(r, op, e, 410)

LastAttemptLate(row) == row.attempts + 1 > MaxAttempts
LastAttempt(row) == row.attempts + 1 >= MaxAttempts

Verify(r, op, e, c) ==
  LET k   == Key(e, op)
      row == rows[k]
      live == row # None /\ ~row.expired
      right == row.attempts < MaxAttempts /\ row.code = c
  IN  /\ op \in {"verify", "verifyReset"}
      /\ Starts(r, op)
      /\ \/ Refused(r, op, e) /\ UNCHANGED ghosts
         \/ /\ live /\ ~right
            /\ Await(r, IF LastAttempt(row) THEN "drop" ELSE "count",
                     op, e, None, row.id, row.attempts)
            /\ missed' = missed \cup {k}
            /\ UNCHANGED <<proved, matched>>
         \/ /\ live /\ right
            /\ Await(r, "mark", op, e, None, row.id, 0)
            /\ proved' = proved \cup {row.id}
            /\ matched' = matched \cup {k}
            /\ UNCHANGED missed
      /\ UNCHANGED tables

\* consumeVerified, called by register.
Register(r, e) ==
  LET row == rows[Key(e, "register")]
  IN  /\ Starts(r, "register")
      /\ \/ Refused(r, "register", e)
         \/ /\ row # None /\ ~row.expired
            /\ IF ~row.verified \/ row.password = None
               THEN Reply(r, "register", e, 400)
               ELSE Await(r, "consume", "register", e, row.password, row.id, 0)
      /\ UNCHANGED <<tables, ghosts>>

\* consumePasswordResetVerified, called by resetPassword; it compares the code again.
ResetPassword(r, e, c, p) ==
  LET row == rows[Key(e, "reset")]
  IN  /\ Starts(r, "reset")
      /\ \/ Refused(r, "reset", e)
         \/ /\ row # None /\ ~row.expired
            /\ IF ~row.verified \/ row.code # c
               THEN Reply(r, "reset", e, 400)
               ELSE Await(r, "consume", "reset", e, p, row.id, 0)
      /\ UNCHANGED <<tables, ghosts>>

-----------------------------------------------------------------------------
(* The later steps. *)

ReissuedKeepingAttempts(k, c, p) ==
  IF rows[k] = None
  THEN [id |-> nextId, code |-> c, password |-> p, verified |-> FALSE,
        attempts |-> 0, expired |-> FALSE]
  ELSE [rows[k] EXCEPT !.code = c, !.password = p, !.verified = FALSE, !.expired = FALSE]
ReissuedKeepingVerified(k, c, p) ==
  IF rows[k] = None
  THEN [id |-> nextId, code |-> c, password |-> p, verified |-> FALSE,
        attempts |-> 0, expired |-> FALSE]
  ELSE [rows[k] EXCEPT !.code = c, !.password = p, !.attempts = 0, !.expired = FALSE]

\* The row after the upsert: create and update set the same fields.
Issued(k, c, p) ==
  [id |-> IF rows[k] = None THEN nextId ELSE rows[k].id, code |-> c, password |-> p,
   verified |-> FALSE, attempts |-> 0, expired |-> FALSE]

\* setPending and setPasswordResetPending: an upsert on (email, purpose) keeps the id
\* of a row that is there.  A create fails when the ids have run out.
SetPending(r) ==
  LET k == Key(req[r].email, req[r].op)
      fresh == rows[k] = None
  IN  /\ req[r].pc = "upsert"
      /\ IF fresh /\ nextId > MaxId
         THEN Answer(r, 500) /\ UNCHANGED <<tables, ghosts>>
         ELSE /\ \E c \in Codes :
                   rows' = [rows EXCEPT ![k] = Issued(k, c, req[r].password)]
              /\ nextId' = IF fresh THEN nextId + 1 ELSE nextId
              /\ matched' = matched \ {k}
              /\ missed' = missed \ {k}
              /\ Goto(r, "mail")
              /\ UNCHANGED <<password, proved>>

SendMailRetrying(r) ==
  /\ req[r].pc = "mail"
  /\ Answer(r, 200) \/ Goto(r, "upsert")
  /\ UNCHANGED <<tables, ghosts>>

\* The mail is sent after the row is stored; a failure (503, shown as 500) leaves the row.
SendMail(r) ==
  /\ req[r].pc = "mail"
  /\ \E st \in {200, 500} : Answer(r, st)
  /\ UNCHANGED <<tables, ghosts>>

DeleteRow(id) == rows' = [k \in Keys |-> IF Holds(k, id) THEN None ELSE rows[k]]

\* The attempt that reaches the limit deletes the row by id.
DropRow(r) ==
  /\ req[r].pc = "drop"
  /\ DeleteRow(req[r].id)
  /\ Answer(r, IF Exists(req[r].id) THEN 429 ELSE 500)
  /\ UNCHANGED <<nextId, password, ghosts>>

\* attempts is written from the snapshot, whatever the row holds by now.
CountMiss(r) ==
  /\ req[r].pc = "count"
  /\ rows' = [k \in Keys |-> IF Holds(k, req[r].id)
                             THEN [rows[k] EXCEPT !.attempts = req[r].attempts + 1]
                             ELSE rows[k]]
  /\ Answer(r, IF Exists(req[r].id) THEN 400 ELSE 500)
  /\ UNCHANGED <<nextId, password, ghosts>>

MarkVerifiedByKey(r) ==
  LET k == Key(req[r].email, req[r].op)
  IN  /\ req[r].pc = "mark"
      /\ rows' = IF rows[k] = None THEN rows ELSE [rows EXCEPT ![k].verified = TRUE]
      /\ Answer(r, IF rows[k] = None THEN 500 ELSE 200)
      /\ UNCHANGED <<nextId, password, ghosts>>

MarkVerified(r) ==
  /\ req[r].pc = "mark"
  /\ rows' = [k \in Keys |-> IF Holds(k, req[r].id)
                             THEN [rows[k] EXCEPT !.verified = TRUE]
                             ELSE rows[k]]
  /\ Answer(r, IF Exists(req[r].id) THEN 200 ELSE 500)
  /\ UNCHANGED <<nextId, password, ghosts>>

ConsumeIfAny(r) ==
  /\ req[r].pc = "consume"
  /\ DeleteRow(req[r].id)
  /\ Goto(r, IF req[r].op = "register" THEN "create" ELSE "find")
  /\ UNCHANGED <<nextId, password, ghosts>>

\* Consuming deletes by id: of two requests that read the same row only one gets on.
Consume(r) ==
  /\ req[r].pc = "consume"
  /\ DeleteRow(req[r].id)
  /\ IF Exists(req[r].id)
     THEN Goto(r, IF req[r].op = "register" THEN "create" ELSE "find")
     ELSE Answer(r, 500)
  /\ UNCHANGED <<nextId, password, ghosts>>

CreateOrReplaceUser(r) ==
  /\ req[r].pc = "create"
  /\ password' = [password EXCEPT ![req[r].email] = req[r].password] /\ Answer(r, 201)
  /\ UNCHANGED <<rows, nextId, ghosts>>

\* createUserFromPasswordHash: User.email is unique.
CreateUser(r) ==
  LET e == req[r].email
  IN  /\ req[r].pc = "create"
      /\ IF password[e] = None
         THEN password' = [password EXCEPT ![e] = req[r].password] /\ Answer(r, 201)
         ELSE UNCHANGED password /\ Answer(r, 409)
      /\ UNCHANGED <<rows, nextId, ghosts>>

FindUser(r) ==
  /\ req[r].pc = "find"
  /\ IF password[req[r].email] # None THEN Goto(r, "update") ELSE Answer(r, 404)
  /\ UNCHANGED <<tables, ghosts>>

UpdatePassword(r) ==
  /\ req[r].pc = "update"
  /\ password' = [password EXCEPT ![req[r].email] = req[r].password]
  /\ Answer(r, 200)
  /\ UNCHANGED <<rows, nextId, ghosts>>

\* A database call fails without effect: the handler answers 500 (or 409 when two upserts
\* create the same row) and what it did before stays done.
DbError(r) ==
  /\ ~Free(r) /\ req[r].pc # "mail"
  /\ Answer(r, 500)
  /\ UNCHANGED <<tables, ghosts>>

-----------------------------------------------------------------------------
\* The five minutes of a row pass.
Expire(k) == /\ rows[k] # None /\ ~rows[k].expired
             /\ rows' = [rows EXCEPT ![k].expired = TRUE]
             /\ UNCHANGED <<nextId, password, req, ghosts>>

\* The process dies and is restarted: the tables stay, the requests are gone.
Crash == /\ \E r \in Reqs : ~Free(r)
         /\ req' = [r \in Reqs |-> Idle]
         /\ UNCHANGED <<tables, ghosts>>

Init == /\ rows = [k \in Keys |-> None]
        /\ nextId = 1
        /\ password \in [Emails -> Passwords \cup {None}]
        /\ req = [r \in Reqs |-> Idle]
        /\ proved = {} /\ matched = {} /\ missed = {}

Request(r) ==
  \/ \E e \in Emails, p \in Passwords : SendVerificationCode(r, e, p)
  \/ \E e \in Emails : ForgotPassword(r, e)
  \/ \E op \in AllOps, e \in Emails, c \in Codes : Verify(r, op, e, c)
  \/ \E e \in Emails : Register(r, e)
  \/ \E e \in Emails, c \in Codes, p \in Passwords : ResetPassword(r, e, c, p)

Proceed(r) ==
  \/ SetPending(r) \/ SendMail(r)
  \/ DropRow(r) \/ CountMiss(r) \/ MarkVerified(r)
  \/ Consume(r) \/ CreateUser(r) \/ FindUser(r) \/ UpdatePassword(r)
  \/ DbError(r)

Next == \/ \E r \in Reqs : Request(r) \/ Proceed(r)
        \/ \E k \in Keys : Expire(k)
        \/ Crash

\* A handler that has started goes on: Node's event loop and the calls it waits for
\* come back, with a result or an error.  Nothing makes a client call, a row expire
\* or the process crash.
Fairness == \A r \in Reqs : WF_vars(Proceed(r))

Spec == Init /\ [][Next]_vars
FairSpec == Spec /\ Fairness
-----------------------------------------------------------------------------
(* Properties. *)

HoldsGrant(r) == req[r].pc \in {"create", "find", "update"}

Request0 == [pc : {"idle", "done", "upsert", "mail", "drop", "count", "mark",
                   "consume", "create", "find", "update"},
             op : AllOps \cup {None}, email : Emails \cup {None},
             password : Passwords \cup {None}, id : 0..MaxId,
             attempts : 0..(MaxAttempts - 1),
             status : {0, 200, 201, 400, 404, 409, 410, 429, 500}]

\* Every variable has its type.
TypeOK == /\ rows \in [Keys -> Row \cup {None}]
          /\ nextId \in 1..(MaxId + 1)
          /\ password \in [Emails -> Passwords \cup {None}]
          /\ req \in [Reqs -> Request0]
          /\ proved \subseteq Ids /\ matched \subseteq Keys /\ missed \subseteq Keys

\* One code, one use: the row of a request that has consumed it is gone from the table,
\* and no second request that read the same row gets past the delete
\* (emailVerificationStore.ts:137, passwordResetStore.ts:113).
SingleUse ==
  \A r \in Reqs : HoldsGrant(r) =>
    /\ ~Exists(req[r].id)
    /\ \A q \in Reqs \ {r} : HoldsGrant(q) => req[q].id # req[r].id

\* Nobody gets as far as creating an account or setting a password, nor finds a row
\* verified, unless a code mailed for that very row was presented: whatever the order in
\* which re-issues, marks by id, misses and deletes by id land.
GrantWasProved ==
  /\ \A k \in Keys : rows[k] # None /\ rows[k].verified => rows[k].id \in proved
  /\ \A r \in Reqs : req[r].pc \in {"mark", "consume"} \/ HoldsGrant(r)
                       => req[r].id \in proved

\* A password reset never finds its user missing (auth.service.ts:140 is defensive only):
\* reset rows are issued to accounts, and no code removes an account.
ResetHasAccount ==
  /\ \A e \in Emails : rows[<<e, "PASSWORD_RESET">>] # None => password[e] # None
  /\ \A r \in Reqs : req[r].pc \in {"find", "update"} => password[req[r].email] # None

\* A code that nobody answered wrongly has all its attempts left
\* ("Please request a new code", emailVerificationStore.ts:37).
FreshCodeStartsClean ==
  \A k \in Keys : rows[k] # None /\ k \notin missed => rows[k].attempts = 0

\* A row is verified by presenting the code it holds now, not the one it held before a
\* re-issue.
VerifiedByOwnCode ==
  \A k \in Keys : rows[k] # None /\ rows[k].verified => k \in matched

\* Every request is answered, or lost in a crash.
EveryRequestAnswered == \A r \in Reqs : ~Free(r) ~> Free(r)

\* The tickets of OneTimeGrant: a row of the table, or the id a request has consumed.
TicketOf(k) == [st |-> IF rows[k].id \in proved THEN "proved" ELSE "issued",
                email |-> k[1], purpose |-> k[2]]
ticketBar ==
  [t \in Ids |->
     IF Exists(t) THEN TicketOf(CHOOSE k \in Keys : Holds(k, t))
     ELSE IF \E r \in Reqs : HoldsGrant(r) /\ req[r].id = t
          THEN LET r == CHOOSE r \in Reqs : HoldsGrant(r) /\ req[r].id = t
               IN  [st |-> "spent", email |-> req[r].email, purpose |-> Purpose(req[r].op)]
     ELSE [st |-> IF t < nextId THEN "gone" ELSE "unissued",
           email |-> None, purpose |-> None]]

Promise == INSTANCE OneTimeGrant WITH Tickets <- Ids, ticket <- ticketBar,
                                      account <- password

\* The requests and tables keep the promise of OneTimeGrant: tickets are proved before
\* they are spent, spent once, and accounts change only by using up a spent one.
RefinesPromise == Promise!GSpec
=============================================================================

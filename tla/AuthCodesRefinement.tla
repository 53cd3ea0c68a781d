------------------------- MODULE AuthCodesRefinement -------------------------
(***************************************************************************)
(* The handlers of the e-mail codes keep the promise of OneTimeGrant, for  *)
(* any number of e-mails, codes, requests in flight, attempts and row ids. *)
(* Two facts are added to the invariant of AuthCodesProofs: a proved id    *)
(* has been handed out, and the row a request is about to consume is the   *)
(* row of the key it was made for.  Then every step of every handler is    *)
(* shown to be one action of the promise, or to change no ticket and no    *)
(* account.                                                                *)
(***************************************************************************)
EXTENDS AuthCodesProofs

ProvedAreIssued == \A t \in proved : t < nextId

ConsumesOwnRow ==
  \A r \in Reqs : req[r].pc = "consume" =>
    \A k \in Keys : Holds(k, req[r].id) => k = Key(req[r].email, req[r].op)

RInv == IInv /\ ProvedAreIssued /\ ConsumesOwnRow

-----------------------------------------------------------------------------
(* The two added facts. *)

\* A first step proves nothing, or the id of one row that is there.
LEMMA RequestProves ==
  ASSUME NEW r \in Reqs, Request(r)
  PROVE  \/ proved' = proved
         \/ \E k \in Keys : rows[k] # None /\ proved' = proved \cup {rows[k].id}
<1>1. ASSUME NEW op \in AllOps, NEW e \in Emails, NEW c \in Codes, Verify(r, op, e, c)
      PROVE  \/ proved' = proved
             \/ \E k \in Keys : rows[k] # None /\ proved' = proved \cup {rows[k].id}
  BY <1>1, KeyFact DEF Verify, ghosts
<1> QED
  BY <1>1 DEF Request, SendVerificationCode, ForgotPassword, Register, ResetPassword, ghosts

\* A first step that leads to consuming read the row of its own key.
LEMMA RequestReadsOwnRow ==
  ASSUME Typed, NEW r \in Reqs, Request(r), req'[r].pc = "consume"
  PROVE  LET k == Key(req'[r].email, req'[r].op)
         IN  k \in Keys /\ rows[k] # None /\ req'[r].id = rows[k].id
<1>0. /\ req \in [Reqs -> Request0]
      /\ \A k \in Keys : rows[k] # None => rows[k] \in Row
      /\ 0 \in 0..MaxId /\ 0 \in 0..(MaxAttempts - 1)
  BY BoundsAssumption DEF Typed, TypeOK
<1> DEFINE Own == LET k == Key(req'[r].email, req'[r].op)
                  IN  k \in Keys /\ rows[k] # None /\ req'[r].id = rows[k].id
<1>a. ASSUME NEW op \in AllOps, NEW e \in Emails, NEW st \in Statuses, Reply(r, op, e, st)
      PROVE  FALSE
  BY <1>0, <1>a, ReplyFact
<1>b. ASSUME NEW pc \in {"upsert", "drop", "count", "mark"}, NEW op \in AllOps,
             NEW e \in Emails, NEW p \in Passwords \cup {None}, NEW id \in 0..MaxId,
             NEW n \in 0..(MaxAttempts - 1), Await(r, pc, op, e, p, id, n)
      PROVE  FALSE
  BY <1>0, <1>b, AwaitFact
<1>r. ASSUME NEW op \in AllOps, NEW e \in Emails, Refused(r, op, e)
      PROVE  FALSE
  BY <1>a, <1>r DEF Refused, Statuses
<1>c. ASSUME NEW op \in {"register", "reset"}, NEW e \in Emails, NEW p \in Passwords \cup {None},
             rows[Key(e, op)] # None,
             Await(r, "consume", op, e, p, rows[Key(e, op)].id, 0)
      PROVE  Own
  <2>1. op \in AllOps /\ Key(e, op) \in Keys
    BY KeyFact DEF AllOps
  <2>2. rows[Key(e, op)].id \in 0..MaxId
    BY <1>0, <1>c, <2>1 DEF Row, Ids
  <2>3. req'[r].op = op /\ req'[r].email = e /\ req'[r].id = rows[Key(e, op)].id
    BY <1>0, <1>c, <2>1, <2>2, AwaitFact
  <2> QED
    BY <1>c, <2>1, <2>3
<1>1. ASSUME NEW e \in Emails, NEW p \in Passwords, SendVerificationCode(r, e, p)
      PROVE  FALSE
  BY <1>0, <1>1, <1>a, <1>b DEF SendVerificationCode, AllOps, Statuses
<1>2. ASSUME NEW e \in Emails, ForgotPassword(r, e)
      PROVE  FALSE
  BY <1>0, <1>2, <1>a, <1>b DEF ForgotPassword, AllOps, Statuses
<1>3. ASSUME NEW op \in AllOps, NEW e \in Emails, NEW c \in Codes, Verify(r, op, e, c)
      PROVE  FALSE
  <2> DEFINE row == rows[Key(e, op)]
  <2>1. row # None => row.id \in 0..MaxId /\ row.attempts \in 0..(MaxAttempts - 1)
    BY <1>0, KeyFact DEF Row, Ids
  <2> QED
    BY <1>0, <1>3, <1>b, <1>r, <2>1 DEF Verify
<1>4. ASSUME NEW e \in Emails, Register(r, e)
      PROVE  Own
  <2>1. rows[Key(e, "register")] # None =>
          rows[Key(e, "register")].password \in Passwords \cup {None}
    BY <1>0, KeyFact DEF Row, AllOps
  <2> QED
    BY <1>4, <1>a, <1>c, <1>r, <2>1 DEF Register, AllOps, Statuses
<1>5. ASSUME NEW e \in Emails, NEW c \in Codes, NEW p \in Passwords, ResetPassword(r, e, c, p)
      PROVE  Own
  BY <1>5, <1>a, <1>c, <1>r DEF ResetPassword, AllOps, Statuses
<1> QED
  BY <1>1, <1>2, <1>3, <1>4, <1>5 DEF Request

\* A later step proves nothing, and takes no id back.
LEMMA ProceedIssues ==
  ASSUME Typed, NEW r \in Reqs, Proceed(r)
  PROVE  proved' = proved /\ nextId \in Nat /\ nextId' \in Nat /\ nextId <= nextId'
<1>0. nextId \in Nat
  BY BoundsAssumption DEF Typed, TypeOK
<1>1. proved' = proved
  BY DEF Proceed, SetPending, SendMail, DropRow, CountMiss, MarkVerified, Consume,
         CreateUser, FindUser, UpdatePassword, DbError, ghosts
<1>2. nextId' = nextId \/ nextId' = nextId + 1
  BY DEF Proceed, SetPending, SendMail, DropRow, CountMiss, MarkVerified, Consume,
         CreateUser, FindUser, UpdatePassword, DbError, tables
<1> QED
  BY <1>0, <1>1, <1>2

\* A row that is there after a later step was there before it, but for a new one.
LEMMA RowsAreOld ==
  ASSUME Typed, NEW r \in Reqs, Proceed(r), NEW k \in Keys, NEW id, id # nextId, Holds(k, id)'
  PROVE  Holds(k, id)
<1>0. /\ rows \in [Keys -> Row \cup {None}]
      /\ rows'[k] # None /\ rows'[k].id = id
  BY DEF Typed, TypeOK, Holds
<1>1. CASE SetPending(r)
  <2> DEFINE l == Key(req[r].email, req[r].op)
  <2>0. l \in Keys
    BY <1>1, KeyFact DEF SetPending, Typed, Flight, Free
  <2>1. CASE rows' = rows
    BY <1>0, <2>1 DEF Holds
  <2>2. CASE \E c \in Codes : rows' = [rows EXCEPT ![l] = Issued(l, c, req[r].password)]
    BY <1>0, <2>0, <2>2 DEF Holds, Issued
  <2> QED
    BY <1>1, <2>1, <2>2 DEF SetPending, tables
<1>2. CASE DropRow(r) \/ Consume(r)
  BY <1>0, <1>2, DeleteFact DEF DropRow, Consume, Holds
<1>3. CASE CountMiss(r) \/ MarkVerified(r)
  BY <1>0, <1>3 DEF CountMiss, MarkVerified, Holds, Row
<1>4. CASE rows' = rows
  BY <1>0, <1>4 DEF Holds
<1> QED
  BY <1>1, <1>2, <1>3, <1>4 DEF Proceed, SendMail, CreateUser, FindUser, UpdatePassword,
                               DbError, tables

LEMMA InitRefinement == Init => ProvedAreIssued /\ ConsumesOwnRow
BY DEF Init, Idle, ProvedAreIssued, ConsumesOwnRow

LEMMA NextRefinement == RInv /\ [Next]_vars => ProvedAreIssued' /\ ConsumesOwnRow'
<1> SUFFICES ASSUME RInv, [Next]_vars PROVE ProvedAreIssued' /\ ConsumesOwnRow'
  OBVIOUS
<1>0. /\ Typed /\ rows \in [Keys -> Row \cup {None}] /\ nextId \in Nat
      /\ proved \subseteq Ids /\ Ids \subseteq Nat
      /\ \A q \in Reqs : req[q].id # nextId
  <2>1. Typed /\ rows \in [Keys -> Row \cup {None}] /\ nextId \in Nat /\ proved \subseteq Ids
    BY BoundsAssumption DEF RInv, IInv, Typed, TypeOK
  <2>2. Ids \subseteq Nat /\ \A x \in Request0 : x.id \in Nat
    BY BoundsAssumption DEF Ids, Request0
  <2>3. \A q \in Reqs : req[q].id \in Nat /\ req[q].id < nextId
    BY <2>1, <2>2 DEF Typed, TypeOK, RInv, IInv, FreshIds
  <2> QED
    BY <2>1, <2>2, <2>3
<1>1. ASSUME NEW r \in Reqs, Request(r) PROVE ProvedAreIssued' /\ ConsumesOwnRow'
  <2>1. UNCHANGED tables /\ \A q \in Reqs \ {r} : req'[q] = req[q]
    BY <1>0, <1>1, RequestStarts DEF Started
  <2>2. ProvedAreIssued'
    BY <1>1, <2>1, RequestProves DEF RInv, IInv, FreshIds, ProvedAreIssued, tables
  <2>3. ASSUME NEW q \in Reqs, req'[q].pc = "consume", NEW k \in Keys, Holds(k, req'[q].id)
        PROVE  k = Key(req'[q].email, req'[q].op)
    <3>1. CASE q # r
      BY <2>1, <2>3, <3>1 DEF RInv, ConsumesOwnRow
    <3>2. CASE q = r
      BY <1>0, <1>1, <2>3, <3>2, RequestReadsOwnRow DEF RInv, IInv, UniqueIds, Holds
    <3> QED
      BY <3>1, <3>2
  <2> QED
    BY <2>1, <2>2, <2>3 DEF ConsumesOwnRow, Holds, tables
<1>2. ASSUME NEW r \in Reqs, Proceed(r) PROVE ProvedAreIssued' /\ ConsumesOwnRow'
  <2>1. ProvedAreIssued'
    <3>1. proved' = proved /\ nextId' \in Nat /\ nextId <= nextId'
      BY <1>0, <1>2, ProceedIssues
    <3>2. \A t \in proved : t \in Nat /\ t < nextId
      BY <1>0 DEF RInv, ProvedAreIssued
    <3> QED
      BY <1>0, <3>1, <3>2 DEF ProvedAreIssued
  <2>2. ASSUME NEW q \in Reqs, req'[q].pc = "consume", NEW k \in Keys, Holds(k, req[q].id)'
        PROVE  k = Key(req'[q].email, req'[q].op)
    <3>1. q # r /\ req'[q] = req[q]
      BY <1>0, <1>2, <2>2, ProceedRequests
    <3>2. Holds(k, req[q].id)
      BY <1>0, <1>2, <2>2, <3>1, RowsAreOld DEF Holds
    <3> QED
      BY <2>2, <3>1, <3>2 DEF RInv, ConsumesOwnRow
  <2> QED
    BY <2>1, <2>2 DEF ConsumesOwnRow, Holds
<1>3. ASSUME NEW k \in Keys, Expire(k) PROVE ProvedAreIssued' /\ ConsumesOwnRow'
  <2>1. \A l \in Keys : rows'[l] # None => rows[l] # None /\ rows'[l].id = rows[l].id
    BY <1>0, <1>3 DEF Expire, Row
  <2> QED
    BY <1>3, <2>1 DEF RInv, ProvedAreIssued, ConsumesOwnRow, Expire, Holds, ghosts
<1>4. CASE Crash
  BY <1>4 DEF RInv, Crash, Idle, ProvedAreIssued, ConsumesOwnRow, tables, ghosts
<1>5. CASE UNCHANGED vars
  BY <1>5 DEF RInv, vars, ProvedAreIssued, ConsumesOwnRow, Holds
<1> QED
  BY <1>1, <1>2, <1>3, <1>4, <1>5 DEF Next

LEMMA RefinementInvariance == Spec => []RInv
BY Invariance, InitRefinement, NextRefinement, PTL DEF Spec, RInv

-----------------------------------------------------------------------------
(* The tickets, read off the table and the requests without CHOOSE. *)

Spent(q) == [st |-> "spent", email |-> req[q].email, purpose |-> Purpose(req[q].op)]
Lost(t)  == [st |-> IF t < nextId THEN "gone" ELSE "unissued", email |-> None, purpose |-> None]

TicketShape ==
  /\ ticketBar = [t \in Ids |-> ticketBar[t]]
  /\ \A t \in Ids, k \in Keys : Holds(k, t) => ticketBar[t] = TicketOf(k)
  /\ \A t \in Ids, q \in Reqs : HoldsGrant(q) /\ req[q].id = t => ticketBar[t] = Spent(q)
  /\ \A t \in Ids : /\ \A k \in Keys : ~Holds(k, t)
                    /\ \A q \in Reqs : ~(HoldsGrant(q) /\ req[q].id = t)
                    => ticketBar[t] = Lost(t)

LEMMA TicketShapes == RInv => TicketShape
<1> SUFFICES ASSUME RInv PROVE TicketShape
  OBVIOUS
<1>0. UniqueIds /\ SingleUse
  BY DEF RInv, IInv
<1>1. ticketBar = [t \in Ids |-> ticketBar[t]]
  BY DEF ticketBar
<1>2. ASSUME NEW t \in Ids, NEW k \in Keys, Holds(k, t)
      PROVE  ticketBar[t] = TicketOf(k)
  <2>1. Exists(t)
    BY <1>2 DEF Exists
  <2>2. (CHOOSE l \in Keys : Holds(l, t)) = k
    BY <1>0, <1>2 DEF UniqueIds, Holds
  <2> QED
    BY <2>1, <2>2 DEF ticketBar
<1>3. ASSUME NEW t \in Ids, NEW q \in Reqs, HoldsGrant(q), req[q].id = t
      PROVE  ticketBar[t] = Spent(q)
  <2>1. ~Exists(t) /\ \E r \in Reqs : HoldsGrant(r) /\ req[r].id = t
    BY <1>0, <1>3 DEF SingleUse
  <2>2. (CHOOSE r \in Reqs : HoldsGrant(r) /\ req[r].id = t) = q
    BY <1>0, <1>3 DEF SingleUse
  <2> QED
    BY <2>1, <2>2 DEF ticketBar, Spent
<1>4. ASSUME NEW t \in Ids, \A k \in Keys : ~Holds(k, t),
             \A q \in Reqs : ~(HoldsGrant(q) /\ req[q].id = t)
      PROVE  ticketBar[t] = Lost(t)
  BY <1>4 DEF ticketBar, Exists, Lost
<1> QED
  BY <1>1, <1>2, <1>3, <1>4 DEF TicketShape

\* Nothing that the ticket of id t stands for changes in this step.
Undisturbed(t) ==
  /\ \A k \in Keys : Holds(k, t)' <=> Holds(k, t)
  /\ t \in proved' <=> t \in proved
  /\ t < nextId' <=> t < nextId
  /\ \A q \in Reqs : /\ HoldsGrant(q)' /\ req'[q].id = t <=> HoldsGrant(q) /\ req[q].id = t
                     /\ HoldsGrant(q) /\ HoldsGrant(q)' =>
                          req'[q].email = req[q].email /\ req'[q].op = req[q].op

LEMMA TicketKept ==
  ASSUME TicketShape, TicketShape', NEW t \in Ids, Undisturbed(t)
  PROVE  ticketBar'[t] = ticketBar[t]
<1>1. CASE \E k \in Keys : Holds(k, t)
  <2>1. PICK k \in Keys : Holds(k, t)
    BY <1>1
  <2>2. Holds(k, t)' /\ rows[k].id = t /\ rows'[k].id = t
    BY <2>1 DEF Undisturbed, Holds
  <2>3. ticketBar[t] = TicketOf(k) /\ ticketBar'[t] = TicketOf(k)'
    BY <2>1, <2>2 DEF TicketShape
  <2> QED
    BY <2>2, <2>3 DEF Undisturbed, TicketOf
<1>2. CASE \E q \in Reqs : HoldsGrant(q) /\ req[q].id = t
  <2>1. PICK q \in Reqs : HoldsGrant(q) /\ req[q].id = t
    BY <1>2
  <2>2. HoldsGrant(q)' /\ req'[q].id = t /\ Spent(q)' = Spent(q)
    BY <2>1 DEF Undisturbed, Spent
  <2>3. ticketBar[t] = Spent(q) /\ ticketBar'[t] = Spent(q)'
    BY <2>1, <2>2 DEF TicketShape
  <2> QED
    BY <2>2, <2>3
<1>3. CASE /\ \A k \in Keys : ~Holds(k, t)
           /\ \A q \in Reqs : ~(HoldsGrant(q) /\ req[q].id = t)
  <2>1. ticketBar[t] = Lost(t)
    BY <1>3 DEF TicketShape
  <2>2. /\ \A k \in Keys : ~Holds(k, t)'
        /\ \A q \in Reqs : ~(HoldsGrant(q)' /\ req'[q].id = t)
    BY <1>3 DEF Undisturbed
  <2>3. ticketBar'[t] = Lost(t)'
    BY <2>2 DEF TicketShape
  <2>4. Lost(t)' = Lost(t)
    BY DEF Undisturbed, Lost
  <2> QED
    BY <2>1, <2>3, <2>4
<1> QED
  BY <1>1, <1>2, <1>3

\* The ticket of a row that is there after a step.
LEMMA TicketAfter ==
  ASSUME TicketShape', NEW k \in Keys, NEW t \in Ids, rows'[k] # None, rows'[k].id = t
  PROVE  ticketBar'[t] = [st |-> IF t \in proved' THEN "proved" ELSE "issued",
                          email |-> k[1], purpose |-> k[2]]
BY DEF TicketShape, TicketOf, Holds

\* When nothing is disturbed the tickets stay; when all but one are undisturbed, that one
\* is written.
LEMMA TicketsKept ==
  ASSUME TicketShape, TicketShape', \A t \in Ids : Undisturbed(t)
  PROVE  ticketBar' = ticketBar
<1>1. \A t \in Ids : ticketBar'[t] = ticketBar[t]
  BY TicketKept
<1> QED
  BY <1>1 DEF TicketShape

LEMMA TicketWritten ==
  ASSUME TicketShape, TicketShape', NEW t \in Ids, \A u \in Ids \ {t} : Undisturbed(u)
  PROVE  ticketBar' = [ticketBar EXCEPT ![t] = ticketBar'[t]]
<1>1. \A u \in Ids \ {t} : ticketBar'[u] = ticketBar[u]
  BY TicketKept
<1> QED
  BY <1>1 DEF TicketShape

\* A step that leaves the accounts alone and loses some tickets.
LEMMA TicketsVoided ==
  ASSUME TicketShape, TicketShape', password' = password,
         \A t \in Ids : \/ ticketBar'[t] = ticketBar[t]
                        \/ ticketBar[t] # Promise!Unissued /\ ticketBar'[t] = Promise!Gone
  PROVE  Promise!GNext
<1> DEFINE S == {t \in Ids : ticketBar'[t] # ticketBar[t]}
<1>1. ticketBar' = [t \in Ids |-> IF t \in S THEN Promise!Gone ELSE ticketBar[t]]
  BY DEF TicketShape
<1>2. Promise!Void(S)
  BY <1>1 DEF Promise!Void
<1> QED
  BY <1>2 DEF Promise!GNext

-----------------------------------------------------------------------------
(* The steps. *)

\* What the mapped steps use of the invariant.
LEMMA RefinementFacts ==
  ASSUME RInv
  PROVE  /\ req \in [Reqs -> Request0] /\ rows \in [Keys -> Row \cup {None}]
         /\ nextId \in Nat /\ Ids \subseteq Nat
         /\ \A k \in Keys : rows[k] # None => rows[k].id \in Ids /\ rows[k].id < nextId
         /\ \A q \in Reqs : req[q].id < nextId /\ req[q].id \in Nat
         /\ \A q \in Reqs : HoldsGrant(q) => req[q].id \in Ids
<1>1. /\ req \in [Reqs -> Request0] /\ rows \in [Keys -> Row \cup {None}]
      /\ nextId \in Nat /\ proved \subseteq Ids
  BY BoundsAssumption DEF RInv, IInv, Typed, TypeOK
<1>2. /\ \A x \in Row : x.id \in Ids
      /\ \A x \in Request0 : x.id \in Nat
      /\ Ids \subseteq Nat
  BY BoundsAssumption DEF Row, Request0, Ids
<1>3. \A k \in Keys : rows[k] # None => rows[k].id \in Ids /\ rows[k].id < nextId
  BY <1>1, <1>2 DEF RInv, IInv, FreshIds
<1>4. \A q \in Reqs : HoldsGrant(q) => req[q].id \in Ids
  BY <1>1 DEF RInv, IInv, GrantWasProved
<1> QED
  BY <1>1, <1>2, <1>3, <1>4 DEF RInv, IInv, FreshIds

\* An answer on its own loses the ticket the request had consumed, if any.
LEMMA AnswerVoids ==
  ASSUME RInv, TicketShape, TicketShape', NEW r \in Reqs, NEW st \in Statuses,
         ~Free(r), Answer(r, st), UNCHANGED <<tables, ghosts>>
  PROVE  Promise!GNext
<1>1. req'[r].pc = "done" /\ \A q \in Reqs \ {r} : req'[q] = req[q]
  BY AnswerFact DEF RInv, IInv
<1>2. rows' = rows /\ nextId' = nextId /\ password' = password /\ proved' = proved
  BY DEF tables, ghosts
<1>3. ASSUME NEW t \in Ids, HoldsGrant(r), req[r].id = t
      PROVE  ticketBar[t] # Promise!Unissued /\ ticketBar'[t] = Promise!Gone
  <2>1. ticketBar[t] = Spent(r)
    BY <1>3 DEF TicketShape
  <2>2. /\ \A k \in Keys : ~Holds(k, t)'
        /\ \A q \in Reqs : ~(HoldsGrant(q)' /\ req'[q].id = t)
    BY <1>1, <1>2, <1>3 DEF RInv, IInv, SingleUse, Exists, Holds, HoldsGrant
  <2>3. ticketBar'[t] = Lost(t)'
    BY <2>2 DEF TicketShape
  <2>4. t < nextId'
    BY <1>2, <1>3, RefinementFacts
  <2> QED
    BY <2>1, <2>3, <2>4 DEF Spent, Lost, Promise!Unissued, Promise!Gone
<1>4. ASSUME NEW t \in Ids, ~(HoldsGrant(r) /\ req[r].id = t)
      PROVE  ticketBar'[t] = ticketBar[t]
  <2>1. Undisturbed(t)
    BY <1>1, <1>2, <1>4 DEF Undisturbed, Holds, HoldsGrant
  <2> QED
    BY <2>1, TicketKept
<1> QED
  BY <1>2, <1>3, <1>4, TicketsVoided

\* A step that keeps the ids of the table, and the requests that have consumed a row.
LEMMA NothingHappens ==
  ASSUME TicketShape, TicketShape', UNCHANGED <<nextId, password, proved>>,
         \A k \in Keys, t \in Ids : Holds(k, t)' <=> Holds(k, t),
         \A q \in Reqs : /\ HoldsGrant(q)' <=> HoldsGrant(q)
                         /\ HoldsGrant(q) => /\ req'[q].id = req[q].id
                                             /\ req'[q].email = req[q].email
                                             /\ req'[q].op = req[q].op
  PROVE  UNCHANGED Promise!gvars
<1>1. \A t \in Ids : Undisturbed(t)
  BY DEF Undisturbed
<1> QED
  BY <1>1, TicketsKept DEF Promise!gvars

\* A first step proves the ticket of the row it read, or changes nothing.
LEMMA RequestMapped ==
  ASSUME RInv, TicketShape, TicketShape', NEW r \in Reqs, Request(r)
  PROVE  [Promise!GNext]_(Promise!gvars)
<1>0. /\ rows' = rows /\ nextId' = nextId /\ password' = password
      /\ \A q \in Reqs \ {r} : req'[q] = req[q]
      /\ ~HoldsGrant(r) /\ ~HoldsGrant(r)'
  <2>1. Started(r)
    BY RequestStarts DEF RInv, IInv
  <2>2. ~HoldsGrant(r)
    BY DEF Request, SendVerificationCode, ForgotPassword, Verify, Register, ResetPassword,
           Starts, Free, HoldsGrant
  <2> QED
    BY <2>1, <2>2 DEF Started, tables, HoldsGrant
<1>1. \A t \in Ids : (t \in proved' <=> t \in proved) => Undisturbed(t)
  BY <1>0 DEF Undisturbed, Holds, HoldsGrant
<1>2. CASE proved' = proved
  <2>1. ticketBar' = ticketBar
    BY <1>1, <1>2, TicketsKept
  <2> QED
    BY <1>0, <2>1 DEF Promise!gvars
<1>3. CASE proved' # proved
  <2>1. PICK k \in Keys : rows[k] # None /\ proved' = proved \cup {rows[k].id}
    BY <1>3, RequestProves
  <2> DEFINE t == rows[k].id
  <2>2. t \in Ids /\ Holds(k, t) /\ t \notin proved
    BY <1>3, <2>1, RefinementFacts DEF Holds
  <2>3. ticketBar[t] = TicketOf(k) /\ ticketBar[t].st = "issued"
    BY <2>2 DEF TicketShape, TicketOf
  <2>4. ticketBar'[t] = [ticketBar[t] EXCEPT !.st = "proved"]
    <3>1. rows'[k] # None /\ rows'[k].id = t
      BY <1>0, <2>1
    <3>2. ticketBar'[t] = TicketOf(k)'
      BY <2>2, <3>1 DEF TicketShape, Holds
    <3> QED
      BY <1>0, <2>1, <2>2, <2>3, <3>2 DEF TicketOf
  <2>5. ticketBar' = [ticketBar EXCEPT ![t] = ticketBar'[t]]
    BY <1>1, <2>1, <2>2, TicketWritten
  <2>6. Promise!Prove(t)
    BY <1>0, <2>3, <2>4, <2>5 DEF Promise!Prove
  <2> QED
    BY <2>2, <2>6 DEF Promise!GNext
<1> QED
  BY <1>2, <1>3

\* An upsert that creates a row issues its ticket; one that updates a row issues none.
LEMMA SetPendingMapped ==
  ASSUME RInv, TicketShape, TicketShape', NEW r \in Reqs, SetPending(r)
  PROVE  [Promise!GNext]_(Promise!gvars)
<1> DEFINE k == Key(req[r].email, req[r].op)
           fresh == rows[k] = None
<1>0. /\ ~Free(r) /\ k \in Keys /\ req[r].email \in Emails /\ req[r].op \in {"send", "forgot"}
      /\ req \in [Reqs -> Request0] /\ rows \in [Keys -> Row \cup {None}] /\ nextId \in Nat
  BY KeyFact, RefinementFacts DEF SetPending, RInv, IInv, Typed, Flight, Free
<1>1. CASE fresh /\ nextId > MaxId
  BY <1>0, <1>1, AnswerVoids DEF SetPending, Statuses
<1>2. CASE ~(fresh /\ nextId > MaxId)
  <2>1. PICK c \in Codes : rows' = [rows EXCEPT ![k] = Issued(k, c, req[r].password)]
    BY <1>2 DEF SetPending
  <2>2. /\ rows'[k] # None /\ rows'[k].id = IF fresh THEN nextId ELSE rows[k].id
        /\ \A l \in Keys \ {k} : rows'[l] = rows[l]
    <3>1. Issued(k, c, req[r].password) \in Row
      <4>1. rows' \in [Keys -> Row \cup {None}]
        BY ProceedTyped DEF RInv, IInv, Typed, TypeOK, Proceed
      <4>2. rows'[k] = Issued(k, c, req[r].password)
        BY <1>0, <2>1
      <4>3. (IF fresh THEN nextId ELSE rows[k].id) \in Ids
        BY <1>0, <1>2, BoundsAssumption, RefinementFacts DEF Ids, RInv, IInv, Typed, TypeOK
      <4>4. req[r].password \in Passwords \cup {None} /\ 0 \in 0..(MaxAttempts - 1)
        BY <1>0, BoundsAssumption DEF Request0
      <4> QED
        BY <4>3, <4>4 DEF Issued, Row
    <3>2. Issued(k, c, req[r].password) # None
      BY <3>1, NoneAssumption
    <3> QED
      BY <1>0, <2>1, <3>2 DEF Issued
  <2>3. /\ req'[r].pc = "mail" /\ \A q \in Reqs \ {r} : req'[q] = req[q]
        /\ ~HoldsGrant(r) /\ ~HoldsGrant(r)'
        /\ password' = password /\ proved' = proved
    BY <1>0, <1>2, GotoFact DEF SetPending, HoldsGrant
  <2>4. CASE ~fresh
    <3>1. nextId' = nextId
      BY <1>2, <2>4 DEF SetPending
    <3>2. \A l \in Keys, t \in Ids : Holds(l, t)' <=> Holds(l, t)
      BY <1>0, <2>2, <2>4 DEF Holds
    <3> QED
      BY <2>3, <3>1, <3>2, NothingHappens DEF HoldsGrant
  <2>5. CASE fresh
    <3>1. nextId \in Ids /\ nextId' = nextId + 1
      BY <1>0, <1>2, <2>5, BoundsAssumption DEF SetPending, Ids, RInv, IInv, Typed, TypeOK
    <3>2. \A t \in Ids \ {nextId} : Undisturbed(t)
      <4>1. \A t \in Ids \ {nextId} : t < nextId' <=> t < nextId
        BY <1>0, <3>1, RefinementFacts
      <4>2. \A l \in Keys, t \in Ids \ {nextId} : Holds(l, t)' <=> Holds(l, t)
        BY <1>0, <2>2, <2>5 DEF Holds
      <4> QED
        BY <2>3, <4>1, <4>2 DEF Undisturbed, HoldsGrant
    <3>3. ticketBar[nextId] = Promise!Unissued
      <4>1. /\ \A l \in Keys : ~Holds(l, nextId)
            /\ \A q \in Reqs : req[q].id # nextId
        BY RefinementFacts DEF Holds
      <4>2. ticketBar[nextId] = Lost(nextId)
        BY <3>1, <4>1 DEF TicketShape
      <4> QED
        BY <1>0, <4>2 DEF Lost, Promise!Unissued
    <3>4. ticketBar'[nextId] = Promise!Live("issued", k[1], k[2])
      <4>1. nextId \notin proved
        BY <1>0 DEF RInv, ProvedAreIssued
      <4> QED
        BY <1>0, <2>2, <2>3, <2>5, <3>1, <4>1, TicketAfter DEF Promise!Live
    <3>5. k[1] = req[r].email /\ k[2] = Purpose(req[r].op) /\ k[2] \in Promise!Purposes
      BY <1>0 DEF Key, Purpose, Promise!Purposes
    <3>6. k[2] = "PASSWORD_RESET" => password[k[1]] # None
      BY <1>0, <3>5 DEF SetPending, Purpose, RInv, IInv, ResetsHaveAccount
    <3>7. ticketBar' = [ticketBar EXCEPT ![nextId] = ticketBar'[nextId]]
      BY <3>1, <3>2, TicketWritten
    <3>8. Promise!Issue(nextId, k[1], k[2])
      BY <2>3, <3>3, <3>4, <3>6, <3>7 DEF Promise!Issue
    <3> QED
      BY <1>0, <3>1, <3>5, <3>8 DEF Promise!GNext
  <2> QED
    BY <2>4, <2>5
<1> QED
  BY <1>1, <1>2

\* Deleting a row loses its ticket.
LEMMA DropRowMapped ==
  ASSUME RInv, TicketShape, TicketShape', NEW r \in Reqs, DropRow(r)
  PROVE  [Promise!GNext]_(Promise!gvars)
<1>0. /\ ~Free(r) /\ ~HoldsGrant(r)
      /\ \A k \in Keys : rows'[k] = IF Holds(k, req[r].id) THEN None ELSE rows[k]
      /\ nextId' = nextId /\ password' = password /\ proved' = proved
  BY DEF DropRow, DeleteRow, Free, HoldsGrant, ghosts
<1>1. req'[r].pc = "done" /\ \A q \in Reqs \ {r} : req'[q] = req[q]
  BY <1>0, AnswerFact DEF DropRow, RInv, IInv, Statuses
<1>2. ASSUME NEW t \in Ids, t # req[r].id \/ ~Exists(t)
      PROVE  ticketBar'[t] = ticketBar[t]
  <2>1. \A k \in Keys : Holds(k, t)' <=> Holds(k, t)
    BY <1>0, <1>2 DEF Holds, Exists
  <2>2. Undisturbed(t)
    BY <1>0, <1>1, <2>1 DEF Undisturbed, HoldsGrant
  <2> QED
    BY <2>2, TicketKept
<1>3. ASSUME NEW t \in Ids, t = req[r].id, Exists(t)
      PROVE  ticketBar[t] # Promise!Unissued /\ ticketBar'[t] = Promise!Gone
  <2>1. PICK k \in Keys : Holds(k, t)
    BY <1>3 DEF Exists
  <2>2. ticketBar[t] # Promise!Unissued
    BY <2>1 DEF TicketShape, TicketOf, Promise!Unissued
  <2>3. /\ \A l \in Keys : ~Holds(l, t)'
        /\ \A q \in Reqs : ~(HoldsGrant(q)' /\ req'[q].id = t)
    BY <1>0, <1>1, <1>3 DEF Holds, HoldsGrant, RInv, IInv, SingleUse
  <2>4. ticketBar'[t] = Lost(t)' /\ t < nextId'
    BY <1>0, <2>1, <2>3, RefinementFacts DEF TicketShape, Holds
  <2> QED
    BY <2>2, <2>4 DEF Lost, Promise!Gone
<1>4. Promise!GNext
  BY <1>0, <1>2, <1>3, TicketsVoided
<1> QED
  BY <1>4

\* Consuming a row that is there spends its ticket; the row was proved, and is of the
\* request's e-mail and purpose.
LEMMA ConsumeMapped ==
  ASSUME RInv, TicketShape, TicketShape', NEW r \in Reqs, Consume(r)
  PROVE  [Promise!GNext]_(Promise!gvars)
<1>0. /\ ~Free(r) /\ ~HoldsGrant(r) /\ req \in [Reqs -> Request0]
      /\ \A k \in Keys : rows'[k] = IF Holds(k, req[r].id) THEN None ELSE rows[k]
      /\ nextId' = nextId /\ password' = password /\ proved' = proved
  BY RefinementFacts DEF Consume, DeleteRow, Free, HoldsGrant, ghosts
<1>1. CASE ~Exists(req[r].id)
  <2>1. req'[r].pc = "done" /\ \A q \in Reqs \ {r} : req'[q] = req[q]
    BY <1>0, <1>1, AnswerFact DEF Consume, RInv, IInv, Statuses
  <2>2. \A k \in Keys, t \in Ids : Holds(k, t)' <=> Holds(k, t)
    BY <1>0, <1>1 DEF Holds, Exists
  <2> QED
    BY <1>0, <2>1, <2>2, NothingHappens DEF HoldsGrant
<1>2. CASE Exists(req[r].id)
  <2>1. PICK t \in Ids : t = req[r].id
    BY <1>2, RefinementFacts DEF Exists, Holds
  <2>2. PICK k \in Keys : Holds(k, t)
    BY <1>2, <2>1 DEF Exists
  <2>3. k = Key(req[r].email, req[r].op) /\ t \in proved
    BY <2>1, <2>2 DEF Consume, RInv, ConsumesOwnRow, IInv, GrantWasProved
  <2>4. /\ HoldsGrant(r)' /\ req'[r].id = t
        /\ req'[r].email = req[r].email /\ req'[r].op = req[r].op
        /\ \A q \in Reqs \ {r} : req'[q] = req[q]
    BY <1>0, <1>2, <2>1, GotoFact DEF Consume, HoldsGrant
  <2>5. ticketBar[t] = [st |-> "proved", email |-> req[r].email, purpose |-> Purpose(req[r].op)]
    BY <2>2, <2>3 DEF TicketShape, TicketOf, Holds, Key
  <2>6. ticketBar'[t] = [ticketBar[t] EXCEPT !.st = "spent"]
    <3>1. ticketBar'[t] = Spent(r)'
      BY <2>4 DEF TicketShape
    <3> QED
      BY <2>4, <2>5, <3>1 DEF Spent, Purpose
  <2>7. \A u \in Ids \ {t} : Undisturbed(u)
    <3>1. \A l \in Keys, u \in Ids \ {t} : Holds(l, u)' <=> Holds(l, u)
      BY <1>0, <2>1 DEF Holds
    <3> QED
      BY <1>0, <2>1, <2>4, <3>1 DEF Undisturbed, HoldsGrant
  <2>8. ticketBar' = [ticketBar EXCEPT ![t] = ticketBar'[t]]
    BY <2>7, TicketWritten
  <2>9. Promise!Spend(t)
    BY <1>0, <2>5, <2>6, <2>8 DEF Promise!Spend
  <2> QED
    BY <2>9 DEF Promise!GNext
<1> QED
  BY <1>1, <1>2

\* A request that has consumed a row and answers leaves a ticket that is gone.
LEMMA GrantAnswered ==
  ASSUME RInv, TicketShape, TicketShape', NEW r \in Reqs, NEW st \in Statuses,
         HoldsGrant(r), Answer(r, st), UNCHANGED <<rows, nextId, ghosts>>
  PROVE  /\ req[r].id \in Ids /\ ticketBar[req[r].id] = Spent(r)
         /\ ticketBar' = [ticketBar EXCEPT ![req[r].id] = Promise!Gone]
<1>0. /\ req'[r].pc = "done" /\ \A q \in Reqs \ {r} : req'[q] = req[q]
      /\ rows' = rows /\ nextId' = nextId /\ proved' = proved
  BY AnswerFact DEF RInv, IInv, ghosts, Free, HoldsGrant
<1>1. PICK t \in Ids : t = req[r].id
  BY RefinementFacts
<1>2. ticketBar[t] = Spent(r)
  BY <1>1 DEF TicketShape
<1>3. ticketBar'[t] = Promise!Gone
  <2>1. /\ \A k \in Keys : ~Holds(k, t)'
        /\ \A q \in Reqs : ~(HoldsGrant(q)' /\ req'[q].id = t)
    BY <1>0, <1>1 DEF RInv, IInv, SingleUse, Exists, Holds, HoldsGrant
  <2>2. ticketBar'[t] = Lost(t)' /\ t < nextId'
    BY <1>0, <1>1, <2>1, RefinementFacts DEF TicketShape
  <2> QED
    BY <2>2 DEF Lost, Promise!Gone
<1>4. \A u \in Ids \ {t} : Undisturbed(u)
  BY <1>0, <1>1 DEF Undisturbed, Holds, HoldsGrant
<1>5. ticketBar' = [ticketBar EXCEPT ![t] = ticketBar'[t]]
  BY <1>4, TicketWritten
<1> QED
  BY <1>1, <1>2, <1>3, <1>5

\* Creating the user opens the account, and changing the password changes it.
LEMMA AccountsMapped ==
  ASSUME RInv, TicketShape, TicketShape', NEW r \in Reqs, CreateUser(r) \/ UpdatePassword(r)
  PROVE  [Promise!GNext]_(Promise!gvars)
<1>0. /\ HoldsGrant(r) /\ ~Free(r) /\ Flight(r)
      /\ UNCHANGED <<rows, nextId, ghosts>>
  BY DEF CreateUser, UpdatePassword, HoldsGrant, Free, RInv, IInv, Typed
<1>1. CASE CreateUser(r) /\ password[req[r].email] = None
  <2>1. Answer(r, 201) /\ password' = [password EXCEPT ![req[r].email] = req[r].password]
    BY <1>1 DEF CreateUser
  <2>2. /\ req[r].id \in Ids /\ ticketBar[req[r].id] = Spent(r)
        /\ ticketBar' = [ticketBar EXCEPT ![req[r].id] = Promise!Gone]
    BY <1>0, <2>1, GrantAnswered DEF Statuses
  <2>3. req[r].op = "register" /\ req[r].password \in Passwords
    BY <1>0, <1>1 DEF CreateUser, Flight
  <2>4. Promise!Open(req[r].id, req[r].password)
    BY <1>1, <2>1, <2>2, <2>3 DEF Promise!Open, Promise!Live, Spent, Purpose
  <2> QED
    BY <2>2, <2>3, <2>4 DEF Promise!GNext
<1>2. CASE CreateUser(r) /\ password[req[r].email] # None
  BY <1>0, <1>2, AnswerVoids DEF CreateUser, Statuses, tables
<1>3. CASE UpdatePassword(r)
  <2>1. Answer(r, 200) /\ password' = [password EXCEPT ![req[r].email] = req[r].password]
    BY <1>3 DEF UpdatePassword
  <2>2. /\ req[r].id \in Ids /\ ticketBar[req[r].id] = Spent(r)
        /\ ticketBar' = [ticketBar EXCEPT ![req[r].id] = Promise!Gone]
    BY <1>0, <2>1, GrantAnswered DEF Statuses
  <2>3. req[r].op = "reset" /\ req[r].password \in Passwords /\ password[req[r].email] # None
    BY <1>0, <1>3 DEF UpdatePassword, Flight, RInv, IInv, ResetsHaveAccount, ResetHasAccount
  <2>4. Promise!Change(req[r].id, req[r].password)
    BY <2>1, <2>2, <2>3 DEF Promise!Change, Promise!Live, Spent, Purpose
  <2> QED
    BY <2>2, <2>3, <2>4 DEF Promise!GNext
<1> QED
  BY <1>1, <1>2, <1>3

\* The steps that change no ticket: misses, marks, finding the user, expiry.
LEMMA OtherMapped ==
  ASSUME RInv, TicketShape, TicketShape', NEW r \in Reqs,
         SendMail(r) \/ CountMiss(r) \/ MarkVerified(r) \/ FindUser(r) \/ DbError(r)
  PROVE  [Promise!GNext]_(Promise!gvars)
<1>0. req \in [Reqs -> Request0] /\ rows \in [Keys -> Row \cup {None}]
  BY RefinementFacts
<1>1. CASE SendMail(r) \/ DbError(r)
  BY <1>1, AnswerVoids DEF SendMail, DbError, Free, Statuses
<1>2. CASE FindUser(r)
  <2>1. CASE Goto(r, "update")
    <3>1. /\ req'[r].pc = "update" /\ req'[r].id = req[r].id
          /\ req'[r].email = req[r].email /\ req'[r].op = req[r].op
          /\ \A q \in Reqs \ {r} : req'[q] = req[q]
      BY <1>0, <2>1, GotoFact
    <3>2. UNCHANGED Promise!gvars
      BY <1>2, <3>1, NothingHappens DEF FindUser, HoldsGrant, Holds, tables, ghosts
    <3> QED
      BY <3>2
  <2>2. CASE Answer(r, 404)
    BY <1>2, <2>2, AnswerVoids DEF FindUser, Free, Statuses
  <2> QED
    BY <1>2, <2>1, <2>2 DEF FindUser
<1>3. CASE CountMiss(r) \/ MarkVerified(r)
  <2>1. ~HoldsGrant(r) /\ UNCHANGED <<nextId, password, proved>>
    BY <1>3 DEF CountMiss, MarkVerified, HoldsGrant, ghosts
  <2>2. req'[r].pc = "done" /\ \A q \in Reqs \ {r} : req'[q] = req[q]
    BY <1>3, AnswerFact DEF CountMiss, MarkVerified, Free, RInv, IInv, Statuses
  <2>3. \A k \in Keys : /\ rows'[k] # None <=> rows[k] # None
                        /\ rows[k] # None => rows'[k].id = rows[k].id
    <3>1. rows' \in [Keys -> Row \cup {None}]
      BY <1>3, ProceedTyped DEF RInv, IInv, Typed, TypeOK, Proceed
    <3>2. CASE CountMiss(r)
      <4>1. \A k \in Keys : IF Holds(k, req[r].id)
                            THEN rows'[k] = [rows[k] EXCEPT !.attempts = req[r].attempts + 1]
                            ELSE rows'[k] = rows[k]
        BY <3>2 DEF CountMiss
      <4>2. \A x \in Row : [x EXCEPT !.attempts = req[r].attempts + 1].id = x.id
        BY DEF Row
      <4>3. \A x \in Row : [x EXCEPT !.attempts = req[r].attempts + 1] # None
        <5>1. req[r].attempts + 1 \in 0..(MaxAttempts - 1)
          BY <1>0, <3>2, BoundsAssumption
          DEF CountMiss, RInv, IInv, Typed, Flight, Request0
        <5> QED
          BY <5>1, NoneAssumption DEF Row
      <4> QED
        BY <1>0, <4>1, <4>2, <4>3 DEF Holds
    <3>3. CASE MarkVerified(r)
      <4>1. \A k \in Keys : IF Holds(k, req[r].id)
                            THEN rows'[k] = [rows[k] EXCEPT !.verified = TRUE]
                            ELSE rows'[k] = rows[k]
        BY <3>3 DEF MarkVerified
      <4>2. \A x \in Row : /\ [x EXCEPT !.verified = TRUE].id = x.id
                           /\ [x EXCEPT !.verified = TRUE] # None
        BY NoneAssumption DEF Row
      <4> QED
        BY <1>0, <4>1, <4>2 DEF Holds
    <3> QED
      BY <1>3, <3>2, <3>3
  <2>4. UNCHANGED Promise!gvars
    BY <2>1, <2>2, <2>3, NothingHappens DEF Holds, HoldsGrant
  <2> QED
    BY <2>4
<1> QED
  BY <1>1, <1>2, <1>3

\* A crash loses the tickets of all requests that had consumed a row.
LEMMA CrashMapped ==
  ASSUME RInv, TicketShape, TicketShape', Crash
  PROVE  Promise!GNext
<1>0. /\ rows' = rows /\ nextId' = nextId /\ password' = password /\ proved' = proved
      /\ \A q \in Reqs : ~HoldsGrant(q)'
  BY DEF Crash, Idle, HoldsGrant, tables, ghosts
<1>1. ASSUME NEW t \in Ids, NEW q \in Reqs, HoldsGrant(q), req[q].id = t
      PROVE  ticketBar[t] # Promise!Unissued /\ ticketBar'[t] = Promise!Gone
  <2>1. ticketBar[t] = Spent(q)
    BY <1>1 DEF TicketShape
  <2>2. \A k \in Keys : ~Holds(k, t)'
    BY <1>0, <1>1 DEF RInv, IInv, SingleUse, Exists, Holds
  <2>3. ticketBar'[t] = Lost(t)' /\ t < nextId'
    BY <1>0, <1>1, <2>2, RefinementFacts DEF TicketShape
  <2> QED
    BY <2>1, <2>3 DEF Spent, Lost, Promise!Unissued, Promise!Gone
<1>2. ASSUME NEW t \in Ids, \A q \in Reqs : ~(HoldsGrant(q) /\ req[q].id = t)
      PROVE  ticketBar'[t] = ticketBar[t]
  <2>1. Undisturbed(t)
    BY <1>0, <1>2 DEF Undisturbed, Holds
  <2> QED
    BY <2>1, TicketKept
<1> QED
  BY <1>0, <1>1, <1>2, TicketsVoided

LEMMA ExpireMapped ==
  ASSUME RInv, TicketShape, TicketShape', NEW k \in Keys, Expire(k)
  PROVE  UNCHANGED Promise!gvars
<1>1. \A l \in Keys : /\ rows'[l] # None <=> rows[l] # None
                      /\ rows[l] # None => rows'[l].id = rows[l].id
  <2>1. rows \in [Keys -> Row \cup {None}]
    BY RefinementFacts
  <2>2. \A x \in Row : /\ [x EXCEPT !.expired = TRUE].id = x.id
                       /\ [x EXCEPT !.expired = TRUE] # None
    BY NoneAssumption DEF Row
  <2> QED
    BY <2>1, <2>2 DEF Expire
<1> QED
  BY <1>1, NothingHappens DEF Expire, Holds, HoldsGrant, ghosts

LEMMA InitMapped == Init => Promise!GInit
<1> SUFFICES ASSUME Init PROVE Promise!GInit
  OBVIOUS
<1>1. \A t \in Ids : ticketBar[t] = Promise!Unissued
  BY BoundsAssumption DEF Init, Idle, ticketBar, Exists, Holds, HoldsGrant, Ids,
                          Promise!Unissued
<1>2. ticketBar = [t \in Ids |-> Promise!Unissued]
  BY <1>1 DEF ticketBar
<1> QED
  BY <1>2 DEF Init, Promise!GInit

LEMMA NextMapped ==
  RInv /\ RInv' /\ [Next]_vars => [Promise!GNext]_(Promise!gvars)
<1> SUFFICES ASSUME RInv, RInv', [Next]_vars PROVE [Promise!GNext]_(Promise!gvars)
  OBVIOUS
<1>0. TicketShape /\ TicketShape'
  BY TicketShapes, PTL
<1>1. ASSUME NEW r \in Reqs, Request(r) PROVE [Promise!GNext]_(Promise!gvars)
  BY <1>0, <1>1, RequestMapped
<1>2. ASSUME NEW r \in Reqs, Proceed(r) PROVE [Promise!GNext]_(Promise!gvars)
  BY <1>0, <1>2, SetPendingMapped, DropRowMapped, ConsumeMapped, AccountsMapped, OtherMapped
  DEF Proceed
<1>3. ASSUME NEW k \in Keys, Expire(k) PROVE [Promise!GNext]_(Promise!gvars)
  BY <1>0, <1>3, ExpireMapped
<1>4. CASE Crash
  BY <1>0, <1>4, CrashMapped
<1>5. CASE UNCHANGED vars
  BY <1>0, <1>5, NothingHappens DEF vars, Holds, HoldsGrant
<1> QED
  BY <1>1, <1>2, <1>3, <1>4, <1>5 DEF Next

\* Every behaviour of the handlers, with any number of requests interleaved, failing calls
\* and crashes, is a behaviour of OneTimeGrant: a ticket is proved before it is spent, spent
\* once, and an account appears or changes only by using up a spent ticket of its e-mail.
THEOREM KeepsPromise == Spec => RefinesPromise
BY RefinementInvariance, InitMapped, NextMapped, PTL DEF Spec, RefinesPromise, Promise!GSpec
=============================================================================

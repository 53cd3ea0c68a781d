--------------------------- MODULE OneTimeGrant ---------------------------
(***************************************************************************)
(* What the e-mail codes of POPCAST promise, without requests, tables or   *)
(* crashes.  Every code row is a ticket for one e-mail and one purpose.    *)
(* A ticket is proved when its owner presents the mailed code, and spent   *)
(* at most once; the only way an account appears or changes its password   *)
(* is by using up a spent ticket of that e-mail and of the right purpose.  *)
(* A ticket may be voided at any moment, never revived.                    *)
(***************************************************************************)
CONSTANTS Tickets, Emails, Passwords, None

VARIABLES ticket,    \* the state of every ticket
          account    \* the password of every account, None without account

gvars == <<ticket, account>>

Purposes == {"REGISTER", "PASSWORD_RESET"}

Unissued == [st |-> "unissued", email |-> None, purpose |-> None]
Gone     == [st |-> "gone",     email |-> None, purpose |-> None]
Live(s, e, u) == [st |-> s, email |-> e, purpose |-> u]

GInit == /\ ticket = [t \in Tickets |-> Unissued]
         /\ account \in [Emails -> Passwords \cup {None}]

\* A code is issued; a reset code only for an account that exists.
Issue(t, e, u) == /\ ticket[t] = Unissued
                  /\ u = "PASSWORD_RESET" => account[e] # None
                  /\ ticket' = [ticket EXCEPT ![t] = Live("issued", e, u)]
                  /\ UNCHANGED account

\* The mailed code was presented.
Prove(t) == /\ ticket[t].st = "issued"
            /\ ticket' = [ticket EXCEPT ![t].st = "proved"]
            /\ UNCHANGED account

\* A proved ticket is handed to one caller.
Spend(t) == /\ ticket[t].st = "proved"
            /\ ticket' = [ticket EXCEPT ![t].st = "spent"]
            /\ UNCHANGED account

\* Tickets are lost: too many wrong codes, a failed request, a crash.
Void(S) == /\ \A t \in S : ticket[t] # Unissued
           /\ ticket' = [t \in Tickets |-> IF t \in S THEN Gone ELSE ticket[t]]
           /\ UNCHANGED account

\* A spent REGISTER ticket opens the account of its e-mail.
Open(t, p) == LET e == ticket[t].email
              IN  /\ ticket[t] = Live("spent", e, "REGISTER")
                  /\ account[e] = None
                  /\ account' = [account EXCEPT ![e] = p]
                  /\ ticket' = [ticket EXCEPT ![t] = Gone]

\* A spent PASSWORD_RESET ticket changes the password of its e-mail.
Change(t, p) == LET e == ticket[t].email
                IN  /\ ticket[t] = Live("spent", e, "PASSWORD_RESET")
                    /\ account[e] # None
                    /\ account' = [account EXCEPT ![e] = p]
                    /\ ticket' = [ticket EXCEPT ![t] = Gone]

GNext == \/ \E t \in Tickets, e \in Emails, u \in Purposes : Issue(t, e, u)
         \/ \E t \in Tickets : Prove(t) \/ Spend(t)
         \/ \E S \in SUBSET Tickets : Void(S)
         \/ \E t \in Tickets, p \in Passwords : Open(t, p) \/ Change(t, p)

GSpec == GInit /\ [][GNext]_gvars
=============================================================================

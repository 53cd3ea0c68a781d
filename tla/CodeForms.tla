----------------------------- MODULE CodeForms -----------------------------
(***************************************************************************)
(* The pages behind the e-mail codes: registration and forgotten password. *)
(* Each leads through three calls, and keeps the form open to changes      *)
(* while they are under way.                                               *)
(*                                                                         *)
(* Of the API (module AuthCodes) only the outcome of each call is here:    *)
(* the row of an e-mail is stored, marked, used up, or expires.  A call    *)
(* has its effect at one time and its answer at a later one.               *)
(***************************************************************************)
EXTENDS Naturals, FiniteSets

CONSTANTS FormEmails, FormPasswords,
          LastCode,    \* codes are mailed one after the other (bound)
          Blank        \* an empty field, no row, no call, no page

Outcomes == {"ok", "wrong", "expired"}

ASSUME FormsAssumption == /\ Blank \notin FormEmails \cup FormPasswords \cup Outcomes
                          /\ LastCode \in Nat \ {0}

VARIABLES form,      \* the page: kind, email, password, code, codeSent, verified; and eligible,
                     \* the e-mails the API mails codes to
          asks,      \* the send, verify and submit under way; each button waits for its own
          rows,      \* VerificationCode by e-mail, of the page's purpose
          mailed,    \* the last code mailed
          late,      \* a call the page gave up and the API has still to serve (bound: one)
          touched    \* ghost: the form was edited while a call was under way

formVars == <<form, asks, rows, mailed, late, touched>>

Steps   == {"send", "verify", "submit"}
NoAsks  == [s \in Steps |-> Blank]
Waits(s) == asks[s] # Blank

FormUnmounted == /\ form = Blank /\ asks = NoAsks /\ mailed = 0
                 /\ late = Blank /\ touched = FALSE
                 /\ rows = [e \in FormEmails |-> Blank]
FormUnmount == /\ form' = Blank /\ asks' = NoAsks /\ mailed' = 0
               /\ late' = Blank /\ touched' = FALSE
               /\ rows' = [e \in FormEmails |-> Blank]
FormMount == /\ \E kind \in {"register", "reset"}, to \in SUBSET FormEmails :
                  form' = [kind |-> kind, eligible |-> to, email |-> Blank, password |-> Blank,
                           code |-> Blank, codeSent |-> FALSE, verified |-> FALSE]
             /\ UNCHANGED <<asks, rows, mailed, late, touched>>

-----------------------------------------------------------------------------
(* The user. *)

\* resetVerificationState, of either page.
StartOver(f) == [f EXCEPT !.codeSent = FALSE, !.verified = FALSE, !.code = Blank,
                          !.password = IF f.kind = "reset" THEN Blank ELSE @]

Edited(f) == /\ form # Blank /\ f # form
             /\ form' = f
             /\ touched' = (touched \/ asks # NoAsks \/ late # Blank)
             /\ UNCHANGED <<asks, rows, mailed, late>>
\* The name of a registration changes like its password.
ChangeEmail(e) == Edited([StartOver(form) EXCEPT !.email = e])
ChangePasswordOnly(p) == /\ form.kind = "register" \/ form.verified
                         /\ Edited([form EXCEPT !.password = p])
ChangePassword(p) == /\ form.kind = "register" \/ form.verified
                     /\ Edited(IF form.kind = "reset" THEN [form EXCEPT !.password = p]
                               ELSE [StartOver(form) EXCEPT !.password = p])
\* The code field stays open after the code was verified.
TypeCode(k) == form # Blank /\ form.codeSent /\ Edited([form EXCEPT !.code = k])

\* (A registration's submit sends no password: it is kept for the property.)
Ask(s) == [step |-> s, email |-> form.email, outcome |-> Blank,
           password |-> IF s = "verify" THEN Blank ELSE form.password,
           code |-> IF s = "send" THEN Blank ELSE form.code]
Asked(s) == /\ form # Blank /\ ~Waits(s)
            /\ asks' = [asks EXCEPT ![s] = Ask(s)]
            /\ UNCHANGED <<form, rows, mailed, late, touched>>
\* handleSendCode wants all fields of a registration, the password confirmed and long enough.
SendCode   == /\ form.email # Blank /\ (form.kind = "register" => form.password # Blank)
              /\ Asked("send")
VerifyCode == form.codeSent /\ form.code # Blank /\ Asked("verify")
SubmitForm == form.verified /\ form.password # Blank /\ Asked("submit")

-----------------------------------------------------------------------------
(* The API: what a call may do. *)

Served(o, r, n) == [outcome |-> o, rows |-> r, mailed |-> n]
Without(e) == [rows EXCEPT ![e] = Blank]

\* A registered e-mail gets no code to register with, an unknown one none to reset.
SendServed(a) ==
  IF a.email \notin form.eligible THEN {Served("ok", rows, mailed)}
  ELSE IF mailed = LastCode THEN {}
  ELSE {Served("ok", [rows EXCEPT ![a.email] = [code |-> mailed + 1, password |-> a.password,
                                                verified |-> FALSE]], mailed + 1)}
\* No row is answered 400, one that expired 410; the last wrong code takes the row away.
VerifyServed(a) ==
  IF rows[a.email] = Blank THEN {Served("expired", rows, mailed), Served("wrong", rows, mailed)}
  ELSE IF rows[a.email].code = a.code
  THEN {Served("ok", [rows EXCEPT ![a.email].verified = TRUE], mailed)}
  ELSE {Served("wrong", rows, mailed), Served("wrong", Without(a.email), mailed)}
\* register asks for a verified row of its e-mail only, reset for the code too.
Accepted(a) == /\ rows[a.email] # Blank /\ rows[a.email].verified
               /\ form.kind = "reset" => rows[a.email].code = a.code
SubmitServed(a) == {IF Accepted(a) THEN Served("ok", Without(a.email), mailed)
                    ELSE Served("expired", rows, mailed)}
Effects(a) == CASE a.step = "send"   -> SendServed(a)
                [] a.step = "verify" -> VerifyServed(a)
                [] a.step = "submit" -> SubmitServed(a)

Pending(s) == Waits(s) /\ asks[s].outcome = Blank
ServeCall(s) == /\ Pending(s)
                /\ \E d \in Effects(asks[s]) :
                     /\ asks' = [asks EXCEPT ![s].outcome = d.outcome]
                     /\ rows' = d.rows /\ mailed' = d.mailed
                /\ UNCHANGED <<form, late, touched>>
ServeLate == /\ late # Blank
             /\ \E d \in Effects(late) : rows' = d.rows /\ mailed' = d.mailed
             /\ late' = Blank
             /\ UNCHANGED <<form, asks, touched>>

RowExpires(e) == /\ form # Blank /\ rows[e] # Blank
                 /\ rows' = Without(e)
                 /\ UNCHANGED <<form, asks, mailed, late, touched>>

-----------------------------------------------------------------------------
(* The answers, which the pages apply to the form as it is by then. *)

Returns(s, f) == /\ form' = f /\ asks' = [asks EXCEPT ![s] = Blank]
                 /\ UNCHANGED <<rows, mailed, touched>>

SendReturns == /\ Waits("send") /\ asks["send"].outcome = "ok"
               /\ Returns("send", [StartOver(form) EXCEPT !.codeSent = TRUE])
               /\ UNCHANGED late
VerifyReturns == /\ Waits("verify") /\ asks["verify"].outcome # Blank
                 /\ Returns("verify", CASE asks["verify"].outcome = "ok"
                                             -> [form EXCEPT !.verified = TRUE]
                                        [] asks["verify"].outcome = "expired" -> StartOver(form)
                                        [] OTHER -> form)
                 /\ UNCHANGED late
\* Done, the page leads on to the login; refused, it begins again.
SubmitReturns == /\ Waits("submit") /\ asks["submit"].outcome # Blank
                 /\ IF asks["submit"].outcome = "ok" THEN FormUnmount
                    ELSE Returns("submit", StartOver(form)) /\ UNCHANGED late
\* The answer does not come within the 15 s, or is some other error; the call was served, is
\* served later, or never.
Unanswered(s) == /\ Waits(s)
                 /\ Returns(s, form)
                 /\ late' \in {late} \cup (IF Pending(s) /\ late = Blank THEN {asks[s]} ELSE {})

FormNext == \/ \E e \in FormEmails : ChangeEmail(e) \/ RowExpires(e)
            \/ \E p \in FormPasswords : form # Blank /\ ChangePassword(p)
            \/ \E k \in 1..LastCode : TypeCode(k)
            \/ form # Blank /\ (SendCode \/ VerifyCode \/ SubmitForm)
            \/ ServeLate \/ SendReturns \/ VerifyReturns \/ SubmitReturns
            \/ \E s \in Steps : ServeCall(s) \/ Unanswered(s)

-----------------------------------------------------------------------------
(* Properties. *)

\* A submit that the API will accept is about what the form showed: the account of its e-mail
\* gets the password that was in it at the click, however the three calls overlapped.  But for
\* a form edited while one of them was under way, or given up and not yet served: its answer
\* is taken for an answer about the edited form (register/page.tsx:28-47,65-68,100-101).
AcceptedAsShown ==
  (/\ form # Blank /\ form.kind = "register" /\ ~touched
   /\ Pending("submit") /\ Accepted(asks["submit"])) =>
    rows[asks["submit"].email].password = asks["submit"].password
=============================================================================

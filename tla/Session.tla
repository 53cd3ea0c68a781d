------------------------------ MODULE Session ------------------------------
(***************************************************************************)
(* Who is logged in: the cookies one browser keeps for all its tabs, the   *)
(* auth store and CSRF token each tab keeps in its own memory, and the     *)
(* calls in flight between them and the API, which keeps no session: it    *)
(* decides each call from the cookies and the header sent along.           *)
(*                                                                         *)
(* A call carries the cookies of the moment it was sent; its answer sets   *)
(* or clears cookies, and changes the tab, at the moment it arrives.       *)
(* Answers overtake each other and logins of other tabs.                   *)
(***************************************************************************)
EXTENDS Naturals, FiniteSets

CONSTANTS Users, Tabs,
          MaxToken,     \* CSRF tokens of a user in use at one time (bound)
          MaxCalls,     \* calls in flight in the whole browser (bound)
          None

Ops    == {"me", "login", "logout", "write", "save"}
\* A CSRF token is random and means nothing; here it is named after the user it was issued to.
Tokens == Users \X (1..MaxToken)

ASSUME BoundsAssumption == MaxToken \in Nat \ {0} /\ MaxCalls \in Nat
ASSUME NoneAssumption   == None \notin Users \cup Tokens

NoCookies == [user |-> None, csrf |-> None]
SignedOut == [user |-> None, token |-> None, loading |-> FALSE]
Loading   == [user |-> None, token |-> None, loading |-> TRUE]

VARIABLES jar,     \* the cookies access_token (whom it names) and csrf_token
          tab,     \* each tab's store: the user shown, isLoading, and its csrfToken
          calls,   \* the call of each tab and operation in flight
          late     \* ghost: tabs where a profile answer overtook a change of the user

vars == <<jar, tab, calls, late>>

\* The two cookies are set and cleared together.
Cookies == {NoCookies} \cup [user : Users, csrf : Tokens]
Store   == [user : Users \cup {None}, token : Tokens \cup {None}, loading : BOOLEAN]
\* A call: the cookies and the X-CSRF-Token header sent along, the user the tab showed (the
\* user whose password is sent, for a login), and whether that user was shown late.
Call    == [user : Users \cup {None}, csrf : Tokens \cup {None},
            header : Tokens \cup {None}, shown : Users \cup {None}, late : BOOLEAN]

ASSUME NoCallAssumption == None \notin Call

Flying(t, op) == calls[t][op] # None
InFlight == {x \in Tabs \X Ops : Flying(x[1], x[2])}
\* What decides the answer: nothing of it for a login, the cookies alone for a GET.
LoginOf(u) == [user |-> None, csrf |-> None, header |-> None, shown |-> u, late |-> FALSE]
Get        == [user |-> jar.user, csrf |-> jar.csrf, header |-> None,
               shown |-> None, late |-> FALSE]
Write(t)   == [user |-> jar.user, csrf |-> jar.csrf, header |-> tab[t].token,
               shown |-> tab[t].user, late |-> t \in late]
Send(t, op, call) == /\ Cardinality(InFlight) < MaxCalls
                     /\ calls' = [calls EXCEPT ![t][op] = call]
Only(op, call) == [o \in Ops |-> IF o = op THEN call ELSE None]
Done(t, op) == calls' = [calls EXCEPT ![t][op] = None]

Shows(t, u, tok) == tab' = [tab EXCEPT ![t] = [user |-> u, token |-> tok, loading |-> FALSE]]
\* setCsrfToken(null) and clearAuth, which the 401 interceptor, a failed checkAuth and the
\* end of a logout all come to.
SignOut(t) == tab' = [tab EXCEPT ![t] = SignedOut] /\ late' = late \ {t}

\* A token that nothing holds any more is as good as a new random one.
InUse == {jar.csrf} \cup {tab[t].token : t \in Tabs}
           \cup UNION {{calls[x[1]][x[2]].csrf, calls[x[1]][x[2]].header} : x \in InFlight}
Unused(u) == {k \in 1..MaxToken : <<u, k>> \notin InUse}
FreshToken(u) == <<u, CHOOSE k \in Unused(u) : TRUE>>

Init == /\ jar = NoCookies
        /\ tab = [t \in Tabs |-> Loading]
        /\ calls = [t \in Tabs |-> Only("me", LoginOf(None))]
        /\ late = {}

-----------------------------------------------------------------------------
(* The user acts. *)

\* A page load: the store starts empty and loading, what was in flight is abandoned, and
\* AuthProvider asks who is logged in.
Load(t) ==
  /\ tab' = [tab EXCEPT ![t] = Loading]
  /\ calls' = [calls EXCEPT ![t] = Only("me", Get)]
  /\ late' = late \ {t}
  /\ UNCHANGED jar

\* The login page is open to everyone, also while checkAuth runs and to who is logged in;
\* its button is disabled while a login is in flight.
Login(t, u) == /\ ~Flying(t, "login")
               /\ Send(t, "login", LoginOf(u))
               /\ UNCHANGED <<jar, tab, late>>

\* Whoever is shown as a user has the profile menu with the logout once the store is no
\* longer loading, can write (posts, comments, bookmarks) and save the profile.
CallShown(t, op) == /\ op \in {"logout", "write", "save"}
                    /\ tab[t].user # None /\ ~tab[t].loading /\ ~Flying(t, op)
                    /\ Send(t, op, Write(t))
                    /\ UNCHANGED <<jar, tab, late>>

-----------------------------------------------------------------------------
(* Answers. *)

\* csrfMiddleware, on what the call carries.
CsrfPassesIfSent(c) == c.csrf # None /\ c.header # None
CsrfPasses(c) == c.csrf # None /\ c.header = c.csrf

\* authMiddleware refuses a call without an access token with 401; one whose token does not
\* verify, or whose user is not found, or not looked up because the database fails, it
\* refuses too, and clears both cookies.  Every tab but a login's signs out on 401.
Unauthorized(t, op) ==
  LET c == calls[t][op]
  IN  /\ op \in {"me", "write", "save"} /\ c # None
      /\ jar' \in IF c.user = None THEN {jar} ELSE {NoCookies}
      /\ SignOut(t) /\ Done(t, op)

\* GET /me: the user of the access token, and the CSRF cookie that came along.
MeAnswered(t) ==
  LET c == calls[t]["me"]
  IN  /\ c # None /\ c.user # None
      /\ Shows(t, c.user, c.csrf)
      /\ late' = late \ {t}
      /\ Done(t, "me") /\ UNCHANGED jar

\* A login sets both cookies, with a fresh CSRF token.
LoginAnsweredKeepingToken(t) ==
  LET u == calls[t]["login"].shown
  IN  /\ Flying(t, "login") /\ Unused(u) # {}
      /\ jar' = [user |-> u, csrf |-> FreshToken(u)]
      /\ Shows(t, u, tab[t].token)
      /\ late' = late \ {t} /\ Done(t, "login")
LoginAnswered(t) ==
  LET u == calls[t]["login"].shown
  IN  /\ Flying(t, "login") /\ Unused(u) # {}
      /\ jar' = [user |-> u, csrf |-> FreshToken(u)]
      /\ Shows(t, u, jar'.csrf)
      /\ late' = late \ {t} /\ Done(t, "login")

\* A wrong password: 401, which the interceptor leaves to the login page.
LoginRefused(t) == Flying(t, "login") /\ Done(t, "login")
                   /\ UNCHANGED <<jar, tab, late>>

\* POST /logout passes csrfMiddleware only.  Whatever it answers, the tab signs out.
LogoutAnsweredHalf(t) ==
  LET c == calls[t]["logout"]
  IN  /\ c # None
      /\ jar' = IF CsrfPasses(c) THEN [jar EXCEPT !.user = None] ELSE jar
      /\ SignOut(t) /\ Done(t, "logout")
LogoutAnswered(t) ==
  LET c == calls[t]["logout"]
  IN  /\ c # None
      /\ jar' = IF CsrfPasses(c) THEN NoCookies ELSE jar
      /\ SignOut(t) /\ Done(t, "logout")

\* A write is done in the name of the access token's user, or refused with 403.
WriteAnswered(t) ==
  LET c == calls[t]["write"]
  IN  /\ c # None /\ c.user # None
      /\ Done(t, "write") /\ UNCHANGED <<jar, tab, late>>

\* PATCH /users/me: its answer is shown, whoever the tab shows by now.
SaveAnswered(t) ==
  LET c == calls[t]["save"]
  IN  /\ c # None /\ c.user # None
      /\ IF CsrfPasses(c)
         THEN /\ Shows(t, c.user, tab[t].token)
              /\ late' = IF c.user = tab[t].user THEN late ELSE late \cup {t}
         ELSE UNCHANGED <<tab, late>>
      /\ Done(t, "save") /\ UNCHANGED jar

\* No answer in 15 s, no connection, or an error of the server.
LostLeavingMe(t, op) ==
  /\ Flying(t, op)
  /\ IF op = "logout" THEN SignOut(t) ELSE UNCHANGED <<tab, late>>
  /\ Done(t, op) /\ UNCHANGED jar
Lost(t, op) ==
  /\ Flying(t, op)
  /\ IF op \in {"me", "logout"} THEN SignOut(t) ELSE UNCHANGED <<tab, late>>
  /\ Done(t, op) /\ UNCHANGED jar

Answer(t, op) ==
  \/ Unauthorized(t, op)
  \/ op = "me" /\ MeAnswered(t)
  \/ op = "login" /\ LoginAnswered(t)
  \/ op = "login" /\ LoginRefused(t)
  \/ op = "logout" /\ LogoutAnswered(t)
  \/ op = "write" /\ WriteAnswered(t)
  \/ op = "save" /\ SaveAnswered(t)
  \/ Lost(t, op)

Act(t) == \/ Load(t)
          \/ \E u \in Users : Login(t, u)
          \/ \E op \in Ops : CallShown(t, op)

Next == \E t \in Tabs : Act(t) \/ \E op \in Ops : Answer(t, op)

Spec == Init /\ [][Next]_vars

\* GET /me is answered or given up (axios waits 15 s for it at most).  Nothing else is
\* assumed: users need do nothing, and the other calls may take as long as they like.
Fairness == \A t \in Tabs : WF_vars(Answer(t, "me"))
FairSpec == Spec /\ Fairness

-----------------------------------------------------------------------------
(* Properties. *)

TypeOK == /\ jar \in Cookies
          /\ tab \in [Tabs -> Store]
          /\ calls \in [Tabs -> [Ops -> Call \cup {None}]]
          /\ late \subseteq Tabs

\* A tab that shows a user holds a CSRF token of that very user, whatever other tabs' logins
\* and answers came between (useAuthStore.ts:36,49) -- but for a profile answer that arrives
\* after the user changed and is shown nevertheless (mypage/page.tsx:58).
ShownUserOwnsToken ==
  \A t \in Tabs \ late : tab[t].user # None =>
    tab[t].token # None /\ tab[t].token[1] = tab[t].user

\* What is written becomes the shown user's: of the calls under way none that the API will
\* accept was sent by a tab that showed u with the cookie of v, who logged in in another tab
\* meanwhile (csrf.middleware.ts:20-24); the exception is the same.
WritesAreTheShownUsers ==
  \A t \in Tabs, op \in {"write", "save"} :
    LET c == calls[t][op]
    IN  c # None => (c.user # None /\ CsrfPasses(c) /\ ~c.late => c.user = c.shown)

\* The store does not stay loading, whatever becomes of GET /me (useAuthStore.ts:32-42).
LoadingEnds == \A t \in Tabs : tab[t].loading ~> ~tab[t].loading

\* `Logout (deletes the cookies)' (README.md:73): a logout the API answers leaves none.
LogoutDeletesCookies == [][\A t \in Tabs : LogoutAnswered(t) => jar' = NoCookies]_vars
=============================================================================

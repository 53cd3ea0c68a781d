--------------------------- MODULE SessionProofs ---------------------------
(***************************************************************************)
(* Proofs about Session, for any users, tabs and bounds.                   *)
(***************************************************************************)
EXTENDS Session, TLAPS

\* A login carries the user whose password was typed.
LoginsNameUsers == \A t \in Tabs : calls[t]["login"] # None => calls[t]["login"].shown \in Users

Typed == TypeOK /\ LoginsNameUsers

\* The two cookies of the jar, and of every call, are of one user.
Owned(c) == c.user # None => c.csrf # None /\ c.csrf[1] = c.user

\* A header is the token of the tab it was sent from, and so of the user shown there.
HeaderOwned(c) == c.header # None /\ ~c.late => c.header[1] = c.shown

CookiesOwned ==
  Owned(jar) /\ \A t \in Tabs, op \in Ops : calls[t][op] # None => Owned(calls[t][op])
HeadersOwned ==
  \A t \in Tabs, op \in Ops : calls[t][op] # None => HeaderOwned(calls[t][op])

IInv == Typed /\ CookiesOwned /\ HeadersOwned /\ ShownUserOwnsToken

-----------------------------------------------------------------------------
(* Typing. *)

LEMMA Constants ==
  /\ None \notin Users /\ None \notin Tokens /\ None \notin Call
  /\ NoCookies \in Cookies /\ NoCookies.user = None
  /\ SignedOut \in Store /\ SignedOut.user = None
  /\ Loading \in Store /\ Loading.user = None
BY NoneAssumption, NoCallAssumption DEF NoCookies, Cookies, SignedOut, Loading, Store

\* Sending adds a call, and an answer takes it away.
LEMMA SendFact ==
  ASSUME Typed, NEW t \in Tabs, NEW op \in Ops, NEW c \in Call, Send(t, op, c),
         op = "login" => c.shown \in Users
  PROVE  /\ calls' \in [Tabs -> [Ops -> Call \cup {None}]] /\ LoginsNameUsers'
         /\ \A s \in Tabs, o \in Ops : calls'[s][o] = c \/ calls'[s][o] = calls[s][o]
<1>1. /\ calls' \in [Tabs -> [Ops -> Call \cup {None}]]
      /\ calls'[t][op] = c
      /\ \A s \in Tabs, o \in Ops : (s = t /\ o = op) \/ calls'[s][o] = calls[s][o]
  BY DEF Send, Typed, TypeOK
<1>2. LoginsNameUsers'
  BY <1>1 DEF Typed, LoginsNameUsers, Ops
<1> QED
  BY <1>1, <1>2

LEMMA DoneFact ==
  ASSUME Typed, NEW t \in Tabs, NEW op \in Ops, Done(t, op)
  PROVE  /\ calls' \in [Tabs -> [Ops -> Call \cup {None}]] /\ LoginsNameUsers'
         /\ \A s \in Tabs, o \in Ops : calls'[s][o] = None \/ calls'[s][o] = calls[s][o]
<1>1. /\ calls' \in [Tabs -> [Ops -> Call \cup {None}]]
      /\ \A s \in Tabs, o \in Ops : calls'[s][o] = None \/ calls'[s][o] = calls[s][o]
  BY DEF Done, Typed, TypeOK
<1>2. LoginsNameUsers'
  BY <1>1 DEF Typed, LoginsNameUsers, Ops
<1> QED
  BY <1>1, <1>2

\* What a tab shows after one of the two ways of changing it.
LEMMA ShowsFact ==
  ASSUME Typed, NEW t \in Tabs, NEW u \in Users \cup {None}, NEW tok \in Tokens \cup {None},
         Shows(t, u, tok)
  PROVE  /\ tab' \in [Tabs -> Store] /\ tab'[t].user = u /\ tab'[t].token = tok
         /\ \A s \in Tabs \ {t} : tab'[s] = tab[s]
BY DEF Shows, Typed, TypeOK, Store

LEMMA SignOutFact ==
  ASSUME Typed, NEW t \in Tabs, SignOut(t)
  PROVE  /\ tab' \in [Tabs -> Store] /\ tab'[t].user = None
         /\ \A s \in Tabs \ {t} : tab'[s] = tab[s]
         /\ late' = late \ {t}
BY Constants DEF SignOut, Typed, TypeOK

\* A fresh token of u is one.
LEMMA FreshTokenFact ==
  ASSUME NEW u \in Users, Unused(u) # {}
  PROVE  FreshToken(u) \in Tokens /\ FreshToken(u)[1] = u
<1>1. (CHOOSE k \in Unused(u) : TRUE) \in Unused(u)
  OBVIOUS
<1> QED
  BY <1>1 DEF FreshToken, Unused, Tokens

\* What calls are sent with.
LEMMA JarFact ==
  ASSUME Typed
  PROVE  jar.user \in Users \cup {None} /\ jar.csrf \in Tokens \cup {None}
BY DEF Typed, TypeOK, Cookies, NoCookies

LEMMA GetFact ==
  ASSUME Typed
  PROVE  /\ Get \in Call /\ Get.header = None
         /\ Get.user = jar.user /\ Get.csrf = jar.csrf
BY JarFact DEF Get, Call

LEMMA WriteFact ==
  ASSUME Typed, NEW t \in Tabs
  PROVE  /\ Write(t) \in Call
         /\ Write(t).user = jar.user /\ Write(t).csrf = jar.csrf
         /\ Write(t).header = tab[t].token /\ Write(t).shown = tab[t].user
         /\ Write(t).late = (t \in late)
<1>1. tab[t].user \in Users \cup {None} /\ tab[t].token \in Tokens \cup {None}
  BY DEF Typed, TypeOK, Store
<1>2. (t \in late) \in BOOLEAN
  OBVIOUS
<1> QED
  BY <1>1, <1>2, JarFact DEF Write, Call

LEMMA LoginFact ==
  ASSUME NEW u \in Users \cup {None}
  PROVE  /\ LoginOf(u) \in Call /\ LoginOf(u).user = None
         /\ LoginOf(u).header = None /\ LoginOf(u).shown = u
BY DEF LoginOf, Call

\* The call of a tab, when there is one.
LEMMA CallFact ==
  ASSUME Typed, NEW t \in Tabs, NEW op \in Ops, calls[t][op] # None
  PROVE  /\ calls[t][op] \in Call
         /\ calls[t][op].user \in Users \cup {None}
         /\ calls[t][op].csrf \in Tokens \cup {None}
         /\ calls[t][op].header \in Tokens \cup {None}
BY DEF Typed, TypeOK, Call

LEMMA OnlyFact ==
  ASSUME NEW op \in Ops, NEW c \in Call
  PROVE  /\ Only(op, c) \in [Ops -> Call \cup {None}] /\ Only(op, c)[op] = c
         /\ \A o \in Ops \ {op} : Only(op, c)[o] = None
BY DEF Only

LEMMA TypedInit == Init => Typed
<1> SUFFICES ASSUME Init PROVE Typed
  OBVIOUS
<1>1. jar \in Cookies /\ tab \in [Tabs -> Store] /\ late \subseteq Tabs
  BY Constants DEF Init
<1>2. /\ Only("me", LoginOf(None)) \in [Ops -> Call \cup {None}]
      /\ Only("me", LoginOf(None))["login"] = None
  BY LoginFact, OnlyFact DEF Ops
<1>3. calls \in [Tabs -> [Ops -> Call \cup {None}]] /\ LoginsNameUsers
  BY <1>2 DEF Init, LoginsNameUsers
<1> QED
  BY <1>1, <1>3 DEF Typed, TypeOK

\* What Next does, spelled out.
LEMMA NextCases ==
  ASSUME Next
  PROVE  \E t \in Tabs :
           \/ Load(t)
           \/ \E u \in Users : Login(t, u)
           \/ \E op \in {"logout", "write", "save"} : CallShown(t, op)
           \/ \E op \in {"me", "write", "save"} : Unauthorized(t, op)
           \/ MeAnswered(t) \/ LoginAnswered(t) \/ LoginRefused(t) \/ LogoutAnswered(t)
           \/ WriteAnswered(t) \/ SaveAnswered(t)
           \/ \E op \in Ops : Lost(t, op)
<1>1. PICK t \in Tabs : Act(t) \/ \E op \in Ops : Answer(t, op)
  BY DEF Next
<1>2. CASE Act(t)
  <2>1. CASE \E op \in Ops : CallShown(t, op)
    BY <2>1 DEF CallShown
  <2> QED
    BY <1>2, <2>1 DEF Act
<1>3. ASSUME NEW op \in Ops, Answer(t, op)
      PROVE  \/ Unauthorized(t, op) /\ op \in {"me", "write", "save"}
             \/ MeAnswered(t) \/ LoginAnswered(t) \/ LoginRefused(t) \/ LogoutAnswered(t)
             \/ WriteAnswered(t) \/ SaveAnswered(t) \/ Lost(t, op)
  BY <1>3 DEF Answer, Unauthorized
<1> QED
  BY <1>1, <1>2, <1>3

\* An answer leaves no call that was not in flight; a step changes one tab at most.
Answered == \A s \in Tabs, o \in Ops : calls'[s][o] = None \/ calls'[s][o] = calls[s][o]
TabChanges(t) == /\ tab' \in [Tabs -> Store] /\ late' \subseteq Tabs
                 /\ \A s \in Tabs \ {t} : tab'[s] = tab[s] /\ (s \in late' <=> s \in late)

LEMMA LoadStep ==
  ASSUME Typed, NEW t \in Tabs, Load(t)
  PROVE  /\ Typed' /\ TabChanges(t) /\ jar' = jar /\ tab'[t].user = None
         /\ \A s \in Tabs, o \in Ops : calls'[s][o] \in {None, Get, calls[s][o]}
<1>1. /\ Only("me", Get) \in [Ops -> Call \cup {None}] /\ Only("me", Get)["me"] = Get
      /\ \A o \in Ops \ {"me"} : Only("me", Get)[o] = None
  BY GetFact, OnlyFact DEF Ops
<1>2. /\ calls' \in [Tabs -> [Ops -> Call \cup {None}]]
      /\ \A s \in Tabs \ {t} : calls'[s] = calls[s]
      /\ calls'[t] = Only("me", Get)
  BY <1>1 DEF Load, Typed, TypeOK
<1>3. \A s \in Tabs, o \in Ops : calls'[s][o] \in {None, Get, calls[s][o]}
  BY <1>1, <1>2
<1>4. LoginsNameUsers'
  BY <1>1, <1>2 DEF Typed, LoginsNameUsers, Ops
<1>5. TabChanges(t) /\ jar' = jar /\ tab'[t].user = None
  BY Constants DEF Load, Typed, TypeOK, TabChanges
<1> QED
  BY <1>2, <1>3, <1>4, <1>5 DEF Typed, TypeOK, TabChanges

LEMMA SendStep ==
  ASSUME Typed, NEW t \in Tabs, NEW op \in Ops, NEW c \in Call, Send(t, op, c),
         op = "login" => c.shown \in Users, UNCHANGED <<jar, tab, late>>
  PROVE  /\ Typed'
         /\ \A s \in Tabs, o \in Ops : calls'[s][o] = c \/ calls'[s][o] = calls[s][o]
BY SendFact DEF Typed, TypeOK

LEMMA QuietStep ==
  ASSUME Typed, NEW t \in Tabs, NEW op \in Ops, Done(t, op), UNCHANGED <<tab, late>>,
         jar' \in Cookies
  PROVE  Typed' /\ Answered /\ TabChanges(t)
BY DoneFact DEF Typed, TypeOK, Answered, TabChanges

LEMMA SignOutStep ==
  ASSUME Typed, NEW t \in Tabs, NEW op \in Ops, Done(t, op), SignOut(t), jar' \in Cookies
  PROVE  Typed' /\ Answered /\ TabChanges(t) /\ tab'[t].user = None
BY DoneFact, SignOutFact DEF Typed, TypeOK, Answered, TabChanges

LEMMA ShowsStep ==
  ASSUME Typed, NEW t \in Tabs, NEW op \in Ops, Done(t, op), jar' \in Cookies,
         NEW u \in Users \cup {None}, NEW tok \in Tokens \cup {None}, Shows(t, u, tok),
         late' \in {late, late \ {t}, late \cup {t}}
  PROVE  /\ Typed' /\ Answered /\ TabChanges(t)
         /\ tab'[t].user = u /\ tab'[t].token = tok
BY DoneFact, ShowsFact DEF Typed, TypeOK, Answered, TabChanges

\* What is shown of whom: the tab that changes decides.
OwnsToken(t) == /\ tab[t].user # None /\ t \notin late
                  => tab[t].token # None /\ tab[t].token[1] = tab[t].user

LEMMA ShownKept ==
  ASSUME NEW t \in Tabs, TabChanges(t), ShownUserOwnsToken, OwnsToken(t)'
  PROVE  ShownUserOwnsToken'
BY DEF TabChanges, ShownUserOwnsToken, OwnsToken

LEMMA CallsKept ==
  ASSUME Answered, CookiesOwned, HeadersOwned, Owned(jar)'
  PROVE  CookiesOwned' /\ HeadersOwned'
<1>1. ASSUME NEW s \in Tabs, NEW o \in Ops, calls'[s][o] # None
      PROVE  Owned(calls'[s][o]) /\ HeaderOwned(calls'[s][o])
  BY <1>1 DEF Answered, CookiesOwned, HeadersOwned
<1> QED
  BY <1>1 DEF CookiesOwned, HeadersOwned, Owned, HeaderOwned

LEMMA CallsSent ==
  ASSUME CookiesOwned, HeadersOwned, jar' = jar, NEW c, Owned(c), HeaderOwned(c),
         \A s \in Tabs, o \in Ops : calls'[s][o] \in {None, c, calls[s][o]}
  PROVE  CookiesOwned' /\ HeadersOwned'
<1>1. ASSUME NEW s \in Tabs, NEW o \in Ops, calls'[s][o] # None
      PROVE  Owned(calls'[s][o]) /\ HeaderOwned(calls'[s][o])
  BY <1>1 DEF CookiesOwned, HeadersOwned
<1> QED
  BY <1>1 DEF CookiesOwned, HeadersOwned, Owned, HeaderOwned

-----------------------------------------------------------------------------
(* The inductive invariant. *)

LEMMA InvInit == Init => IInv
<1> SUFFICES ASSUME Init PROVE IInv
  OBVIOUS
<1>1. Typed
  BY TypedInit
<1>2. /\ jar.user = None /\ \A t \in Tabs : tab[t].user = None
  BY Constants DEF Init
<1>3. \A t \in Tabs, op \in Ops : calls[t][op] \in {None, LoginOf(None)}
  BY LoginFact, OnlyFact DEF Init, Ops
<1>4. Owned(LoginOf(None)) /\ HeaderOwned(LoginOf(None)) /\ Owned(jar)
  BY <1>2, LoginFact DEF Owned, HeaderOwned
<1>5. CookiesOwned /\ HeadersOwned
  BY <1>3, <1>4 DEF CookiesOwned, HeadersOwned
<1>6. ShownUserOwnsToken
  BY <1>2 DEF ShownUserOwnsToken
<1> QED
  BY <1>1, <1>5, <1>6 DEF IInv

\* The user acts: a page load, a login, a call of the shown user.
LEMMA ActNext ==
  ASSUME IInv, NEW t \in Tabs,
         \/ Load(t)
         \/ \E u \in Users : Login(t, u)
         \/ \E op \in {"logout", "write", "save"} : CallShown(t, op)
  PROVE  IInv'
<1> USE DEF IInv
<1>1. CASE Load(t)
  <2>1. /\ Typed' /\ TabChanges(t) /\ jar' = jar /\ tab'[t].user = None
        /\ \A s \in Tabs, o \in Ops : calls'[s][o] \in {None, Get, calls[s][o]}
    BY <1>1, LoadStep
  <2>2. Owned(Get) /\ HeaderOwned(Get)
    BY GetFact DEF Owned, HeaderOwned, CookiesOwned
  <2>3. CookiesOwned' /\ HeadersOwned'
    BY <2>1, <2>2, CallsSent
  <2>4. ShownUserOwnsToken'
    BY <2>1, ShownKept DEF OwnsToken
  <2> QED
    BY <2>1, <2>3, <2>4
<1>2. ASSUME NEW u \in Users, Login(t, u)
      PROVE  IInv'
  <2>1. /\ LoginOf(u) \in Call /\ LoginOf(u).shown \in Users
        /\ Owned(LoginOf(u)) /\ HeaderOwned(LoginOf(u))
    BY LoginFact DEF Owned, HeaderOwned
  <2>2. /\ Typed' /\ UNCHANGED <<jar, tab, late>>
        /\ \A s \in Tabs, o \in Ops : calls'[s][o] = LoginOf(u) \/ calls'[s][o] = calls[s][o]
    BY <1>2, <2>1, SendStep DEF Login, Ops
  <2>3. CookiesOwned' /\ HeadersOwned'
    BY <2>1, <2>2, CallsSent
  <2> QED
    BY <2>2, <2>3 DEF ShownUserOwnsToken
<1>3. ASSUME NEW op \in {"logout", "write", "save"}, CallShown(t, op)
      PROVE  IInv'
  <2>1. /\ Write(t) \in Call
        /\ Write(t).user = jar.user /\ Write(t).csrf = jar.csrf
        /\ Write(t).header = tab[t].token /\ Write(t).shown = tab[t].user
        /\ Write(t).late = (t \in late)
    BY WriteFact
  <2>2. Owned(Write(t)) /\ HeaderOwned(Write(t))
    BY <1>3, <2>1 DEF Owned, HeaderOwned, CookiesOwned, ShownUserOwnsToken, CallShown
  <2>3. /\ Typed' /\ UNCHANGED <<jar, tab, late>>
        /\ \A s \in Tabs, o \in Ops : calls'[s][o] = Write(t) \/ calls'[s][o] = calls[s][o]
    BY <1>3, <2>1, SendStep DEF CallShown, Ops
  <2>4. CookiesOwned' /\ HeadersOwned'
    BY <2>2, <2>3, CallsSent
  <2> QED
    BY <2>3, <2>4 DEF ShownUserOwnsToken
<1> QED
  BY <1>1, <1>2, <1>3

\* An answer that leaves the tabs alone.
LEMMA QuietNext ==
  ASSUME IInv, NEW t \in Tabs, NEW op \in Ops, Done(t, op), UNCHANGED <<jar, tab, late>>
  PROVE  IInv'
<1> USE DEF IInv
<1>1. Typed' /\ Answered
  BY QuietStep DEF Typed, TypeOK
<1>2. CookiesOwned' /\ HeadersOwned'
  BY <1>1, CallsKept DEF CookiesOwned, Owned
<1> QED
  BY <1>1, <1>2 DEF ShownUserOwnsToken

\* An answer that signs the tab out, and may clear the cookies.
LEMMA SignOutNext ==
  ASSUME IInv, NEW t \in Tabs, NEW op \in Ops, Done(t, op), SignOut(t),
         jar' \in {jar, NoCookies}
  PROVE  IInv'
<1> USE DEF IInv
<1>1. jar' \in Cookies
  BY Constants DEF Typed, TypeOK
<1>2. Typed' /\ Answered /\ TabChanges(t) /\ tab'[t].user = None
  BY <1>1, SignOutStep
<1>3. Owned(jar)'
  BY Constants DEF CookiesOwned, Owned
<1>4. CookiesOwned' /\ HeadersOwned'
  BY <1>2, <1>3, CallsKept
<1>5. ShownUserOwnsToken'
  BY <1>2, ShownKept DEF OwnsToken
<1> QED
  BY <1>2, <1>4, <1>5

\* An answer that shows a user: with a token of that user, or as a late one.
LEMMA ShowsNext ==
  ASSUME IInv, NEW t \in Tabs, NEW op \in Ops, Done(t, op), jar' \in Cookies, Owned(jar)',
         NEW u \in Users, NEW tok \in Tokens \cup {None}, Shows(t, u, tok),
         late' \in {late, late \ {t}, late \cup {t}},
         t \in late' \/ (tok # None /\ tok[1] = u)
  PROVE  IInv'
<1> USE DEF IInv
<1>1. Typed' /\ Answered /\ TabChanges(t) /\ tab'[t].user = u /\ tab'[t].token = tok
  BY ShowsStep
<1>2. CookiesOwned' /\ HeadersOwned'
  BY <1>1, CallsKept
<1>3. ShownUserOwnsToken'
  BY <1>1, ShownKept DEF OwnsToken
<1> QED
  BY <1>1, <1>2, <1>3

LEMMA MeNext ==
  ASSUME IInv, NEW t \in Tabs, MeAnswered(t)
  PROVE  IInv'
<1> DEFINE c == calls[t]["me"]
<1>1. "me" \in Ops /\ c # None /\ c.user # None
  BY DEF MeAnswered, Ops
<1>2. c.user \in Users /\ c.csrf \in Tokens \cup {None} /\ Owned(c)
  BY <1>1, CallFact DEF IInv, CookiesOwned
<1>3. c.csrf # None /\ c.csrf[1] = c.user
  BY <1>1, <1>2 DEF Owned
<1>4. Shows(t, c.user, c.csrf) /\ late' = late \ {t} /\ Done(t, "me") /\ jar' = jar
  BY DEF MeAnswered
<1>5. jar' \in Cookies /\ Owned(jar)'
  BY <1>4 DEF IInv, Typed, TypeOK, CookiesOwned, Owned
<1> HIDE DEF c
<1> QED
  BY <1>1, <1>2, <1>3, <1>4, <1>5, ShowsNext

LEMMA LoginNext ==
  ASSUME IInv, NEW t \in Tabs, LoginAnswered(t)
  PROVE  IInv'
<1> DEFINE u == calls[t]["login"].shown
<1>1. "login" \in Ops /\ calls[t]["login"] # None /\ Unused(u) # {}
  BY DEF LoginAnswered, Ops, Flying
<1>2. u \in Users
  BY <1>1 DEF IInv, Typed, LoginsNameUsers
<1>3. FreshToken(u) \in Tokens /\ FreshToken(u)[1] = u
  BY <1>1, <1>2, FreshTokenFact
<1>4. /\ jar' = [user |-> u, csrf |-> FreshToken(u)] /\ jar'.csrf = FreshToken(u)
      /\ Shows(t, u, FreshToken(u)) /\ late' = late \ {t} /\ Done(t, "login")
  BY DEF LoginAnswered
<1> HIDE DEF u
<1>5. jar' \in Cookies /\ Owned(jar)' /\ FreshToken(u) # None
  BY <1>2, <1>3, <1>4, Constants DEF Cookies, Owned
<1> QED
  BY <1>1, <1>2, <1>3, <1>4, <1>5, ShowsNext

LEMMA SaveNext ==
  ASSUME IInv, NEW t \in Tabs, SaveAnswered(t)
  PROVE  IInv'
<1> DEFINE c == calls[t]["save"]
<1>1. "save" \in Ops /\ c # None /\ c.user # None
  BY DEF SaveAnswered, Ops
<1>2. c.user \in Users /\ tab[t].token \in Tokens \cup {None}
  BY <1>1, CallFact DEF IInv, Typed, TypeOK, Store
<1>3. Done(t, "save") /\ jar' = jar /\ jar' \in Cookies /\ Owned(jar)'
  BY DEF SaveAnswered, IInv, Typed, TypeOK, CookiesOwned, Owned
<1>4. CASE CsrfPasses(c)
  <2>1. /\ Shows(t, c.user, tab[t].token)
        /\ late' = IF c.user = tab[t].user THEN late ELSE late \cup {t}
    BY <1>4 DEF SaveAnswered
  <2>2. late' \in {late, late \ {t}, late \cup {t}}
    BY <2>1
  <2>3. t \in late' \/ (tab[t].token # None /\ tab[t].token[1] = c.user)
    BY <1>1, <2>1 DEF IInv, ShownUserOwnsToken
  <2> HIDE DEF c
  <2> QED
    BY <1>1, <1>2, <1>3, <2>1, <2>2, <2>3, ShowsNext
<1>5. CASE ~CsrfPasses(c)
  BY <1>1, <1>3, <1>5, QuietNext DEF SaveAnswered
<1> QED
  BY <1>4, <1>5

LEMMA InvNext == IInv /\ [Next]_vars => IInv'
<1> SUFFICES ASSUME IInv, [Next]_vars PROVE IInv'
  OBVIOUS
<1>1. CASE UNCHANGED vars
  BY <1>1 DEF vars, IInv, Typed, TypeOK, LoginsNameUsers, CookiesOwned, HeadersOwned,
              Owned, HeaderOwned, ShownUserOwnsToken
<1>2. CASE Next
  <2>1. PICK t \in Tabs :
           \/ Load(t)
           \/ \E u \in Users : Login(t, u)
           \/ \E op \in {"logout", "write", "save"} : CallShown(t, op)
           \/ \E op \in {"me", "write", "save"} : Unauthorized(t, op)
           \/ MeAnswered(t) \/ LoginAnswered(t) \/ LoginRefused(t) \/ LogoutAnswered(t)
           \/ WriteAnswered(t) \/ SaveAnswered(t)
           \/ \E op \in Ops : Lost(t, op)
    BY <1>2, NextCases
  <2>2. CASE \E op \in {"me", "write", "save"} : Unauthorized(t, op)
    BY <2>2, SignOutNext DEF Unauthorized, Ops
  <2>3. CASE LoginRefused(t) \/ WriteAnswered(t)
    BY <2>3, QuietNext DEF LoginRefused, WriteAnswered, Ops
  <2>4. CASE LogoutAnswered(t)
    BY <2>4, SignOutNext DEF LogoutAnswered, Ops
  <2>5. ASSUME NEW op \in Ops, Lost(t, op)
        PROVE  IInv'
    <3>1. CASE op \in {"me", "logout"}
      BY <2>5, <3>1, SignOutNext DEF Lost
    <3>2. CASE op \notin {"me", "logout"}
      BY <2>5, <3>2, QuietNext DEF Lost
    <3> QED
      BY <3>1, <3>2
  <2> QED
    BY <2>1, <2>2, <2>3, <2>4, <2>5, ActNext, MeNext, LoginNext, SaveNext
<1> QED
  BY <1>1, <1>2

-----------------------------------------------------------------------------
(* Theorems. *)

\* Each tab's user and token, and the cookies and header of each call in flight, belong
\* together at every moment (useAuthStore.ts:32-53, csrf.middleware.ts:20-24).
THEOREM Invariance == Spec => []IInv
BY InvInit, InvNext, PTL DEF Spec

\* The cookies, the tabs' stores and the calls in flight are always what they should be.
THEOREM TypeCorrect == Spec => []TypeOK
<1>1. IInv => TypeOK
  BY DEF IInv, Typed
<1> QED
  BY <1>1, Invariance, PTL

\* A tab that shows a user holds a CSRF token of that very user, whatever logins and logouts
\* the other tabs make and in whatever order answers come; only a profile answer that arrives
\* late is excepted (useAuthStore.ts:36,49).
THEOREM TokensAreTheShownUsers == Spec => []ShownUserOwnsToken
<1>1. IInv => ShownUserOwnsToken
  BY DEF IInv
<1> QED
  BY <1>1, Invariance, PTL

\* A write the API will accept was sent by a tab that showed the user it is written for:
\* its header is a token of the shown user, its cookie one of the access token's user, and
\* csrfMiddleware wants them equal (csrf.middleware.ts:20-24).
THEOREM WritesGoToTheShownUser == Spec => []WritesAreTheShownUsers
<1>1. ASSUME IInv, NEW t \in Tabs, NEW op \in {"write", "save"}, calls[t][op] # None,
             calls[t][op].user # None, CsrfPasses(calls[t][op]), ~calls[t][op].late
      PROVE  calls[t][op].user = calls[t][op].shown
  BY <1>1 DEF IInv, CookiesOwned, HeadersOwned, Owned, HeaderOwned, CsrfPasses, Ops
<1>2. IInv => WritesAreTheShownUsers
  BY <1>1 DEF WritesAreTheShownUsers
<1> QED
  BY <1>2, Invariance, PTL
=============================================================================

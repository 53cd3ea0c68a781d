-------------------------- MODULE RateLimitProofs --------------------------
(***************************************************************************)
(* Proofs about RateLimit, for any keys, limit, window, length of a second *)
(* and bounds.                                                             *)
(***************************************************************************)
EXTENDS RateLimit, TLAPS

Least(a, b) == IF a < b THEN a ELSE b
Opened(k) == entries[k].resetAt - WindowMs

\* The running totals never fall, and are flat from the next tick on.
Totals(k) ==
  /\ \A t, u \in Instants : t <= u => passed[k][t] <= passed[k][u]
  /\ \A t \in Instants : now < t => passed[k][t] = passed[k][now + 1]

\* The window of an entry was opened at a past tick; what was let through since is what its
\* counter says, nothing was let through after its end, and what was let through in less
\* than a window before it was opened belongs to one earlier window.
Window(k) ==
  /\ WindowMs <= entries[k].resetAt /\ Opened(k) <= now
  /\ \A t \in Instants : entries[k].resetAt <= t => passed[k][t] = passed[k][now + 1]
  /\ passed[k][now + 1] - passed[k][Opened(k)] = Least(entries[k].count, MaxRequests)
  /\ \A t \in Instants : t < Opened(k) /\ Opened(k) < t + WindowMs =>
       passed[k][Opened(k)] - passed[k][t] <= MaxRequests

\* A key without an entry has had nothing let through.
Spending(k) ==
  /\ Totals(k)
  /\ IF entries[k] = None THEN \A t \in Instants : passed[k][t] = 0 ELSE Window(k)
  /\ \A t \in 0..MaxTime : PassedFrom(k, t) <= 2 * MaxRequests

\* A client that was told to come back was told an instant past the end of its window,
\* which its requests have used up.
Telling(k) ==
  told[k] # None => /\ entries[k] # None
                    /\ entries[k].resetAt <= told[k] /\ MaxRequests < entries[k].count

IInv == TypeOK /\ \A k \in Clients : Spending(k) /\ Telling(k)

-----------------------------------------------------------------------------
(* Retry-After, and typing. *)

\* Seconds rounded up are long enough.
LEMMA CeilDivSuffices ==
  ASSUME NEW a \in Nat, NEW b \in Nat \ {0}
  PROVE  CeilDiv(a, b) \in Nat /\ a <= CeilDiv(a, b) * b
<1> DEFINE n == a + b - 1
           q == n \div b
<1>1. n \in Nat /\ b \in Nat /\ 0 < b
  OBVIOUS
<1>2. q \in Int /\ b * q <= n /\ n < b * q + b
  BY <1>1, SMT
<1>3. q \in Nat
  BY <1>1, <1>2, SMT
<1>4. a <= q * b
  BY <1>1, <1>2, <1>3, SMT
<1> QED
  BY <1>3, <1>4 DEF CeilDiv

\* What a request makes of the entry of its key.
LEMMA CountedFact ==
  ASSUME TypeOK, NEW k \in Clients, ~Over(k) => entries[k].count < MaxCount
  PROVE  /\ Counted(k) \in Entry /\ now < Counted(k).resetAt
         /\ Over(k) => Counted(k).count = 1 /\ Counted(k).resetAt = now + WindowMs
         /\ ~Over(k) => /\ entries[k] \in Entry /\ now < entries[k].resetAt
                        /\ Counted(k).count = entries[k].count + 1
                        /\ Counted(k).resetAt = entries[k].resetAt
<1>0. now \in Nat /\ 1 \in 1..MaxCount
  BY LimitAssumption DEF TypeOK
<1>1. CASE Over(k)
  BY <1>0, <1>1, LimitAssumption DEF Counted, Entry
<1>2. CASE ~Over(k)
  <2>1. entries[k] \in Entry /\ now < entries[k].resetAt
    BY <1>0, <1>2 DEF Over, TypeOK, Entry
  <2>2. entries[k].count + 1 \in 1..MaxCount
    BY <1>2, <2>1, LimitAssumption DEF Entry
  <2> QED
    BY <1>2, <2>1, <2>2 DEF Counted, Entry
<1> QED
  BY <1>1, <1>2

LEMMA TypedNext == TypeOK /\ [Next]_vars => TypeOK'
<1> SUFFICES ASSUME TypeOK, [Next]_vars PROVE TypeOK'
  OBVIOUS
<1>0. now \in Nat /\ MaxTime \in Nat
  BY LimitAssumption DEF TypeOK
<1>1. ASSUME NEW k \in Clients, Request(k) PROVE TypeOK'
  <2>1. Counted(k) \in Entry /\ now < Counted(k).resetAt
    BY <1>1, CountedFact DEF Request
  <2>2. entries' \in [Clients -> Entry \cup {None}]
    BY <1>1, <2>1 DEF Request, TypeOK
  <2>3. RetryAfter(Counted(k)) \in Nat
    <3>1. Counted(k).resetAt - now \in Nat
      BY <1>0, <2>1 DEF Entry
    <3> QED
      BY <3>1, CeilDivSuffices, LimitAssumption DEF RetryAfter
  <2>4. now + RetryAfter(Counted(k)) * Second \in Nat
    BY <1>0, <2>3, LimitAssumption
  <2>5. LetThrough(k) \in [Instants -> Nat]
    BY <1>0 DEF LetThrough, TypeOK
  <2>6. told' \in [Clients -> Nat \cup {None}]
    BY <1>1, <2>4 DEF Request, TypeOK
  <2>7. passed' \in [Clients -> [Instants -> Nat]]
    BY <1>1, <2>5 DEF Request, TypeOK
  <2> QED
    BY <1>1, <2>2, <2>6, <2>7 DEF Request, TypeOK
<1>2. CASE Tick
  BY <1>0, <1>2 DEF Tick, TypeOK
<1>3. CASE Restart
  BY <1>3 DEF Restart, TypeOK
<1>4. CASE UNCHANGED vars
  BY <1>4 DEF vars, TypeOK
<1> QED
  BY <1>1, <1>2, <1>3, <1>4 DEF Next

LEMMA TypedInit == Init => TypeOK
BY LimitAssumption DEF Init, TypeOK

\* Type correctness.
THEOREM TypeCorrect == Spec => []TypeOK
BY TypedInit, TypedNext, PTL DEF Spec

-----------------------------------------------------------------------------
(* What a window lets through. *)

\* A step that leaves a key alone while time stands still keeps what is known of the key.
LEMMA KeyKept ==
  ASSUME NEW k \in Clients, Spending(k), Telling(k), now' = now,
         entries'[k] = entries[k], passed'[k] = passed[k], told'[k] = told[k]
  PROVE  Spending(k)' /\ Telling(k)'
BY DEF Spending, Totals, Window, Opened, PassedFrom, Telling

\* The first request of a window.
LEMMA WindowOpens ==
  ASSUME TypeOK, TypeOK', NEW k \in Clients, Spending(k), Over(k), now' = now,
         entries'[k] \in Entry, entries'[k].count = 1, entries'[k].resetAt = now + WindowMs,
         passed'[k] = LetThrough(k)
  PROVE  Window(k)'
<1>0. /\ now \in Nat /\ now + 1 \in Instants /\ now \in Instants
      /\ MaxRequests \in Nat /\ 1 <= MaxRequests /\ WindowMs \in Nat /\ 0 < WindowMs
      /\ \A t \in Instants : t \in Nat /\ passed[k][t] \in Nat
  BY LimitAssumption DEF TypeOK, Instants
<1>1. \A t \in Instants : /\ now < t => passed'[k][t] = passed[k][now + 1] + 1
                          /\ t <= now => passed'[k][t] = passed[k][t]
  BY <1>0 DEF LetThrough, Spending, Totals
<1>2. entries'[k] # None /\ Opened(k)' = now
  BY <1>0, NoneAssumption DEF Opened
<1>3. passed[k][now + 1] = passed[k][now]
  BY <1>0 DEF Spending, Window, Over
<1>4. ASSUME NEW t \in Instants, t < now, now < t + WindowMs
      PROVE  passed[k][now] - passed[k][t] <= MaxRequests
  <2>1. CASE entries[k] = None
    BY <1>0, <2>1 DEF Spending
  <2>2. CASE entries[k] # None
    <3>1. entries[k] \in Entry /\ entries[k].resetAt <= now /\ WindowMs <= entries[k].resetAt
      BY <2>2 DEF Over, TypeOK, Spending, Window
    <3>2. /\ Opened(k) \in Instants /\ Opened(k) <= t
          /\ passed[k][Opened(k)] <= passed[k][t]
      <4>1. Opened(k) \in Nat /\ Opened(k) <= t
        BY <1>0, <1>4, <3>1 DEF Opened, Entry
      <4>2. Opened(k) \in Instants
        BY <1>0, <1>4, <4>1, LimitAssumption DEF Instants
      <4> QED
        BY <4>1, <4>2 DEF Spending, Totals
    <3>3. passed[k][now + 1] - passed[k][Opened(k)] <= MaxRequests
      BY <1>0, <2>2, <3>1, <3>2, LimitAssumption DEF Spending, Window, Least, Entry
    <3>4. /\ passed[k][now] \in Nat /\ passed[k][now + 1] \in Nat
          /\ passed[k][Opened(k)] \in Nat /\ passed[k][t] \in Nat
      BY <1>0, <3>2
    <3> QED
      BY <1>0, <1>3, <3>2, <3>3, <3>4
  <2> QED
    BY <2>1, <2>2
<1>5. Least(1, MaxRequests) = 1
  BY <1>0 DEF Least
<1>6. passed'[k][now + 1] - passed'[k][now] = 1
  BY <1>0, <1>1, <1>3
<1>7. \A t \in Instants : now + WindowMs <= t => passed'[k][t] = passed'[k][now + 1]
  BY <1>0, <1>1
<1>8. \A t \in Instants : t < now /\ now < t + WindowMs =>
        passed'[k][now] - passed'[k][t] <= MaxRequests
  BY <1>0, <1>1, <1>4
<1> QED
  BY <1>0, <1>2, <1>5, <1>6, <1>7, <1>8 DEF Window

\* A request let through into a window that is running.
LEMMA WindowGoesOn ==
  ASSUME TypeOK, TypeOK', NEW k \in Clients, Spending(k), ~Over(k), now' = now,
         entries'[k] \in Entry, entries'[k].count = entries[k].count + 1,
         entries'[k].resetAt = entries[k].resetAt, entries[k].count < MaxRequests,
         passed'[k] = LetThrough(k)
  PROVE  Window(k)'
<1>0. /\ now \in Nat /\ now + 1 \in Instants /\ now \in Instants
      /\ MaxRequests \in Nat /\ WindowMs \in Nat
      /\ \A t \in Instants : t \in Nat /\ passed[k][t] \in Nat
      /\ entries[k] \in Entry /\ entries[k].count \in Nat /\ entries[k].resetAt \in Nat
      /\ Window(k) /\ now < entries[k].resetAt
  <2>1. now \in 0..MaxTime /\ MaxTime \in Nat /\ MaxRequests \in Nat /\ WindowMs \in Nat
    BY LimitAssumption DEF TypeOK
  <2>2. entries[k] \in Entry \cup {None} /\ passed[k] \in [Instants -> Nat]
    BY DEF TypeOK
  <2>3. entries[k] # None /\ ~(entries[k].resetAt <= now) /\ Window(k)
    BY DEF Over, Spending
  <2>4. entries[k] \in Entry /\ entries[k].count \in Nat /\ entries[k].resetAt \in Nat
    BY <2>2, <2>3 DEF Entry
  <2>5. now < entries[k].resetAt
    BY <2>1, <2>3, <2>4
  <2> QED
    BY <2>1, <2>2, <2>3, <2>4, <2>5 DEF Instants
<1>1. \A t \in Instants : /\ now < t => passed'[k][t] = passed[k][now + 1] + 1
                          /\ t <= now => passed'[k][t] = passed[k][t]
  BY <1>0 DEF LetThrough, Spending, Totals
<1>2. Opened(k)' = Opened(k) /\ Opened(k) \in Instants /\ Opened(k) <= now
  BY <1>0, LimitAssumption DEF Opened, Window, Instants
<1>3. /\ Least(entries[k].count, MaxRequests) = entries[k].count
      /\ Least(entries'[k].count, MaxRequests) = entries[k].count + 1
  BY <1>0 DEF Least
<1>4. passed'[k][now + 1] - passed'[k][Opened(k)] = entries[k].count + 1
  <2>1. passed'[k][now + 1] = passed[k][now + 1] + 1
    BY <1>0, <1>1
  <2>2. passed'[k][Opened(k)] = passed[k][Opened(k)]
    BY <1>1, <1>2
  <2>3. passed[k][now + 1] - passed[k][Opened(k)] = entries[k].count
    BY <1>0, <1>3 DEF Window
  <2>4. passed[k][now + 1] \in Nat /\ passed[k][Opened(k)] \in Nat
    BY <1>0, <1>2
  <2> QED
    BY <1>0, <2>1, <2>2, <2>3, <2>4
<1>5. ASSUME NEW t \in Instants, entries[k].resetAt <= t
      PROVE  passed'[k][t] = passed'[k][now + 1]
  <2>1. now \in Nat /\ t \in Nat /\ entries[k].resetAt \in Nat /\ now < entries[k].resetAt
    BY <1>0
  <2>2. now < t /\ now < now + 1
    BY <1>5, <2>1
  <2> QED
    BY <1>0, <1>1, <2>2
<1>6. ASSUME NEW t \in Instants, t < Opened(k), Opened(k) < t + WindowMs
      PROVE  passed'[k][Opened(k)] - passed'[k][t] <= MaxRequests
  <2>1. t <= now
    <3>1. t \in Nat /\ Opened(k) \in Nat
      BY <1>0, <1>2
    <3> QED
      BY <1>0, <1>2, <1>6, <3>1
  <2>2. passed'[k][Opened(k)] = passed[k][Opened(k)] /\ passed'[k][t] = passed[k][t]
    BY <1>1, <1>2, <2>1
  <2> QED
    BY <1>0, <1>6, <2>2 DEF Window
<1> QED
  BY <1>0, <1>2, <1>3, <1>4, <1>5, <1>6 DEF Window

\* A refused request counts and lets nothing through.
LEMMA WindowIsFull ==
  ASSUME TypeOK, TypeOK', NEW k \in Clients, Spending(k), ~Over(k), now' = now,
         entries'[k] \in Entry, entries'[k].count = entries[k].count + 1,
         entries'[k].resetAt = entries[k].resetAt, MaxRequests <= entries[k].count,
         passed'[k] = passed[k]
  PROVE  Window(k)'
<1>0. /\ MaxRequests \in Nat /\ entries[k] \in Entry /\ entries[k].count \in Nat /\ Window(k)
  BY LimitAssumption DEF TypeOK, Over, Entry, Spending
<1>1. Least(entries'[k].count, MaxRequests) = Least(entries[k].count, MaxRequests)
  BY <1>0 DEF Least
<1>2. Opened(k)' = Opened(k)
  BY DEF Opened
<1> QED
  BY <1>0, <1>1, <1>2 DEF Window

\* From the totals and the window: no stretch as long as a window lets twice its requests
\* through and more.
LEMMA TotalsGrow ==
  ASSUME TypeOK, NEW k \in Clients, Totals(k), now' = now, passed'[k] = LetThrough(k)
  PROVE  Totals(k)'
<1>0. /\ now \in Nat /\ now + 1 \in Instants
      /\ \A t \in Instants : t \in Nat /\ passed[k][t] \in Nat
  BY LimitAssumption DEF TypeOK, Instants
<1>1. \A t \in Instants : passed'[k][t] = IF now < t THEN passed[k][t] + 1 ELSE passed[k][t]
  BY DEF LetThrough
<1>2. \A t, u \in Instants : t <= u => passed'[k][t] <= passed'[k][u]
  BY <1>0, <1>1 DEF Totals
<1>3. \A t \in Instants : now < t => passed'[k][t] = passed'[k][now + 1]
  BY <1>0, <1>1 DEF Totals
<1> QED
  BY <1>2, <1>3 DEF Totals

LEMMA StretchBound ==
  ASSUME TypeOK, TypeOK', NEW k \in Clients, Totals(k)', Window(k)', now' = now,
         entries'[k] \in Entry, now < entries'[k].resetAt,
         \A t \in 0..MaxTime : PassedFrom(k, t) <= 2 * MaxRequests,
         Totals(k), passed'[k] = LetThrough(k)
  PROVE  \A t \in 0..MaxTime : PassedFrom(k, t)' <= 2 * MaxRequests
<1>0. /\ now \in Nat /\ now \in Instants /\ now + 1 \in Instants
      /\ MaxRequests \in Nat /\ WindowMs \in Nat /\ 0 < WindowMs
      /\ \A t \in Instants : t \in Nat /\ passed[k][t] \in Nat /\ passed'[k][t] \in Nat
  BY LimitAssumption DEF TypeOK, Instants
<1>1. PICK s \in Instants : s = entries'[k].resetAt - WindowMs /\ s <= now
  BY <1>0, LimitAssumption DEF Window, Opened, Entry, Instants
<1>2. /\ passed'[k][now + 1] - passed'[k][s] <= MaxRequests
      /\ \A t \in Instants : t < s /\ s < t + WindowMs =>
           passed'[k][s] - passed'[k][t] <= MaxRequests
  BY <1>0, <1>1, LimitAssumption DEF Window, Opened, Least, Entry
<1> SUFFICES ASSUME NEW t \in 0..MaxTime PROVE PassedFrom(k, t)' <= 2 * MaxRequests
  OBVIOUS
<1>3. PICK end \in Instants :
        end = IF t + WindowMs <= MaxTime THEN t + WindowMs ELSE MaxTime + 1
  BY <1>0, LimitAssumption DEF Instants
<1>4. t \in Instants /\ t < end /\ end <= t + WindowMs /\ t \in Nat /\ end \in Nat /\ s \in Nat
  BY <1>0, <1>3, LimitAssumption DEF Instants
<1>5. /\ PassedFrom(k, t) = passed[k][end] - passed[k][t]
      /\ PassedFrom(k, t)' = passed'[k][end] - passed'[k][t]
  BY <1>3 DEF PassedFrom
<1>6. /\ passed[k][end] \in Nat /\ passed[k][t] \in Nat
      /\ passed'[k][end] \in Nat /\ passed'[k][t] \in Nat /\ passed'[k][s] \in Nat
  BY <1>0, <1>4
<1>7. CASE end <= now \/ now < t
  <2>1. /\ passed'[k][end] = IF now < end THEN passed[k][end] + 1 ELSE passed[k][end]
        /\ passed'[k][t] = IF now < t THEN passed[k][t] + 1 ELSE passed[k][t]
    BY <1>4 DEF LetThrough
  <2>2. passed'[k][end] - passed'[k][t] = passed[k][end] - passed[k][t]
    BY <1>0, <1>4, <1>6, <1>7, <2>1
  <2> QED
    BY <1>5, <2>2
<1>8. CASE t <= now /\ now < end
  <2>1. passed'[k][end] = passed'[k][now + 1]
    BY <1>0, <1>4, <1>8 DEF Totals
  <2>2. CASE s <= t
    <3>1. passed'[k][s] <= passed'[k][t]
      BY <1>1, <1>4, <2>2 DEF Totals
    <3> QED
      BY <1>0, <1>2, <1>5, <1>6, <2>1, <3>1
  <2>3. CASE t < s
    <3>1. s < t + WindowMs
      BY <1>0, <1>1, <1>4, <1>8
    <3>2. passed'[k][s] - passed'[k][t] <= MaxRequests
      BY <1>2, <1>4, <2>3, <3>1
    <3> QED
      BY <1>0, <1>2, <1>5, <1>6, <2>1, <3>2
  <2> QED
    BY <1>4, <2>2, <2>3
<1> QED
  BY <1>0, <1>4, <1>7, <1>8

\* A request keeps what is known of its own key.
LEMMA RequestSpends ==
  ASSUME TypeOK, TypeOK', NEW k \in Clients, Spending(k), Telling(k), Request(k)
  PROVE  Spending(k)' /\ Telling(k)'
<1>0. /\ now \in Nat /\ now' = now /\ MaxRequests \in Nat /\ 1 <= MaxRequests
      /\ entries'[k] = Counted(k)
  BY LimitAssumption DEF TypeOK, Request
<1>1. /\ Counted(k) \in Entry /\ now < Counted(k).resetAt
      /\ Over(k) => Counted(k).count = 1 /\ Counted(k).resetAt = now + WindowMs
      /\ ~Over(k) => /\ entries[k] \in Entry /\ now < entries[k].resetAt
                     /\ Counted(k).count = entries[k].count + 1
                     /\ Counted(k).resetAt = entries[k].resetAt
  BY CountedFact DEF Request
<1>2. entries'[k] \in Entry /\ entries'[k] # None
  BY <1>0, <1>1, NoneAssumption
<1>3. CASE Refuses(Counted(k))
  <2>1. ~Over(k) /\ MaxRequests <= entries[k].count
    <3>1. MaxRequests < Counted(k).count
      BY <1>3 DEF Refuses
    <3>2. ~Over(k)
      BY <1>0, <1>1, <3>1
    <3>3. entries[k].count \in Nat
      BY <1>1, <3>2, LimitAssumption DEF Entry
    <3> QED
      BY <1>0, <1>1, <3>1, <3>2, <3>3
  <2>2. passed' = passed /\ told'[k] = now + RetryAfter(Counted(k)) * Second
    BY <1>3 DEF Request, TypeOK
  <2>3. Window(k)'
    BY <1>0, <1>1, <1>2, <2>1, <2>2, WindowIsFull
  <2>4. Spending(k)'
    BY <1>0, <1>2, <2>2, <2>3 DEF Spending, Totals, PassedFrom
  <2>5. Telling(k)'
    <3>1. Counted(k).resetAt \in Nat /\ Counted(k).resetAt - now \in Nat
      BY <1>0, <1>1 DEF Entry
    <3>2. /\ RetryAfter(Counted(k)) \in Nat
          /\ Counted(k).resetAt - now <= RetryAfter(Counted(k)) * Second
      BY <3>1, CeilDivSuffices, LimitAssumption DEF RetryAfter
    <3>3. RetryAfter(Counted(k)) * Second \in Nat
      BY <3>2, LimitAssumption
    <3>4. Counted(k).resetAt <= now + RetryAfter(Counted(k)) * Second
      BY <1>0, <3>1, <3>2, <3>3
    <3> QED
      BY <1>0, <1>2, <1>3, <2>2, <3>4 DEF Telling, Refuses
  <2> QED
    BY <2>4, <2>5
<1>4. CASE ~Refuses(Counted(k))
  <2>1. passed'[k] = LetThrough(k) /\ told'[k] = None
    BY <1>4 DEF Request, TypeOK
  <2>2. Window(k)'
    <3>1. CASE Over(k)
      BY <1>0, <1>1, <1>2, <2>1, <3>1, WindowOpens
    <3>2. CASE ~Over(k)
      <4>1. entries[k].count \in Nat /\ ~(MaxRequests < entries[k].count + 1)
        BY <1>1, <1>4, <3>2, LimitAssumption DEF Refuses, Entry
      <4>2. entries[k].count < MaxRequests
        BY <1>0, <4>1
      <4> QED
        BY <1>0, <1>1, <1>2, <2>1, <3>2, <4>2, WindowGoesOn
    <3> QED
      BY <3>1, <3>2
  <2>3. Totals(k)'
    BY <1>0, <2>1, TotalsGrow DEF Spending
  <2>4. \A t \in 0..MaxTime : PassedFrom(k, t)' <= 2 * MaxRequests
    BY <1>0, <1>1, <1>2, <2>1, <2>2, <2>3, StretchBound DEF Spending
  <2> QED
    BY <1>2, <2>1, <2>2, <2>3, <2>4 DEF Spending, Telling
<1> QED
  BY <1>3, <1>4

LEMMA InvInit == Init => IInv
<1> SUFFICES ASSUME Init PROVE IInv
  OBVIOUS
<1>0. TypeOK /\ 1 \in Instants /\ now = 0
  BY TypedInit, LimitAssumption DEF Init, Instants
<1>1. ASSUME NEW k \in Clients PROVE Spending(k) /\ Telling(k)
  <2>1. \A t \in Instants : passed[k][t] = 0
    BY DEF Init
  <2>2. \A t \in 0..MaxTime : PassedFrom(k, t) <= 2 * MaxRequests
    <3> TAKE t \in 0..MaxTime
    <3>1. PICK end \in Instants :
            end = IF t + WindowMs <= MaxTime THEN t + WindowMs ELSE MaxTime + 1
      BY LimitAssumption DEF Instants
    <3>2. t \in Instants /\ passed[k][t] = 0 /\ passed[k][end] = 0
      BY <2>1, LimitAssumption DEF Instants
    <3>3. PassedFrom(k, t) = passed[k][end] - passed[k][t]
      BY <3>1 DEF PassedFrom
    <3> QED
      BY <3>2, <3>3, LimitAssumption
  <2> QED
    BY <1>0, <2>1, <2>2 DEF Init, Spending, Totals, Telling
<1> QED
  BY <1>0, <1>1 DEF IInv

LEMMA InvNext == IInv /\ [Next]_vars => IInv'
<1> SUFFICES ASSUME IInv, [Next]_vars PROVE IInv'
  OBVIOUS
<1>0. TypeOK /\ TypeOK' /\ \A k \in Clients : Spending(k) /\ Telling(k)
  BY TypedNext DEF IInv
<1>1. ASSUME NEW l \in Clients, Request(l), NEW k \in Clients
      PROVE  Spending(k)' /\ Telling(k)'
  <2>1. CASE k = l
    BY <1>0, <1>1, <2>1, RequestSpends
  <2>2. CASE k # l
    <3>1. /\ now' = now /\ entries'[k] = entries[k] /\ passed'[k] = passed[k]
          /\ told'[k] = told[k]
      BY <1>0, <1>1, <2>2 DEF Request, TypeOK
    <3> QED
      BY <1>0, <3>1, KeyKept
  <2> QED
    BY <2>1, <2>2
<1>2. ASSUME Tick, NEW k \in Clients
      PROVE  Spending(k)' /\ Telling(k)'
  <2>0. /\ now \in Nat /\ now' = now + 1 /\ now + 1 \in Instants /\ now + 2 \in Instants
        /\ entries' = entries /\ passed' = passed /\ told' = told
        /\ \A t \in Instants : t \in Nat
    BY <1>0, <1>2, LimitAssumption DEF Tick, TypeOK, Instants
  <2>1. passed[k][now + 2] = passed[k][now + 1]
    BY <1>0, <2>0 DEF Spending, Totals
  <2>2. Totals(k)'
    <3>1. \A t \in Instants : now + 1 < t => passed[k][t] = passed[k][now + 2]
      <4> TAKE t \in Instants
      <4>1. now + 1 < t => now < t
        BY <2>0
      <4> QED
        BY <1>0, <2>1, <4>1 DEF Spending, Totals
    <3>2. now' + 1 = now + 2
      BY <2>0
    <3> QED
      BY <1>0, <2>0, <3>1, <3>2 DEF Spending, Totals
  <2>3. entries[k] # None => Window(k)'
    <3> SUFFICES ASSUME entries[k] # None PROVE Window(k)'
      OBVIOUS
    <3>1. entries[k].resetAt \in Nat /\ WindowMs \in Nat /\ Opened(k)' = Opened(k)
      BY <1>0, <2>0, LimitAssumption DEF TypeOK, Entry, Opened
    <3>2. Opened(k) <= now' /\ passed'[k][now' + 1] = passed[k][now + 1]
      <4>1. Opened(k) \in Int /\ Opened(k) <= now
        BY <1>0, <3>1 DEF Opened, Spending, Window
      <4>2. now' + 1 = now + 2
        BY <2>0
      <4> QED
        BY <2>0, <2>1, <4>1, <4>2
    <3> QED
      BY <1>0, <2>0, <3>1, <3>2 DEF Spending, Window
  <2> QED
    BY <1>0, <2>0, <2>2, <2>3 DEF Spending, Telling, PassedFrom
<1>3. ASSUME Restart, NEW k \in Clients
      PROVE  Spending(k)' /\ Telling(k)'
  <2>1. /\ \A t \in Instants : passed'[k][t] = 0
        /\ now' = now /\ entries'[k] = None /\ told'[k] = None
    BY <1>3 DEF Restart
  <2>2. now + 1 \in Instants
    BY <1>0, LimitAssumption DEF TypeOK, Instants
  <2>3. \A t \in 0..MaxTime : PassedFrom(k, t)' <= 2 * MaxRequests
    <3> TAKE t \in 0..MaxTime
    <3>1. PICK end \in Instants :
            end = IF t + WindowMs <= MaxTime THEN t + WindowMs ELSE MaxTime + 1
      BY LimitAssumption DEF Instants
    <3>2. t \in Instants /\ passed'[k][t] = 0 /\ passed'[k][end] = 0
      BY <2>1, LimitAssumption DEF Instants
    <3>3. PassedFrom(k, t)' = passed'[k][end] - passed'[k][t]
      BY <3>1 DEF PassedFrom
    <3> QED
      BY <3>2, <3>3, LimitAssumption
  <2> QED
    BY <2>1, <2>2, <2>3 DEF Spending, Totals, Telling
<1>4. ASSUME UNCHANGED vars, NEW k \in Clients
      PROVE  Spending(k)' /\ Telling(k)'
  BY <1>0, <1>4, KeyKept DEF vars
<1> QED
  BY <1>0, <1>1, <1>2, <1>3, <1>4 DEF Next, IInv

THEOREM Invariance == Spec => []IInv
BY InvInit, InvNext, PTL DEF Spec

-----------------------------------------------------------------------------
(* The properties. *)

\* A key gets its first MaxRequests requests of a window through and no other, and no
\* stretch as long as a window, wherever it starts, lets more than twice as many through.
THEOREM WindowSpent == Spec => []WindowIsSpentExactly
<1>1. IInv => WindowIsSpentExactly
  <2> SUFFICES ASSUME IInv PROVE WindowIsSpentExactly
    OBVIOUS
  <2>1. ASSUME NEW k \in Clients, entries[k] # None
        PROVE  PassedFrom(k, Opened(k)) = Least(entries[k].count, MaxRequests)
    <3>1. entries[k] \in Entry /\ WindowMs \in Nat /\ now \in 0..MaxTime /\ MaxTime \in Nat
      BY <2>1, LimitAssumption DEF IInv, TypeOK
    <3>2. PICK end \in Instants :
            end = IF entries[k].resetAt <= MaxTime THEN entries[k].resetAt ELSE MaxTime + 1
      BY <3>1 DEF Instants, Entry
    <3>3. Opened(k) + WindowMs = entries[k].resetAt
      BY <3>1 DEF Opened, Entry
    <3>4. PassedFrom(k, Opened(k)) = passed[k][end] - passed[k][Opened(k)]
      BY <3>2, <3>3 DEF PassedFrom
    <3>5. passed[k][end] = passed[k][now + 1]
      <4>1. now \in Nat /\ now < MaxTime + 1
        BY <3>1
      <4>2. CASE entries[k].resetAt <= MaxTime
        <5>1. entries[k].resetAt <= end
          BY <3>1, <3>2, <4>2 DEF Entry
        <5> QED
          BY <2>1, <5>1 DEF IInv, Spending, Window
      <4>3. CASE ~(entries[k].resetAt <= MaxTime)
        BY <3>2, <4>1, <4>3 DEF IInv, Spending, Totals
      <4> QED
        BY <4>2, <4>3
    <3> QED
      BY <2>1, <3>4, <3>5 DEF IInv, Spending, Window
  <2>2. \A k \in Clients, t \in 0..MaxTime : PassedFrom(k, t) <= 2 * MaxRequests
    BY DEF IInv, Spending
  <2> QED
    BY <2>1, <2>2 DEF WindowIsSpentExactly, Opened, Least
<1> QED
  BY <1>1, Invariance, PTL

\* A refused client that waits as long as Retry-After tells it is let through, however the
\* seconds of the header fall on the ticks of the window.
THEOREM WaitingSuffices == Spec => []RetryAfterSuffices
<1>1. IInv => RetryAfterSuffices
  <2> SUFFICES ASSUME IInv, NEW k \in Clients, told[k] # None, told[k] <= now
               PROVE  ~Refuses(Counted(k))
    BY DEF RetryAfterSuffices
  <2>1. /\ entries[k] \in Entry /\ told[k] \in Nat /\ now \in Nat
        /\ entries[k].resetAt <= told[k]
    BY LimitAssumption DEF IInv, TypeOK, Telling
  <2>2. Over(k)
    BY <2>1 DEF Over, Entry
  <2>3. Counted(k).count = 1
    BY <2>2 DEF Counted
  <2> QED
    BY <2>3, LimitAssumption DEF Refuses
<1> QED
  BY <1>1, Invariance, PTL

\* No step moves the end of a window that is running.
THEOREM WindowStays == Spec => WindowIsFixed
<1> DEFINE Fixed == \A k \in Clients :
                      entries[k] # None /\ entries'[k] # None /\ now < entries[k].resetAt
                        => entries'[k].resetAt = entries[k].resetAt
<1>1. TypeOK /\ [Next]_vars => [Fixed]_vars
  <2> SUFFICES ASSUME TypeOK, Next PROVE Fixed
    OBVIOUS
  <2>1. ASSUME NEW l \in Clients, Request(l) PROVE Fixed
    <3> SUFFICES ASSUME NEW k \in Clients, entries[k] # None, now < entries[k].resetAt
                 PROVE  entries'[k].resetAt = entries[k].resetAt
      OBVIOUS
    <3>1. CASE k = l
      <4>1. now \in Nat /\ entries[k].resetAt \in Nat
        BY LimitAssumption DEF TypeOK, Entry
      <4>2. ~Over(k)
        BY <4>1 DEF Over
      <4> QED
        BY <2>1, <3>1, <4>2, CountedFact DEF Request, TypeOK
    <3>2. CASE k # l
      BY <2>1, <3>2 DEF Request, TypeOK
    <3> QED
      BY <3>1, <3>2
  <2>2. CASE Tick
    BY <2>2 DEF Tick
  <2>3. CASE Restart
    BY <2>3 DEF Restart
  <2> QED
    BY <2>1, <2>2, <2>3 DEF Next
<1> QED
  BY <1>1, TypeCorrect, PTL DEF Spec, WindowIsFixed
=============================================================================

----------------------------- MODULE RateLimit -----------------------------
(***************************************************************************)
(* The fixed-window limiter in front of the auth endpoints: one Map from   *)
(* key (ip:path:email or ip:path) to a counter and the end of its window,  *)
(* in the memory of the one API process.                                   *)
(*                                                                         *)
(* Time is counted in ticks, `Second' ticks to a second: Date.now() is in  *)
(* milliseconds and Retry-After in seconds, and the rounding between them  *)
(* is part of what is checked.                                             *)
(***************************************************************************)
EXTENDS Integers

CONSTANTS Clients,     \* the keys
          MaxRequests, \* requests let through in a window
          WindowMs,    \* the length of a window, in ticks
          Second,      \* ticks in a second
          MaxTime,     \* the last tick (bound)
          MaxCount,    \* requests counted in a window (bound)
          None

ASSUME LimitAssumption == /\ MaxRequests \in Nat \ {0} /\ WindowMs \in Nat \ {0}
                          /\ Second \in Nat \ {0} /\ MaxTime \in Nat
                          /\ MaxCount \in Nat /\ MaxRequests < MaxCount

VARIABLES now, entries,
          \* Ghosts.
          passed,      \* how many requests of a key were let through before each tick
          told         \* when the last refused client was told to come back

vars == <<now, entries, passed, told>>

Instants == 0..(MaxTime + 1)
Entry == [count : 1..MaxCount, resetAt : Nat]
ASSUME NoneAssumption == None \notin Entry /\ None \notin Nat

\* Math.ceil(a / b)
CeilDiv(a, b) == (a + b - 1) \div b

\* No entry, or one whose window is over: the request opens a window.
Over(k) == entries[k] = None \/ entries[k].resetAt <= now

\* (CountedFromZero, CountedSliding, RefusesLate and RetryAfterFloor are plausible mistakes
\* that nothing uses: they show what the properties are sensitive to.)
CountedFromZero(k) == IF Over(k) THEN [count |-> 0, resetAt |-> now + WindowMs]
                                 ELSE [entries[k] EXCEPT !.count = @ + 1]
CountedSliding(k) == [count |-> IF Over(k) THEN 1 ELSE entries[k].count + 1,
                      resetAt |-> now + WindowMs]
Counted(k) == IF Over(k) THEN [count |-> 1, resetAt |-> now + WindowMs]
                         ELSE [entries[k] EXCEPT !.count = @ + 1]

RefusesLate(entry) == entry.count > MaxRequests + 1
Refuses(entry) == entry.count > MaxRequests

\* A request let through at this tick, in the running totals.
LetThrough(k) == [t \in Instants |-> IF now < t THEN passed[k][t] + 1 ELSE passed[k][t]]

\* Retry-After, in seconds.
RetryAfterFloor(entry) == (entry.resetAt - now) \div Second
RetryAfter(entry) == CeilDiv(entry.resetAt - now, Second)

\* A request of key k: every request is counted, the refused ones too.
Request(k) ==
  LET entry == Counted(k)
  IN  /\ ~Over(k) => entries[k].count < MaxCount
      /\ entries' = [entries EXCEPT ![k] = entry]
      /\ IF Refuses(entry)
         THEN /\ told' = [told EXCEPT ![k] = now + RetryAfter(entry) * Second]
              /\ UNCHANGED passed
         ELSE /\ passed' = [passed EXCEPT ![k] = LetThrough(k)]
              /\ told' = [told EXCEPT ![k] = None]
      /\ UNCHANGED now

Tick == now < MaxTime /\ now' = now + 1 /\ UNCHANGED <<entries, passed, told>>

\* The process restarts and the Map is empty: what is promised is promised by one process.
Restart == /\ entries' = [k \in Clients |-> None]
           /\ passed' = [k \in Clients |-> [t \in Instants |-> 0]]
           /\ told' = [k \in Clients |-> None]
           /\ UNCHANGED now

Init == /\ now = 0
        /\ entries = [k \in Clients |-> None]
        /\ passed = [k \in Clients |-> [t \in Instants |-> 0]]
        /\ told = [k \in Clients |-> None]

Next == (\E k \in Clients : Request(k)) \/ Tick \/ Restart
Spec == Init /\ [][Next]_vars

-----------------------------------------------------------------------------

TypeOK == /\ now \in 0..MaxTime
          /\ entries \in [Clients -> Entry \cup {None}]
          /\ passed \in [Clients -> [Instants -> Nat]]
          /\ told \in [Clients -> Nat \cup {None}]

\* The requests of k let through in the WindowMs ticks from t on.
PassedFrom(k, t) ==
  LET end == IF t + WindowMs <= MaxTime THEN t + WindowMs ELSE MaxTime + 1
  IN  passed[k][end] - passed[k][t]

\* A key gets its first MaxRequests requests of a window through and no other, whatever
\* the instants at which they come, so that no stretch of WindowMs, which two windows can
\* share, lets more than twice as many through (rate-limit.middleware.ts:26-41).
WindowIsSpentExactly ==
  /\ \A k \in Clients : entries[k] # None =>
       PassedFrom(k, entries[k].resetAt - WindowMs)
         = IF entries[k].count < MaxRequests THEN entries[k].count ELSE MaxRequests
  /\ \A k \in Clients, t \in 0..MaxTime : PassedFrom(k, t) <= 2 * MaxRequests

\* A refused client that waits the seconds of Retry-After is let through
\* (rate-limit.middleware.ts:37).
RetryAfterSuffices ==
  \A k \in Clients : told[k] # None /\ told[k] <= now => ~Refuses(Counted(k))

\* A key whose window is running keeps it: no request moves the end of the window.
WindowIsFixed ==
  [][\A k \in Clients : (entries[k] # None /\ entries'[k] # None /\ now < entries[k].resetAt)
                          => entries'[k].resetAt = entries[k].resetAt]_vars
=============================================================================

------------------------- MODULE ReadingPagesProofs -------------------------
(***************************************************************************)
(* Proofs about ReadingPages: the ring of the banner, the timeline of this *)
(* week, the answers of the explore page, its cards and its pager, the     *)
(* user and the posts of the feed, and the types of them all.              *)
(*                                                                         *)
(* What the pages make of a list of posts - those of it that match, by     *)
(* some order, a page of it - is given by the rank of each post among the  *)
(* others (module Lists), so that the lemmas count posts and need no       *)
(* induction over lists.                                                   *)
(***************************************************************************)
EXTENDS ReadingPages, TLAPS, SequenceTheorems, FiniteSetTheorems

-----------------------------------------------------------------------------
(* The banner. *)

Banners == [slides : (0..MaxBanners) \cup {Off}, index : Nat, paused : BOOLEAN,
            reduced : BOOLEAN, timer : (0..Autoplay) \cup {Off}, ring : Nat]

\* A banner that moves has its timer set, and the ring has run for what the timer has not; one
\* that does not move has none.
Runs(k) == k.slides # Off /\ k.slides > 1 /\ ~k.paused /\ ~k.reduced
InStep(k) == IF Runs(k) THEN k.timer \in 0..Autoplay /\ k.ring + k.timer = Autoplay
             ELSE k.timer = Off

KvInv == kv = Off \/ (kv \in Banners /\ InStep(kv))

LEMMA SlidesFact == Autoplay \in Nat /\ Autoplay > 0 /\ Off \notin Nat /\ Picks \in Nat /\ Picks > 0
BY SlidesAssumption

\* The effect sets the timer of a loaded banner anew; a restarted ring agrees with it.
LEMMA Restarted ==
  ASSUME NEW k \in Banners, k.slides # Off
  PROVE  KvRestart(k) \in Banners /\ InStep(KvRestart(k))
<1>1. PICK n \in 0..MaxBanners : n = k.slides
  BY DEF Banners
<1>2. PICK r : r = [k EXCEPT !.ring = 0]
  OBVIOUS
<1>3. r \in Banners
  BY <1>2, Zenon DEF Banners
<1>4. r.slides = n /\ r.paused = k.paused /\ r.reduced = k.reduced /\ r.ring = 0
  BY <1>1, <1>2 DEF Banners
<1>5. PICK t \in (0..Autoplay) \cup {Off} :
        t = IF n > 1 /\ ~k.paused /\ ~k.reduced THEN Autoplay ELSE Off
  <2>1. Autoplay \in 0..Autoplay
    BY SlidesFact
  <2> QED
    BY <2>1
<1>6. KvRestart(k) = [r EXCEPT !.timer = t]
  BY <1>2, <1>4, <1>5 DEF KvRestart, KvEffect
<1>7. PICK x : x = [r EXCEPT !.timer = t]
  OBVIOUS
<1>8. x \in Banners
  BY <1>3, <1>5, <1>7, Zenon DEF Banners
<1>9. /\ x.slides = n /\ x.paused = k.paused /\ x.reduced = k.reduced /\ x.ring = 0 /\ x.timer = t
  BY <1>3, <1>4, <1>7 DEF Banners
<1>10. n # Off
  BY <1>1
<1>11. InStep(x)
  BY <1>5, <1>9, <1>10, SlidesFact DEF InStep, Runs
<1> QED
  BY <1>6, <1>7, <1>8, <1>11

LEMMA KvMounted == ASSUME KvMount PROVE KvInv'
<1>1. PICK m \in BOOLEAN : kv' = [slides |-> Off, index |-> 0, paused |-> FALSE,
                                  reduced |-> m, timer |-> Off, ring |-> 0]
  BY DEF KvMount
<1>2. kv' \in Banners /\ kv'.slides = Off /\ kv'.timer = Off
  BY <1>1 DEF Banners
<1> QED
  BY <1>2 DEF KvInv, InStep, Runs

LEMMA KvStays == ASSUME KvInv, KvNext PROVE KvInv'
<1>1. kv # Off /\ kv \in Banners /\ InStep(kv)
  BY DEF KvNext, KvFetched, KvTick, KvTimeout, KvPauseToggle, KvMotion, KvSelect, KvRunning,
         KvLoaded, KvInv
<1>2. ASSUME NEW k \in Banners, k.slides # Off, kv' = KvRestart(k) PROVE KvInv'
  BY <1>2, Restarted DEF KvInv
<1>3. ASSUME NEW n \in 0..MaxBanners, KvFetched(n) PROVE KvInv'
  <2>1. PICK k : k = [kv EXCEPT !.slides = n]
    OBVIOUS
  <2>2. k \in Banners
    BY <1>1, <2>1, Zenon DEF Banners
  <2>3. k.slides = n /\ n # Off
    BY <1>1, <2>1, SlidesFact, SlidesAssumption DEF Banners
  <2> QED
    BY <1>2, <1>3, <2>1, <2>2, <2>3 DEF KvFetched
<1>4. CASE KvTick
  <2>1. Runs(kv) /\ kv.timer \in 1..Autoplay /\ kv.ring \in Nat /\ kv.ring + kv.timer = Autoplay
    BY <1>1, <1>4 DEF KvTick, KvRunning, KvLoaded, Runs, InStep, Banners
  <2>2. PICK t \in (0..Autoplay) \cup {Off}, r \in Nat : t = kv.timer - 1 /\ r = kv.ring + 1
    BY <2>1, SlidesFact
  <2>3. kv' = [kv EXCEPT !.timer = t, !.ring = r]
    BY <1>4, <2>2 DEF KvTick
  <2>4. kv' \in Banners
    BY <1>1, <2>3, Zenon DEF Banners
  <2>5. /\ kv'.slides = kv.slides /\ kv'.paused = kv.paused /\ kv'.reduced = kv.reduced
        /\ kv'.timer = t /\ kv'.ring = r
    BY <1>1, <2>3 DEF Banners
  <2>6. t \in 0..Autoplay /\ r + t = Autoplay
    BY <2>1, <2>2, SlidesFact
  <2> QED
    BY <2>1, <2>4, <2>5, <2>6 DEF KvInv, InStep, Runs
<1>5. ASSUME NEW i \in Nat, KvLoaded, kv' = KvRestart([kv EXCEPT !.index = i]) PROVE KvInv'
  <2>1. PICK k : k = [kv EXCEPT !.index = i]
    OBVIOUS
  <2>2. k \in Banners
    BY <1>1, <2>1, Zenon DEF Banners
  <2>3. k.slides = kv.slides
    BY <1>1, <2>1 DEF Banners
  <2> QED
    BY <1>2, <1>5, <2>1, <2>2, <2>3 DEF KvLoaded
<1>6. CASE KvTimeout
  <2>1. kv.slides \in Nat /\ kv.slides > 1 /\ kv.index \in Nat
    BY <1>1, <1>6, SlidesAssumption DEF KvTimeout, KvRunning, KvLoaded, Banners
  <2>2. (kv.index + 1) % kv.slides \in Nat
    BY <2>1
  <2> QED
    BY <1>5, <1>6, <2>2 DEF KvTimeout, KvRunning
<1>7. ASSUME NEW i \in 0..(MaxBanners - 1), KvSelect(i) PROVE KvInv'
  BY <1>5, <1>7, SlidesAssumption DEF KvSelect
<1>8. CASE KvPauseToggle
  <2>1. CASE kv.paused
    <3>1. PICK k : k = [kv EXCEPT !.paused = FALSE]
      OBVIOUS
    <3>2. k \in Banners
      BY <1>1, <3>1, Zenon DEF Banners
    <3>3. k.slides = kv.slides
      BY <1>1, <3>1 DEF Banners
    <3> QED
      BY <1>2, <1>8, <2>1, <3>1, <3>2, <3>3 DEF KvPauseToggle, KvLoaded
  <2>2. CASE ~kv.paused
    <3>1. PICK k : k = [kv EXCEPT !.paused = TRUE]
      OBVIOUS
    <3>2. k \in Banners
      BY <1>1, <3>1, Zenon DEF Banners
    <3>3. k.paused = TRUE
      BY <1>1, <3>1 DEF Banners
    <3>4. kv' = [k EXCEPT !.timer = Off]
      BY <1>8, <2>2, <3>1, <3>3 DEF KvPauseToggle, KvEffect
    <3>5. kv' \in Banners
      BY <3>2, <3>4, Zenon DEF Banners
    <3>6. kv'.paused = TRUE /\ kv'.timer = Off
      BY <3>2, <3>3, <3>4 DEF Banners
    <3> QED
      BY <3>5, <3>6 DEF KvInv, InStep, Runs
  <2> QED
    BY <2>1, <2>2
<1>9. CASE KvMotion
  <2>1. PICK m \in BOOLEAN : m = ~kv.reduced
    OBVIOUS
  <2>2. PICK k : k = [kv EXCEPT !.reduced = m]
    OBVIOUS
  <2>3. k \in Banners
    BY <1>1, <2>2, Zenon DEF Banners
  <2>4. k.slides = kv.slides /\ k.timer = kv.timer
    BY <1>1, <2>2 DEF Banners
  <2>5. CASE KvLoaded
    BY <1>2, <1>9, <2>1, <2>2, <2>3, <2>4, <2>5 DEF KvMotion, KvLoaded
  <2>6. CASE ~KvLoaded
    <3>1. kv' = k
      BY <1>9, <2>1, <2>2, <2>6 DEF KvMotion
    <3>2. kv.slides = Off /\ kv.timer = Off
      BY <1>1, <2>6 DEF KvLoaded, InStep, Runs
    <3> QED
      BY <2>3, <2>4, <3>1, <3>2 DEF KvInv, InStep, Runs
  <2> QED
    BY <2>5, <2>6
<1> QED
  BY <1>3, <1>4, <1>6, <1>7, <1>8, <1>9 DEF KvNext

LEMMA BannerInvariance == FairSpec => []KvInv
<1>1. Init => KvInv
  BY DEF Init, SlidesUnmounted, KvInv
<1>2. KvInv /\ [Next]_readingVars => KvInv'
  <2> SUFFICES ASSUME KvInv, [Next]_readingVars PROVE KvInv'
    OBVIOUS
  <2>1. CASE UNCHANGED kv
    BY <2>1 DEF KvInv, InStep, Runs
  <2>2. CASE kv' = Off
    BY <2>2 DEF KvInv
  <2>3. CASE KvMount
    BY <2>3, KvMounted
  <2>4. CASE KvNext
    BY <2>4, KvStays
  <2>5. ASSUME NEW e, EpBecomes(e) PROVE UNCHANGED kv
    BY <2>5 DEF EpBecomes
  <2>6. EpNext => UNCHANGED kv
    BY <2>5 DEF EpNext, EpTick, EpTimeout, EpHover, EpLeave, EpFocus, EpBlur, EpMotion, EpClick,
                EpKey
  <2> QED
    BY <2>1, <2>2, <2>3, <2>4, <2>6
       DEF Next, OpenExplore, OpenHome, OpenSlides, Leave, SlidesUnmount, EpMount, SlidesNext,
           readingVars, slidesVars
<1> QED
  BY <1>1, <1>2, PTL DEF FairSpec

\* Whatever the buttons, the pauses and the system setting do, for any number of slides and any
\* length of their stay (RingAgreesWithTimer).
THEOREM RingIsInStep == FairSpec => []RingAgreesWithTimer
<1>1. KvInv => RingAgreesWithTimer
  BY DEF KvInv, InStep, Runs, RingAgreesWithTimer, KvRunning, KvLoaded
<1> QED
  BY <1>1, BannerInvariance, PTL

-----------------------------------------------------------------------------
(* Fetches. *)

\* A fetch and its calls.
IsCall(c)  == c = [req |-> c.req, live |-> c.live] /\ c.live \in BOOLEAN
IsFetch(f) == /\ \E g : f = [data |-> g, loading |-> f.loading, error |-> f.error,
                             calls |-> f.calls]
              /\ f.loading \in BOOLEAN /\ f.error \in BOOLEAN /\ \A c \in f.calls : IsCall(c)

LEMMA MountedFetch ==
  ASSUME NEW req, NEW f, f = Mounted(req)
  PROVE  /\ IsFetch(f) /\ f.data = None /\ f.loading = TRUE /\ f.error = FALSE
         /\ \A c \in f.calls : c.live /\ c.req = req
<1>1. PICK cs : cs = {Call(req)}
  OBVIOUS
<1>2. \A c \in cs : c.live /\ c.req = req /\ IsCall(c)
  <2>1. Call(req) = [req |-> req, live |-> TRUE]
    BY DEF Call
  <2>2. Call(req).req = req /\ Call(req).live = TRUE
    BY <2>1
  <2> QED
    BY <1>1, <2>1, <2>2 DEF IsCall
<1>3. f = [data |-> None, loading |-> TRUE, error |-> FALSE, calls |-> cs]
  BY <1>1 DEF Mounted
<1>4. f.data = None /\ f.loading = TRUE /\ f.error = FALSE /\ f.calls = cs
  BY <1>3
<1>5. f = [data |-> None, loading |-> f.loading, error |-> f.error, calls |-> f.calls]
  BY <1>3, <1>4
<1>6. IsFetch(f)
  BY <1>2, <1>4, <1>5 DEF IsFetch
<1> QED
  BY <1>2, <1>4, <1>6

LEMMA WaitingFetch ==
  ASSUME NEW f, IsFetch(f), NEW x, x = Waiting(f)
  PROVE  IsFetch(x) /\ x.data = f.data /\ x.loading = TRUE /\ x.error = FALSE /\ x.calls = f.calls
BY DEF IsFetch, Waiting

\* The calls given up are heard no more.
LEMMA CancelledCalls ==
  ASSUME NEW f, IsFetch(f)
  PROVE  \A c \in Cancelled(f) : IsCall(c) /\ ~c.live
<1>1. ASSUME NEW c \in f.calls
      PROVE  IsCall([c EXCEPT !.live = FALSE]) /\ ~[c EXCEPT !.live = FALSE].live
  <2>1. c = [req |-> c.req, live |-> c.live]
    BY DEF IsFetch, IsCall
  <2>2. PICK x : x = [c EXCEPT !.live = FALSE]
    OBVIOUS
  <2>3. x = [req |-> c.req, live |-> FALSE]
    BY <2>1, <2>2
  <2>4. x.req = c.req /\ x.live = FALSE
    BY <2>3
  <2> QED
    BY <2>2, <2>3, <2>4 DEF IsCall
<1> QED
  BY <1>1 DEF Cancelled

LEMMA RefetchedFetch ==
  ASSUME NEW req, NEW f, IsFetch(f), NEW x, x = Refetched(f, req)
  PROVE  /\ IsFetch(x) /\ x.data = f.data /\ x.loading = f.loading /\ x.error = f.error
         /\ \A c \in x.calls : c.live => c.req = req
<1>1. IsCall(Call(req)) /\ Call(req).req = req
  <2>1. Call(req) = [req |-> req, live |-> TRUE]
    BY DEF Call
  <2>2. Call(req).req = req /\ Call(req).live = TRUE
    BY <2>1
  <2> QED
    BY <2>1, <2>2 DEF IsCall
<1>2. PICK cs : cs = Cancelled(f) \cup {Call(req)}
  OBVIOUS
<1>3. \A c \in cs : IsCall(c) /\ (c.live => c.req = req)
  BY <1>1, <1>2, CancelledCalls
<1>4. x = [f EXCEPT !.calls = cs]
  BY <1>2 DEF Refetched
<1> QED
  BY <1>3, <1>4 DEF IsFetch

\* An answer is taken, and counts only when it is heard.
AnswerOf(x, f, c, data) ==
  /\ x.calls = f.calls \ {c} /\ x.error = f.error
  /\ x.data = IF c.live THEN data ELSE f.data
  /\ x.loading = IF c.live THEN FALSE ELSE f.loading
FailureOf(x, f, c) ==
  /\ x.calls = f.calls \ {c} /\ x.data = f.data
  /\ x.error = IF c.live THEN TRUE ELSE f.error
  /\ x.loading = IF c.live THEN FALSE ELSE f.loading

LEMMA AnsweredFetch ==
  ASSUME NEW f, IsFetch(f), NEW c, NEW data, NEW x, x = Answered(f, c, data)
  PROVE  IsFetch(x) /\ AnswerOf(x, f, c, data)
<1>1. x = IF c.live THEN [f EXCEPT !.calls = f.calls \ {c}, !.data = data, !.loading = FALSE]
          ELSE [f EXCEPT !.calls = f.calls \ {c}]
  BY DEF Answered, Taken, Heard
<1>2. CASE c.live
  BY <1>1, <1>2 DEF IsFetch, AnswerOf
<1>3. CASE ~c.live
  BY <1>1, <1>3 DEF IsFetch, AnswerOf
<1> QED
  BY <1>2, <1>3

LEMMA FailedFetch ==
  ASSUME NEW f, IsFetch(f), NEW c, NEW x, x = Failed(f, c)
  PROVE  IsFetch(x) /\ FailureOf(x, f, c)
<1>1. x = IF c.live THEN [f EXCEPT !.calls = f.calls \ {c}, !.error = TRUE, !.loading = FALSE]
          ELSE [f EXCEPT !.calls = f.calls \ {c}]
  BY DEF Failed, Taken, Heard
<1>2. CASE c.live
  BY <1>1, <1>2 DEF IsFetch, FailureOf
<1>3. CASE ~c.live
  BY <1>1, <1>3 DEF IsFetch, FailureOf
<1> QED
  BY <1>2, <1>3

-----------------------------------------------------------------------------
(* This week. *)

\* Once the section has its answer, no call of the timeline's own is heard any more.
Seeded == (week # None /\ line # None /\ ~week.loading) => \A c \in line.calls : ~c.live
WeekTyped == /\ week = None \/ IsFetch(week)
             /\ line = None \/ IsFetch(line)
WeekInv == WeekTyped /\ Seeded

\* A step of the section keeps both, and cannot bring an error to a seeded timeline.
NoErrorComes ==
  week # None /\ line # None /\ line' # None /\ ~week.loading /\ ~line.error => ~line'.error

LEMMA WeekAnswer ==
  ASSUME WeekInv, week # None, NEW c \in week.calls, WeekAnswered(c)
  PROVE  WeekInv' /\ NoErrorComes
<1>1. IsFetch(week)
  BY DEF WeekInv, WeekTyped
<1>2. CASE /\ \E table \in HomeTables : week' = Answered(week, c, table)
           /\ line' = IF line = None THEN None ELSE [line EXCEPT !.calls = Cancelled(line)]
  <2>1. IsFetch(week')
    <3>1. PICK table : week' = Answered(week, c, table)
      BY <1>2
    <3> QED
      BY <1>1, <3>1, AnsweredFetch
  <2>2. CASE line = None
    BY <1>2, <2>1, <2>2 DEF WeekInv, WeekTyped, Seeded, NoErrorComes
  <2>3. CASE line # None
    <3>1. IsFetch(line)
      BY <2>3 DEF WeekInv, WeekTyped
    <3>2. PICK cs : cs = Cancelled(line)
      OBVIOUS
    <3>3. \A d \in cs : IsCall(d) /\ ~d.live
      BY <3>1, <3>2, CancelledCalls
    <3>4. line' = [line EXCEPT !.calls = cs]
      BY <1>2, <2>3, <3>2
    <3>5. IsFetch(line') /\ line'.calls = cs /\ line'.error = line.error
      BY <3>1, <3>3, <3>4 DEF IsFetch
    <3> QED
      BY <2>1, <3>3, <3>5 DEF WeekInv, WeekTyped, Seeded, NoErrorComes
  <2> QED
    BY <2>2, <2>3
<1>3. CASE week' = Failed(week, c) /\ line' = None
  <2>1. IsFetch(week')
    BY <1>1, <1>3, FailedFetch
  <2> QED
    BY <1>3, <2>1 DEF WeekInv, WeekTyped, Seeded, NoErrorComes
<1> QED
  BY <1>2, <1>3 DEF WeekAnswered

LEMMA LineAnswer ==
  ASSUME WeekInv, line # None, NEW c \in line.calls, LineAnswered(c)
  PROVE  WeekInv' /\ NoErrorComes
<1>1. IsFetch(line) /\ week' = week
  BY DEF WeekInv, WeekTyped, LineAnswered
<1>2. /\ IsFetch(line') /\ line'.calls = line.calls \ {c}
      /\ ~c.live => line'.error = line.error
  <2>1. PICK f, x : f = line /\ x = line'
    OBVIOUS
  <2>2. IsFetch(f)
    BY <1>1, <2>1
  <2>3. CASE \E table : x = Answered(f, c, table)
    <3>1. PICK table : IsFetch(x) /\ AnswerOf(x, f, c, table)
      BY <2>2, <2>3, AnsweredFetch
    <3> QED
      BY <2>1, <3>1 DEF AnswerOf
  <2>4. CASE x = Failed(f, c)
    <3>1. IsFetch(x) /\ FailureOf(x, f, c)
      BY <2>2, <2>4, FailedFetch
    <3> QED
      BY <2>1, <3>1 DEF FailureOf
  <2> QED
    BY <2>1, <2>3, <2>4 DEF LineAnswered
<1>3. week # None /\ ~week.loading => ~c.live
  BY DEF WeekInv, Seeded
<1> QED
  BY <1>1, <1>2, <1>3 DEF WeekInv, WeekTyped, Seeded, NoErrorComes

LEMMA WeekRetried ==
  ASSUME WeekInv, WeekRetry
  PROVE  WeekInv' /\ NoErrorComes
<1>1. PICK w : w = Waiting(week)
  OBVIOUS
<1>2. IsFetch(w) /\ w.loading = TRUE
  BY <1>1, WaitingFetch DEF WeekInv, WeekTyped, WeekRetry
<1>3. IsFetch(week') /\ week'.loading = TRUE
  BY <1>1, <1>2, RefetchedFetch DEF WeekRetry
<1>4. IsFetch(line') /\ line'.error = FALSE
  BY MountedFetch DEF WeekRetry
<1> QED
  BY <1>3, <1>4 DEF WeekInv, WeekTyped, Seeded, NoErrorComes

LEMMA LineRetried ==
  ASSUME WeekInv, LineRetry
  PROVE  WeekInv' /\ NoErrorComes
<1>1. PICK w : w = Waiting(line)
  OBVIOUS
<1>2. IsFetch(w) /\ w.calls = line.calls
  BY <1>1, WaitingFetch DEF WeekInv, WeekTyped, LineRetry
<1>3. week' = week /\ line # None /\ line.error
  BY DEF LineRetry
<1>4. CASE week.loading
  <2>1. IsFetch(line')
    BY <1>1, <1>2, <1>4, RefetchedFetch DEF LineRetry
  <2> QED
    BY <1>3, <1>4, <2>1 DEF WeekInv, WeekTyped, Seeded, NoErrorComes
<1>5. CASE ~week.loading
  <2>1. line' = w
    BY <1>1, <1>5 DEF LineRetry
  <2> QED
    BY <1>2, <1>3, <1>5, <2>1 DEF WeekInv, WeekTyped, Seeded, NoErrorComes
<1> QED
  BY <1>4, <1>5

\* What a step of any page does to the two fetches.
LEMMA WeekSteps ==
  ASSUME WeekInv, [Next]_readingVars
  PROVE  WeekInv' /\ [NoErrorComes]_homeVars
<1>1. CASE UNCHANGED <<week, line>>
  BY <1>1 DEF WeekInv, WeekTyped, Seeded, IsFetch, NoErrorComes
<1>2. CASE WeekMount /\ line = None
  <2>1. IsFetch(week') /\ week'.loading = TRUE /\ IsFetch(line')
    BY <1>2, MountedFetch DEF WeekMount
  <2> QED
    BY <1>2, <2>1 DEF WeekInv, WeekTyped, Seeded, NoErrorComes
<1>3. CASE week' = None /\ line' = None
  BY <1>3 DEF WeekInv, WeekTyped, Seeded, NoErrorComes
<1>4. CASE WeekNext
  BY <1>4, WeekAnswer, LineAnswer, WeekRetried, LineRetried DEF WeekNext
<1>5. FeedNext => UNCHANGED <<week, line>>
  BY DEF FeedNext, AuthKnown, AuthChanges, PoolAnswered, BookmarksAnswered
<1> QED
  BY <1>1, <1>2, <1>3, <1>4, <1>5
     DEF Next, OpenExplore, OpenHome, OpenSlides, Leave, HomeUnmount, HomeUnmounted, Elsewhere,
         FeedMount, HomeNext, readingVars, homeVars

\* Whatever answers, errors and retries come in whatever order (SeededTimelineStays).
THEOREM SeededTimelineKeepsItsPosts == FairSpec => SeededTimelineStays
<1>1. Init => WeekInv
  BY DEF Init, HomeUnmounted, WeekInv, WeekTyped, Seeded
<1>2. WeekInv /\ [Next]_readingVars => WeekInv'
  BY WeekSteps
<1>3. WeekInv /\ [Next]_readingVars =>
        [week # None /\ line # None /\ line' # None /\ ~week.loading /\ ~line.error
           => ~line'.error]_homeVars
  BY WeekSteps DEF NoErrorComes
<1> QED
  BY <1>1, <1>2, <1>3, PTL DEF FairSpec, SeededTimelineStays

-----------------------------------------------------------------------------
(* The explore page. *)

\* A call that is heard is for the filters as they are, and what was answered last is what they
\* ask for, unless the page is waiting or failed.
ListAsked == \A c \in list.calls : c.live => c.req = Request(filters)
ListGiven == ~list.loading /\ ~list.error /\ list.data # None => list.data = Request(filters)
ListInv == list = None \/ (IsFetch(list) /\ ListAsked /\ ListGiven)

\* The request depends on the URL and the filters only.
LEMMA FiltersChanged ==
  ASSUME ListInv, list # None, NEW new, FiltersChange(new)
  PROVE  ListInv'
<1>1. PICK w : w = Waiting(list)
  OBVIOUS
<1>2. IsFetch(w) /\ w.loading = TRUE /\ w.calls = list.calls
  BY <1>1, WaitingFetch DEF ListInv
<1>3. PICK r : r = Request(new)
  OBVIOUS
<1>4. filters' = new /\ url' = url
  BY DEF FiltersChange
<1>5. Request(filters)' = r
  BY <1>3, <1>4 DEF Request
<1>6. CASE Request(new) = Request(filters)
  <2>1. list' = w
    BY <1>1, <1>6 DEF FiltersChange
  <2> QED
    BY <1>2, <1>3, <1>5, <1>6, <2>1 DEF ListInv, ListAsked, ListGiven
<1>7. CASE Request(new) # Request(filters)
  <2>1. PICK x : x = Refetched(w, r)
    OBVIOUS
  <2>2. IsFetch(x) /\ x.loading = TRUE /\ \A c \in x.calls : c.live => c.req = r
    BY <1>2, <2>1, RefetchedFetch
  <2>3. list' = x
    BY <1>1, <1>3, <1>7, <2>1 DEF FiltersChange
  <2> QED
    BY <1>5, <2>2, <2>3 DEF ListInv, ListAsked, ListGiven
<1> QED
  BY <1>6, <1>7

LEMMA PageChanged ==
  ASSUME ListInv, list # None, NEW p, PageChange(p)
  PROVE  ListInv'
<1>1. /\ filters' = [filters EXCEPT !.page = p] /\ url' = url
      /\ IF ByClient(filters) THEN list' = list
         ELSE list' = Refetched(Waiting(list), Request(filters'))
  BY DEF PageChange
<1>2. CASE ByClient(filters)
  <2>1. /\ filters'.srv = filters.srv /\ filters'.order = filters.order
        /\ filters'.day = filters.day /\ filters'.tags = filters.tags
    BY <1>1
  <2>2. Request(filters)' = Request(filters)
    BY <1>1, <1>2, <2>1 DEF Request, ByClient
  <2> QED
    BY <1>1, <1>2, <2>2 DEF ListInv, ListAsked, ListGiven
<1>3. CASE ~ByClient(filters)
  <2>1. PICK w : w = Waiting(list)
    OBVIOUS
  <2>2. IsFetch(w) /\ w.loading = TRUE
    BY <2>1, WaitingFetch DEF ListInv
  <2>3. PICK r : r = Request(filters') /\ r = Request(filters)'
    BY <1>1 DEF Request
  <2>4. PICK x : x = Refetched(w, r)
    OBVIOUS
  <2>5. IsFetch(x) /\ x.loading = TRUE /\ \A c \in x.calls : c.live => c.req = r
    BY <2>2, <2>4, RefetchedFetch
  <2>6. list' = x
    BY <1>1, <1>3, <2>1, <2>3, <2>4
  <2> QED
    BY <2>3, <2>5, <2>6 DEF ListInv, ListAsked, ListGiven
<1> QED
  BY <1>2, <1>3

LEMMA ListRetried == ASSUME ListInv, Retry PROVE ListInv'
<1>1. PICK w : w = Waiting(list)
  OBVIOUS
<1>2. IsFetch(w) /\ w.loading = TRUE
  BY <1>1, WaitingFetch DEF ListInv, Retry
<1>3. PICK r : r = Request(filters) /\ r = Request(filters)'
  BY DEF Retry, Request
<1>4. PICK x : x = Refetched(w, r)
  OBVIOUS
<1>5. IsFetch(x) /\ x.loading = TRUE /\ \A c \in x.calls : c.live => c.req = r
  BY <1>2, <1>4, RefetchedFetch
<1>6. list' = x
  BY <1>1, <1>3, <1>4 DEF Retry
<1> QED
  BY <1>3, <1>5, <1>6 DEF ListInv, ListAsked, ListGiven

LEMMA ListAnswer == ASSUME ListInv, NEW c \in list.calls, ListAnswered(c) PROVE ListInv'
<1>1. PICK f, x : f = list /\ x = list'
  OBVIOUS
<1>2. IsFetch(f) /\ c \in f.calls
  BY <1>1 DEF ListInv, ListAnswered
<1>3. PICK r : r = Request(filters) /\ r = Request(filters)'
  BY DEF ListAnswered, Request
<1>4. /\ \A d \in f.calls : d.live => d.req = r
      /\ ~f.loading /\ ~f.error /\ f.data # None => f.data = r
  BY <1>1, <1>3 DEF ListInv, ListAnswered, ListAsked, ListGiven
<1>5. CASE x = Answered(f, c, c.req)
  <2>1. IsFetch(x) /\ AnswerOf(x, f, c, c.req)
    BY <1>2, <1>5, AnsweredFetch
  <2> QED
    BY <1>1, <1>2, <1>3, <1>4, <2>1 DEF AnswerOf, ListInv, ListAsked, ListGiven
<1>6. CASE x = Failed(f, c)
  <2>1. IsFetch(x) /\ FailureOf(x, f, c)
    BY <1>2, <1>6, FailedFetch
  <2> QED
    BY <1>1, <1>2, <1>3, <1>4, <2>1 DEF FailureOf, ListInv, ListAsked, ListGiven
<1> QED
  BY <1>1, <1>5, <1>6 DEF ListAnswered

LEMMA ListMounted == ASSUME NEW s, ExploreMount(s) PROVE ListInv'
<1>1. PICK r : r = [srv |-> None, status |-> s, order |-> None, page |-> 1, limit |-> PageSize]
  OBVIOUS
<1>2. list' = Mounted(r) /\ url' = s /\ filters' = NoFilters(s)
  BY <1>1 DEF ExploreMount
<1>3. Request(filters)' = r
  BY <1>1, <1>2 DEF Request, ByClient, NoFilters
<1>4. PICK x : x = Mounted(r)
  OBVIOUS
<1>5. IsFetch(x) /\ x.loading = TRUE /\ \A c \in x.calls : c.req = r
  BY <1>4, MountedFetch
<1> QED
  BY <1>2, <1>3, <1>4, <1>5 DEF ListInv, ListAsked, ListGiven

LEMMA ListInvariance == FairSpec => []ListInv
<1>1. Init => ListInv
  BY DEF Init, ExploreUnmounted, ListInv
<1>2. ListInv /\ [Next]_readingVars => ListInv'
  <2> SUFFICES ASSUME ListInv, [Next]_readingVars PROVE ListInv'
    OBVIOUS
  <2>1. CASE UNCHANGED exploreVars
    BY <2>1 DEF exploreVars, ListInv, ListAsked, ListGiven, Request
  <2>2. CASE ExploreUnmount
    BY <2>2 DEF ExploreUnmount, ListInv
  <2>3. ASSUME NEW s, ExploreMount(s) PROVE ListInv'
    BY <2>3, ListMounted
  <2>4. ASSUME NEW new, FiltersChange(new) PROVE ListInv'
    BY <2>4, FiltersChanged DEF FiltersChange
  <2>5. CASE ExploreNext
    <3>1. ASSUME NEW p, PageChange(p) PROVE ListInv'
      BY <3>1, PageChanged DEF PageChange, Showing
    <3>2. ASSUME NEW c \in list.calls, ListAnswered(c) PROVE ListInv'
      BY <3>2, ListAnswer
    <3>3. CASE Retry
      BY <3>3, ListRetried
    <3> QED
      BY <2>3, <2>4, <2>5, <3>1, <3>2, <3>3
         DEF ExploreNext, CommitFilter, ChooseOrder, ChooseStatus, ChooseDay, ToggleTag,
             ResetFilters, Visit, Arrive
  <2> QED
    BY <2>1, <2>2, <2>3, <2>5
       DEF Next, OpenExplore, OpenHome, OpenSlides, Leave, readingVars, exploreVars
<1> QED
  BY <1>1, <1>2, PTL DEF FairSpec

\* However filters, pages, retries and answers interleave, and whatever the table holds
\* (ShowsWhatWasAsked).
THEOREM AnswersFitTheFilters == FairSpec => []ShowsWhatWasAsked
<1>1. ListInv => ShowsWhatWasAsked
  BY DEF ListInv, ListGiven, ShowsWhatWasAsked, Showing
<1> QED
  BY <1>1, ListInvariance, PTL

-----------------------------------------------------------------------------
(* Lists made of lists. *)

\* `ahead' puts the positions of K in a strict order, each after a subset of the others.
IsOrder(K, ahead) ==
  /\ ahead \in [K -> SUBSET K]
  /\ \A p \in K : p \notin ahead[p]
  /\ \A p, q \in K : p # q => q \in ahead[p] \/ p \in ahead[q]
  /\ \A p, q \in K : q \in ahead[p] => ahead[q] \subseteq ahead[p]

\* More are ahead of a later position.
LEMMA MoreAhead ==
  ASSUME NEW K, IsFiniteSet(K), NEW ahead, IsOrder(K, ahead)
  PROVE  /\ \A p \in K : /\ Cardinality(ahead[p]) \in Nat
                         /\ Cardinality(ahead[p]) < Cardinality(K)
         /\ \A p, q \in K : q \in ahead[p] => Cardinality(ahead[q]) < Cardinality(ahead[p])
<1>1. ASSUME NEW S, IsFiniteSet(S), NEW T \in SUBSET S, NEW x \in S, x \notin T
      PROVE  IsFiniteSet(T) /\ Cardinality(T) \in Nat /\ Cardinality(T) < Cardinality(S)
  <2>1. IsFiniteSet(T) /\ Cardinality(T) <= Cardinality(S) /\ Cardinality(T) # Cardinality(S)
    BY <1>1, FS_Subset
  <2>2. Cardinality(T) \in Nat /\ Cardinality(S) \in Nat
    BY <1>1, <2>1, FS_CardinalityType
  <2> QED
    BY <2>1, <2>2
<1>2. ASSUME NEW p \in K
      PROVE  /\ IsFiniteSet(ahead[p]) /\ Cardinality(ahead[p]) \in Nat
             /\ Cardinality(ahead[p]) < Cardinality(K)
  <2>1. ahead[p] \in SUBSET K /\ p \notin ahead[p]
    BY DEF IsOrder
  <2> QED
    BY <1>1, <2>1
<1>3. ASSUME NEW p \in K, NEW q \in K, q \in ahead[p]
      PROVE  Cardinality(ahead[q]) < Cardinality(ahead[p])
  <2>1. ahead[q] \in SUBSET ahead[p] /\ q \notin ahead[q]
    BY <1>3 DEF IsOrder
  <2> QED
    BY <1>1, <1>2, <1>3, <2>1
<1> QED
  BY <1>2, <1>3

\* For each place there is one position with that many before it.
LEMMA PlacesTaken ==
  ASSUME NEW K, IsFiniteSet(K), NEW ahead, IsOrder(K, ahead)
  PROVE  /\ Cardinality(K) \in Nat
         /\ \A p, q \in K : Cardinality(ahead[p]) = Cardinality(ahead[q]) => p = q
         /\ \A i \in 1..Cardinality(K) : \E p \in K : Cardinality(ahead[p]) = i - 1
<1>1. PICK n \in Nat : n = Cardinality(K)
  BY FS_CardinalityType
<1>2. PICK r : r = [p \in K |-> Cardinality(ahead[p]) + 1]
  OBVIOUS
<1>3. \A p \in K : r[p] = Cardinality(ahead[p]) + 1 /\ r[p] \in 1..n
  BY <1>1, <1>2, MoreAhead
<1>4. ASSUME NEW p \in K, NEW q \in K, Cardinality(ahead[p]) = Cardinality(ahead[q]) PROVE p = q
  <2>1. q \notin ahead[p] /\ p \notin ahead[q]
    BY <1>4, MoreAhead
  <2> QED
    BY <2>1 DEF IsOrder
<1>5. r \in [K -> 1..n]
  BY <1>2, <1>3
<1>6. ASSUME NEW p \in K, NEW q \in K, r[p] = r[q] PROVE p = q
  <2>1. Cardinality(ahead[p]) \in Nat /\ Cardinality(ahead[q]) \in Nat
    BY MoreAhead
  <2>2. Cardinality(ahead[p]) = Cardinality(ahead[q])
    BY <1>3, <1>6, <2>1
  <2> QED
    BY <1>4, <2>2
<1>7. r \in Injection(K, 1..n)
  BY <1>5, <1>6 DEF Injection, IsInjective
<1>8. IsFiniteSet(1..n) /\ Cardinality(1..n) = n
  BY FS_Interval
<1>9. r \in Surjection(K, 1..n)
  BY <1>1, <1>7, <1>8, FS_Injection
<1>10. ASSUME NEW i \in 1..n PROVE \E p \in K : Cardinality(ahead[p]) = i - 1
  <2>1. PICK p \in K : r[p] = i
    BY <1>9 DEF Surjection
  <2>2. Cardinality(ahead[p]) \in Nat
    BY MoreAhead
  <2> QED
    BY <1>3, <2>1, <2>2
<1> QED
  BY <1>1, <1>4, <1>10

\* A list made of s: `at' says from which position each of its elements comes.
ComesFrom(l, s, K, ahead, at) ==
  /\ at \in [1..Cardinality(K) -> K]
  /\ l = [i \in 1..Cardinality(K) |-> s[at[i]]]
  /\ \A i \in 1..Cardinality(K) : Cardinality(ahead[at[i]]) = i - 1
  /\ \A p \in K : \E i \in 1..Cardinality(K) : at[i] = p
  /\ \A i, j \in 1..Cardinality(K) : i < j <=> at[i] \in ahead[at[j]]

LEMMA ArrangedComes ==
  ASSUME NEW K, IsFiniteSet(K), NEW ahead, IsOrder(K, ahead), NEW s, NEW l, l = Arranged(s, ahead)
  PROVE  \E at : ComesFrom(l, s, K, ahead, at)
<1>1. PICK n \in Nat : n = Cardinality(K)
  BY PlacesTaken
<1>2. DOMAIN ahead = K
  BY DEF IsOrder
<1>3. PICK at : at = [i \in 1..n |-> CHOOSE p \in K : Cardinality(ahead[p]) = i - 1]
  OBVIOUS
<1>4. ASSUME NEW i \in 1..n
      PROVE  at[i] \in K /\ Cardinality(ahead[at[i]]) = i - 1
  <2>1. \E p \in K : Cardinality(ahead[p]) = i - 1
    BY <1>1, PlacesTaken
  <2>2. at[i] = CHOOSE p \in K : Cardinality(ahead[p]) = i - 1
    BY <1>3
  <2> QED
    BY <2>1, <2>2
<1>5. at \in [1..n -> K]
  BY <1>3, <1>4
<1>6. l = [i \in 1..n |-> s[at[i]]]
  <2>1. l = [i \in 1..n |-> s[CHOOSE p \in K : Cardinality(ahead[p]) = i - 1]]
    BY <1>1, <1>2 DEF Arranged
  <2>2. \A i \in 1..n : at[i] = CHOOSE p \in K : Cardinality(ahead[p]) = i - 1
    BY <1>3
  <2> QED
    BY <2>1, <2>2
<1>7. ASSUME NEW p \in K PROVE \E i \in 1..n : at[i] = p
  <2>1. PICK i \in 1..n : i = Cardinality(ahead[p]) + 1
    BY <1>1, MoreAhead
  <2>2. Cardinality(ahead[at[i]]) = Cardinality(ahead[p])
    BY <1>4, <2>1, MoreAhead
  <2>3. at[i] = p
    BY <1>4, <2>2, PlacesTaken
  <2> QED
    BY <2>3
<1>8. ASSUME NEW i \in 1..n, NEW j \in 1..n PROVE i < j <=> at[i] \in ahead[at[j]]
  <2>1. CASE at[i] \in ahead[at[j]]
    BY <1>4, <2>1, MoreAhead
  <2>2. CASE at[j] \in ahead[at[i]]
    <3>1. Cardinality(ahead[at[j]]) < Cardinality(ahead[at[i]])
      BY <1>4, <2>2, MoreAhead
    <3>2. ~(i < j)
      BY <1>4, <3>1
    <3>3. at[i] \notin ahead[at[j]]
      BY <1>4, <3>1, MoreAhead
    <3> QED
      BY <3>2, <3>3
  <2>3. CASE at[i] = at[j]
    <3>1. i = j
      BY <1>4, <2>3
    <3> QED
      BY <1>4, <2>3, <3>1 DEF IsOrder
  <2> QED
    BY <1>4, <2>1, <2>2, <2>3 DEF IsOrder
<1>9. ComesFrom(l, s, K, ahead, at)
  BY <1>1, <1>4, <1>5, <1>6, <1>7, <1>8, Zenon DEF ComesFrom
<1> QED
  BY <1>9

\* The order of the positions themselves.
Earlier(K) == [p \in K |-> {q \in K : q < p}]

LEMMA EarlierIsOrder == ASSUME NEW K \in SUBSET Int PROVE IsOrder(K, Earlier(K))
<1>1. PICK e : e = Earlier(K)
  OBVIOUS
<1>2. e \in [K -> SUBSET K] /\ \A p \in K : e[p] = {q \in K : q < p}
  BY <1>1 DEF Earlier
<1>3. \A p, q \in K : q \in e[p] <=> q < p
  BY <1>2
<1>4. ASSUME NEW p \in K, NEW q \in K, q \in e[p] PROVE e[q] \subseteq e[p]
  <2>1. ASSUME NEW r \in e[q] PROVE r \in e[p]
    <3>1. r \in K /\ r < q /\ q < p
      BY <1>2, <1>4, <2>1
    <3> QED
      BY <1>3, <3>1
  <2> QED
    BY <2>1
<1>5. IsOrder(K, e)
  BY <1>2, <1>3, <1>4 DEF IsOrder
<1> QED
  BY <1>1, <1>5

LEMMA KeptComes ==
  ASSUME NEW K \in SUBSET Int, IsFiniteSet(K), NEW s, NEW l, l = Kept(s, K)
  PROVE  \E at : ComesFrom(l, s, K, Earlier(K), at)
<1>1. l = Arranged(s, Earlier(K))
  BY DEF Kept, Earlier
<1> QED
  BY <1>1, ArrangedComes, EarlierIsOrder

LEMMA EarlierComes ==
  ASSUME NEW K \in SUBSET Int, NEW s, NEW l, NEW at, ComesFrom(l, s, K, Earlier(K), at)
  PROVE  \A i, j \in 1..Cardinality(K) : i < j <=> at[i] < at[j]
BY DEF ComesFrom, Earlier

\* Elements of S at the positions of K.
Within(s, K, S) == \A p \in K : s[p] \in S

\* What is made of such a list is one.
LEMMA ComesInSeq ==
  ASSUME NEW K, Cardinality(K) \in Nat, NEW ahead, NEW s, NEW l, NEW at,
         ComesFrom(l, s, K, ahead, at), NEW S, Within(s, K, S)
  PROVE  l \in Seq(S) /\ Len(l) = Cardinality(K) /\ DOMAIN l = 1..Len(l)
<1>1. PICK n \in Nat : n = Cardinality(K)
  OBVIOUS
<1>2. l \in [1..n -> S]
  BY <1>1 DEF ComesFrom, Within
<1>3. l \in Seq(S)
  BY <1>2, SeqDef
<1>4. Len(l) \in Nat /\ DOMAIN l = 1..Len(l)
  BY <1>3, LenProperties
<1>5. Len(l) = n
  BY <1>2, <1>4
<1> QED
  BY <1>1, <1>3, <1>4, <1>5

\* Positions moved one to one are as many.
OneToOne(at, A, B) ==
  /\ \A i \in A : at[i] \in B
  /\ \A p \in B : \E i \in A : at[i] = p
  /\ \A i, j \in A : at[i] = at[j] => i = j

LEMMA AsMany ==
  ASSUME NEW at, NEW A, IsFiniteSet(A), NEW B, OneToOne(at, A, B)
  PROVE  Cardinality(B) = Cardinality(A)
<1>1. PICK f : f = [i \in A |-> at[i]]
  OBVIOUS
<1>2. f \in Injection(A, B) /\ f \in Surjection(A, B)
  BY <1>1 DEF OneToOne, Injection, Surjection, IsInjective
<1>3. ExistsBijection(A, B)
  BY <1>2 DEF ExistsBijection, Bijection
<1> QED
  BY <1>3, FS_Bijection

\* A filter of what a filter kept keeps what is in both.
ThoseIn(H, s, K, M) == H = {p \in K : s[p] \in M}
Positions(K, n) == K \subseteq 1..n

LEMMA KeptTwice ==
  ASSUME NEW n \in Nat, NEW K, Positions(K, n), NEW s, NEW l, l = Kept(s, K), NEW M,
         NEW H, ThoseIn(H, s, K, M), NEW J, ThoseIn(J, l, DOMAIN l, M)
  PROVE  Kept(l, J) = Kept(s, H)
<1>0. /\ H = {p \in K : s[p] \in M} /\ J = {i \in DOMAIN l : l[i] \in M}
      /\ K \in SUBSET (1..n)
  BY DEF ThoseIn, Positions
<1>1. /\ K \in SUBSET Int /\ H \in SUBSET Int /\ H \in SUBSET K
      /\ IsFiniteSet(K) /\ IsFiniteSet(H)
  <2>1. IsFiniteSet(1..n)
    BY FS_Interval
  <2>2. IsFiniteSet(K)
    BY <1>0, <2>1, FS_Subset
  <2>3. H \in SUBSET K
    BY <1>0
  <2>4. IsFiniteSet(H)
    BY <2>2, <2>3, FS_Subset
  <2>5. 1..n \subseteq Int
    OBVIOUS
  <2> QED
    BY <1>0, <2>2, <2>3, <2>4, <2>5
<1>2. PICK k \in Nat : k = Cardinality(K)
  BY <1>1, FS_CardinalityType
<1>3. PICK at : ComesFrom(l, s, K, Earlier(K), at)
  BY <1>1, KeptComes
<1>4. /\ DOMAIN l = 1..k /\ at \in [1..k -> K] /\ \A i \in 1..k : l[i] = s[at[i]]
      /\ \A p \in K : \E i \in 1..k : at[i] = p
  BY <1>2, <1>3 DEF ComesFrom
<1>5. \A i, j \in 1..k : i < j <=> at[i] < at[j]
  BY <1>1, <1>2, <1>3, EarlierComes
<1>6. \A i, j \in 1..k : at[i] = at[j] => i = j
  <2> SUFFICES ASSUME NEW i \in 1..k, NEW j \in 1..k, at[i] = at[j] PROVE i = j
    OBVIOUS
  <2>1. at[i] \in Int
    BY <1>1, <1>4
  <2>2. ~(at[i] < at[j]) /\ ~(at[j] < at[i])
    BY <2>1
  <2> QED
    BY <1>5, <2>2
<1>7. J \in SUBSET (1..k) /\ \A i \in 1..k : i \in J <=> at[i] \in H
  BY <1>0, <1>4
<1>8. IsFiniteSet(J) /\ J \in SUBSET Int
  <2>1. IsFiniteSet(1..k)
    BY FS_Interval
  <2>2. 1..k \in SUBSET Int
    OBVIOUS
  <2> QED
    BY <1>7, <2>1, <2>2, FS_Subset, Zenon
<1>9. Cardinality(H) = Cardinality(J)
  <2>1. \A p \in H : \E i \in J : at[i] = p
    BY <1>1, <1>4, <1>7
  <2>2. (\A i \in J : at[i] \in H) /\ \A i, j \in J : at[i] = at[j] => i = j
    BY <1>6, <1>7
  <2>3. OneToOne(at, J, H)
    BY <2>1, <2>2 DEF OneToOne
  <2> QED
    BY <1>8, <2>3, AsMany
<1>10. PICK m \in Nat : m = Cardinality(J) /\ m = Cardinality(H)
  BY <1>8, <1>9, FS_CardinalityType
<1>11. PICK b : ComesFrom(Kept(l, J), l, J, Earlier(J), b)
  BY <1>8, KeptComes
<1>12. PICK h : ComesFrom(Kept(s, H), s, H, Earlier(H), h)
  BY <1>1, KeptComes
<1>13. ASSUME NEW i \in 1..m PROVE at[b[i]] = h[i]
  <2>1. b[i] \in J /\ h[i] \in H /\ Cardinality(Earlier(J)[b[i]]) = i - 1
        /\ Cardinality(Earlier(H)[h[i]]) = i - 1
    BY <1>10, <1>11, <1>12 DEF ComesFrom
  <2>2. PICK j \in 1..k, q \in H : j = b[i] /\ q = at[j]
    BY <1>7, <2>1
  <2>3. /\ Earlier(J)[j] = {x \in J : x < j} /\ Earlier(H)[q] = {x \in H : x < q}
    BY <2>1, <2>2 DEF Earlier
  <2>4. IsFiniteSet(Earlier(J)[j])
    BY <1>8, <2>3, FS_Subset
  <2>5. \A x \in Earlier(J)[j] : at[x] \in Earlier(H)[q]
    BY <1>5, <1>7, <2>2, <2>3
  <2>6. ASSUME NEW p \in Earlier(H)[q] PROVE \E x \in Earlier(J)[j] : at[x] = p
    <3>1. p \in H /\ p < q
      BY <2>3, <2>6
    <3>2. PICK x \in 1..k : at[x] = p
      BY <1>1, <1>4, <3>1
    <3>3. x \in J /\ x < j
      BY <1>5, <1>7, <2>2, <3>1, <3>2
    <3> QED
      BY <2>3, <3>2, <3>3
  <2>7. \A x, y \in Earlier(J)[j] : at[x] = at[y] => x = y
    BY <1>6, <1>7, <2>3
  <2>8. Cardinality(Earlier(H)[q]) = Cardinality(Earlier(J)[j])
    <3>1. OneToOne(at, Earlier(J)[j], Earlier(H)[q])
      BY <2>5, <2>6, <2>7 DEF OneToOne
    <3> QED
      BY <2>4, <3>1, AsMany
  <2>9. IsOrder(H, Earlier(H))
    BY <1>1, EarlierIsOrder
  <2>10. q = h[i]
    BY <1>1, <2>1, <2>2, <2>8, <2>9, PlacesTaken
  <2> QED
    BY <2>2, <2>10
<1>14. \A i \in 1..m : l[b[i]] = s[h[i]]
  <2> SUFFICES ASSUME NEW i \in 1..m PROVE l[b[i]] = s[h[i]]
    OBVIOUS
  <2>1. b[i] \in 1..k
    BY <1>7, <1>10, <1>11 DEF ComesFrom
  <2> QED
    BY <1>4, <1>13, <2>1
<1>15. /\ Kept(l, J) = [i \in 1..m |-> l[b[i]]]
       /\ Kept(s, H) = [i \in 1..m |-> s[h[i]]]
  BY <1>10, <1>11, <1>12 DEF ComesFrom
<1> QED
  BY <1>14, <1>15

-----------------------------------------------------------------------------
(* Pages of lists. *)

LEMMA MinOf == ASSUME NEW a \in Int, NEW b \in Int PROVE Min({a, b}) = IF a <= b THEN a ELSE b
<1>1. PICK m : m = Min({a, b})
  OBVIOUS
<1>2. \E x \in {a, b} : \A y \in {a, b} : x <= y
  OBVIOUS
<1>3. m \in {a, b} /\ \A y \in {a, b} : m <= y
  BY <1>1, <1>2 DEF Min
<1> QED
  BY <1>1, <1>3

LEMMA MaxOf == ASSUME NEW a \in Int, NEW b \in Int PROVE Max({a, b}) = IF a >= b THEN a ELSE b
<1>1. PICK m : m = Max({a, b})
  OBVIOUS
<1>2. \E x \in {a, b} : \A y \in {a, b} : x >= y
  OBVIOUS
<1>3. m \in {a, b} /\ \A y \in {a, b} : m >= y
  BY <1>1, <1>2 DEF Max
<1> QED
  BY <1>1, <1>3

\* There is a page k just when the pages before it do not hold all of the list.
LEMMA PagesNeeded ==
  ASSUME NEW a \in Nat, NEW b \in Nat, b > 0
  PROVE  /\ CeilDiv(a, b) \in Nat /\ CeilDiv(a, b) <= a
         /\ \A k \in Nat \ {0} : k <= CeilDiv(a, b) <=> (k - 1) * b < a
<1>1. PICK q \in Int : q = CeilDiv(a, b) /\ q * b <= a + b - 1 /\ a + b - 1 < q * b + b
  BY DEF CeilDiv
<1>2. q >= 0
  <2> SUFFICES ASSUME q <= 0 - 1 PROVE FALSE
    OBVIOUS
  <2>1. q * b <= (0 - 1) * b
    OBVIOUS
  <2> QED
    BY <1>1, <2>1
<1>3. ASSUME NEW k \in Nat \ {0} PROVE k <= q <=> (k - 1) * b < a
  <2>1. PICK x \in Int, y \in Int : x = k * b /\ y = q * b
    OBVIOUS
  <2>2. (k - 1) * b = x - b
    BY <2>1
  <2>3. CASE k <= q
    <3>1. x <= y
      BY <2>1, <2>3
    <3> QED
      BY <1>1, <2>1, <2>2, <2>3, <3>1
  <2>4. CASE k >= q + 1
    <3>1. x >= (q + 1) * b
      BY <2>1, <2>4
    <3>2. (q + 1) * b = y + b
      BY <2>1
    <3> QED
      BY <1>1, <2>1, <2>2, <2>4, <3>1, <3>2
  <2> QED
    BY <2>3, <2>4
<1>4. q <= a
  <2> SUFFICES ASSUME q >= a + 1 PROVE FALSE
    BY <1>2
  <2>1. (q - 1) * b < a
    BY <1>2, <1>3
  <2>2. (q - 1) * b >= (q - 1) * 1
    BY <1>2
  <2> QED
    BY <2>1, <2>2
<1> QED
  BY <1>1, <1>2, <1>3, <1>4

\* A page of a list is one, and has something on it only while the list goes on.
LEMMA PageOfList ==
  ASSUME NEW S, NEW s \in Seq(S), NEW page \in Nat \ {0}, NEW size \in Nat, size > 0
  PROVE  /\ Slice(s, page, size) \in Seq(S)
         /\ Slice(s, page, size) # <<>> => (page - 1) * size < Len(s)
<1>1. PICK m \in Nat, n \in Nat : m = (page - 1) * size /\ n = page * size
  OBVIOUS
<1>2. Len(s) \in Nat /\ \A i \in 1..Len(s) : s[i] \in S
  BY LenProperties, ElementOfSeq
<1>3. PICK k \in Nat : k = Min({n, Len(s)}) /\ k <= Len(s)
  BY <1>2, MinOf
<1>4. Slice(s, page, size) = SubSeq(s, m + 1, k)
  BY <1>1, <1>3 DEF Slice
<1>5. \A i \in (m + 1)..k : s[i] \in S
  BY <1>2, <1>3
<1>6. SubSeq(s, m + 1, k) \in Seq(S)
  BY <1>5, SubSeqProperties
<1>7. ASSUME Len(s) <= m PROVE SubSeq(s, m + 1, k) = <<>>
  <2>1. k < m + 1 /\ k \in Int /\ m + 1 \in Int
    BY <1>2, <1>3, <1>7
  <2> QED
    BY <2>1, SubSeqEmpty
<1>8. SubSeq(s, m + 1, k) # <<>> => m < Len(s)
  BY <1>2, <1>7
<1> QED
  BY <1>1, <1>4, <1>6, <1>8

\* A first page that is long enough is the list.
LEMMA WholePage ==
  ASSUME NEW S, NEW s \in Seq(S), NEW size \in Nat
  PROVE  /\ Len(Slice(s, 1, size)) \in Nat /\ Len(Slice(s, 1, size)) <= Len(s)
         /\ Len(s) <= size => Slice(s, 1, size) = s
<1>1. Len(s) \in Nat /\ \A i \in 1..Len(s) : s[i] \in S
  BY LenProperties, ElementOfSeq
<1>2. PICK k \in Nat : /\ k = Min({size, Len(s)}) /\ k <= Len(s)
                       /\ Len(s) <= size => k = Len(s)
  BY <1>1, MinOf
<1>3. Slice(s, 1, size) = SubSeq(s, 1, k)
  <2>1. (1 - 1) * size + 1 = 1 /\ 1 * size = size
    OBVIOUS
  <2> QED
    BY <1>2, <2>1 DEF Slice
<1>4. \A i \in 1..k : s[i] \in S
  BY <1>1, <1>2
<1>5. Len(SubSeq(s, 1, k)) = k
  <2>1. Len(SubSeq(s, 1, k)) = IF 1 <= k THEN k - 1 + 1 ELSE 0
    BY <1>4, SubSeqProperties
  <2> QED
    BY <2>1
<1>6. Len(s) <= size => SubSeq(s, 1, k) = s
  BY <1>2, SubSeqFull
<1> QED
  BY <1>1, <1>2, <1>3, <1>5, <1>6

-----------------------------------------------------------------------------
(* What the API finds, and what the cards show of it. *)

Posts == [filters : SUBSET SrvFilters, status : {"UPCOMING", "ONGOING", "ENDED"},
          days : SUBSET Days, tags : SUBSET Tags, ends : Nat]

LEMMA TableFact ==
  /\ Table \in Seq(Posts) /\ Len(Table) \in Nat /\ DOMAIN Table = 1..Len(Table)
  /\ \A i \in 1..Len(Table) : Table[i] \in Posts
<1>1. Table \in Seq(Posts)
  BY ExploreAssumption DEF Posts
<1> QED
  BY <1>1, LenProperties, ElementOfSeq

LEMMA PageSizes == /\ PageSize \in Nat /\ PageSize > 0 /\ ServerMax \in Nat /\ ServerMax > 0
                   /\ Min({ServerMax, PageSize}) = PageSize /\ Min({ServerMax, ServerMax}) = ServerMax
<1>1. PageSize \in Nat /\ PageSize > 0 /\ ServerMax \in Nat /\ PageSize <= ServerMax
  BY ExploreAssumption
<1> QED
  BY <1>1, MinOf

\* Positions of a sequence are finitely many.
LEMMA SomePositions ==
  ASSUME NEW n \in Nat, NEW K \in SUBSET (1..n)
  PROVE  /\ IsFiniteSet(K) /\ K \in SUBSET Int
         /\ Cardinality(K) \in Nat /\ Cardinality(K) <= n
<1>1. IsFiniteSet(1..n) /\ Cardinality(1..n) = n
  BY FS_Interval
<1>2. IsFiniteSet(K) /\ Cardinality(K) <= n
  BY <1>1, FS_Subset
<1>3. 1..n \subseteq Int
  OBVIOUS
<1> QED
  BY <1>2, <1>3, FS_CardinalityType

\* What a filter keeps of a list is one, no longer.
LEMMA KeptOfList ==
  ASSUME NEW S, NEW n \in Nat, NEW s, Within(s, 1..n, S), NEW K, K \subseteq 1..n
  PROVE  /\ Kept(s, K) \in Seq(S) /\ Len(Kept(s, K)) \in Nat /\ Len(Kept(s, K)) <= n
         /\ Len(Kept(s, K)) = Cardinality(K) /\ DOMAIN Kept(s, K) = 1..Len(Kept(s, K))
<1>1. PICK l : l = Kept(s, K)
  OBVIOUS
<1>2. /\ K \in SUBSET Int /\ IsFiniteSet(K)
      /\ Cardinality(K) \in Nat /\ Cardinality(K) <= n
  BY SomePositions
<1>3. PICK at : ComesFrom(l, s, K, Earlier(K), at)
  BY <1>1, <1>2, KeptComes
<1>4. Within(s, K, S)
  BY DEF Within
<1>5. l \in Seq(S) /\ Len(l) = Cardinality(K) /\ DOMAIN l = 1..Len(l)
  BY <1>2, <1>3, <1>4, ComesInSeq
<1> QED
  BY <1>1, <1>2, <1>5

\* Posts in the order of their ends are the posts.
LEMMA EndingFirstFact ==
  /\ DOMAIN EndingFirst = 1..Len(Table)
  /\ \A i \in 1..Len(Table) : EndingFirst[i] \in Posts
<1>1. PICK n \in Nat : n = Len(Table) /\ DOMAIN Table = 1..n /\ \A i \in 1..n : Table[i] \in Posts
  BY TableFact
<1>2. PICK K : K = 1..n /\ IsFiniteSet(K) /\ Cardinality(K) = n
  BY FS_Interval
<1>3. PICK e : e = [i \in K |-> Table[i].ends]
  OBVIOUS
<1>4. \A i \in K : e[i] = Table[i].ends /\ e[i] \in Nat /\ i \in Nat
  BY <1>1, <1>2, <1>3 DEF Posts
<1>5. PICK a : a = [p \in K |-> {q \in K : e[q] < e[p] \/ (~(e[p] < e[q]) /\ q < p)}]
  OBVIOUS
<1>6. a \in [K -> SUBSET K] /\ \A p, q \in K : q \in a[p] <=> e[q] < e[p] \/ (~(e[p] < e[q]) /\ q < p)
  BY <1>5
<1>7. ASSUME NEW p \in K, NEW q \in K, q \in a[p] PROVE a[q] \subseteq a[p]
  <2>1. ASSUME NEW r \in a[q] PROVE r \in a[p]
    <3>1. r \in K
      BY <1>6, <2>1
    <3>2. e[r] < e[q] \/ (~(e[q] < e[r]) /\ r < q)
      BY <1>6, <2>1, <3>1
    <3>3. e[q] < e[p] \/ (~(e[p] < e[q]) /\ q < p)
      BY <1>6, <1>7
    <3>4. e[r] < e[p] \/ (~(e[p] < e[r]) /\ r < p)
      BY <1>4, <3>1, <3>2, <3>3
    <3> QED
      BY <1>6, <3>1, <3>4
  <2> QED
    BY <2>1
<1>8. \A p \in K : p \notin a[p]
  BY <1>4, <1>6
<1>9. \A p, q \in K : p # q => q \in a[p] \/ p \in a[q]
  BY <1>4, <1>6
<1>10. IsOrder(K, a)
  BY <1>6, <1>7, <1>8, <1>9 DEF IsOrder
<1>11. EndingFirst = Arranged(Table, a)
  BY <1>1, <1>2, <1>4, <1>5 DEF EndingFirst, Sorted
<1>12. PICK at : ComesFrom(EndingFirst, Table, K, a, at)
  BY <1>2, <1>10, <1>11, ArrangedComes
<1>13. DOMAIN EndingFirst = 1..n /\ \A i \in 1..n : EndingFirst[i] \in Posts
  BY <1>1, <1>2, <1>12 DEF ComesFrom
<1> QED
  BY <1>1, <1>13

LEMMA OrderedFact ==
  ASSUME NEW req
  PROVE  DOMAIN Ordered(req) = 1..Len(Table) /\ Within(Ordered(req), 1..Len(Table), Posts)
BY TableFact, EndingFirstFact DEF Ordered, Within

LEMMA FoundFact ==
  ASSUME NEW req
  PROVE  /\ Found(req) \in Seq(Posts) /\ Len(Found(req)) \in Nat
         /\ Len(Found(req)) <= Len(Table)
<1>0. PICK s : s = Ordered(req)
  OBVIOUS
<1>1. PICK n \in Nat : n = Len(Table) /\ s = Ordered(req)
  BY <1>0, TableFact
<1>2. DOMAIN Table = 1..n /\ Within(s, 1..n, Posts)
  BY <1>1, TableFact, OrderedFact
<1>3. PICK K : K = {i \in 1..n : Matches(req, s[i])}
  OBVIOUS
<1>4. Found(req) = Kept(s, K)
  BY <1>1, <1>2, <1>3 DEF Found
<1>5. K \subseteq 1..n
  BY <1>3
<1>6. Kept(s, K) \in Seq(Posts) /\ Len(Kept(s, K)) \in Nat /\ Len(Kept(s, K)) <= n
  BY <1>2, <1>5, KeptOfList
<1> QED
  BY <1>1, <1>4, <1>6

\* Only text, status and order of a request count for what is found.
LEMMA FoundByFilters ==
  ASSUME NEW a, NEW b, a.srv = b.srv, a.status = b.status, a.order = b.order
  PROVE  /\ Found(a) = Found(b) /\ Ordered(a) = Ordered(b)
         /\ \A p : Matches(a, p) = Matches(b, p)
<1>1. Ordered(a) = Ordered(b) /\ \A p : Matches(a, p) = Matches(b, p)
  BY DEF Ordered, Matches
<1> QED
  BY <1>1 DEF Found

\* The whole of what the browser gets of a request it filters, and a page of any other.
LEMMA AnswerFact ==
  ASSUME NEW req, NEW page \in Nat \ {0}, req.page = page,
         req.limit = PageSize \/ req.limit = ServerMax
  PROVE  LET a == FindAll(req) IN
         /\ a.page = page
         /\ req.limit = PageSize => a.data = Slice(Found(req), page, PageSize)
         /\ req.limit = PageSize => a.totalPages = CeilDiv(Len(Found(req)), PageSize)
         /\ req.limit = ServerMax => a.data = Slice(Found(req), page, ServerMax)
         /\ a.data \in Seq(Posts)
<1>1. ASSUME NEW limit \in Nat, limit > 0, req.limit = limit, Min({ServerMax, limit}) = limit
      PROVE  /\ FindAll(req) = [data |-> Slice(Found(req), page, limit), page |-> page,
                                totalPages |-> CeilDiv(Len(Found(req)), limit)]
             /\ Slice(Found(req), page, limit) \in Seq(Posts)
  <2>1. Found(req) \in Seq(Posts)
    BY FoundFact
  <2> QED
    BY <1>1, <2>1, PageOfList DEF FindAll
<1>2. CASE req.limit = PageSize
  BY <1>1, <1>2, PageSizes
<1>3. CASE req.limit = ServerMax
  BY <1>1, <1>3, PageSizes
<1> QED
  BY <1>2, <1>3

-----------------------------------------------------------------------------
(* The pager. *)

\* The numbers of the pages around the current one, of which there are k; a and b marks.
Extent(from, to, total, k, a, b) ==
  /\ k = IF to < from THEN 0 ELSE to - from + 1
  /\ a = IF from > 2 THEN 1 ELSE 0
  /\ b = IF to < total - 1 THEN 1 ELSE 0

LEMMA NumberParts ==
  ASSUME NEW x \in Int
  PROVE  \E s \in Seq(Int) : s = <<x>> /\ Len(s) = 1 /\ s[1] = x
<1>1. PICK s : s = <<x>>
  OBVIOUS
<1>2. s \in Seq(Int) /\ Len(s) = 1 /\ s[1] = x
  BY <1>1
<1> QED
  BY <1>1, <1>2

\* The numbers around the current page.
Middle(s, from, to, k) == /\ s = [i \in 1..(to - from + 1) |-> from + i - 1]
                          /\ Len(s) = k /\ \A i \in 1..k : s[i] = from + i - 1

LEMMA PagerParts ==
  ASSUME NEW from \in Int, NEW to \in Int, NEW total \in Int, NEW k \in Nat, NEW a, NEW b,
         Extent(from, to, total, k, a, b)
  PROVE  \E s \in Seq(Int) : Middle(s, from, to, k)
<1>1. PICK s : s = [i \in 1..(to - from + 1) |-> from + i - 1]
  OBVIOUS
<1>2. 1..(to - from + 1) = 1..k
  BY DEF Extent
<1>3. s \in [1..k -> Int] /\ \A i \in 1..k : s[i] = from + i - 1
  BY <1>1, <1>2
<1>4. s \in Seq(Int)
  BY <1>3, SeqDef
<1>5. Len(s) = k
  BY <1>3, <1>4, LenProperties
<1>6. Middle(s, from, to, k)
  BY <1>1, <1>3, <1>5, Zenon DEF Middle
<1> QED
  BY <1>4, <1>6

LEMMA MarkParts ==
  ASSUME NEW c \in BOOLEAN, NEW a, a = IF c THEN 1 ELSE 0
  PROVE  \E s \in Seq(Int) : s = (IF c THEN <<0>> ELSE <<>>) /\ Len(s) = a /\ (a = 1 => s[1] = 0)
<1>1. PICK s : s = IF c THEN <<0>> ELSE <<>>
  OBVIOUS
<1>2. s \in Seq(Int) /\ Len(s) = a /\ (a = 1 => s[1] = 0)
  BY <1>1
<1> QED
  BY <1>1, <1>2

\* One list of numbers after another.
Joins(u, s, t, m, n) ==
  /\ u \in Seq(Int) /\ Len(u) = m + n
  /\ \A i \in 1..m : u[i] = s[i]
  /\ \A i \in 1..n : u[m + i] = t[i]

LEMMA JoinedNumbers ==
  ASSUME NEW s \in Seq(Int), NEW t \in Seq(Int), NEW m \in Nat, NEW n \in Nat,
         Len(s) = m, Len(t) = n
  PROVE  Joins(s \o t, s, t, m, n)
<1>1. PICK u : u = s \o t
  OBVIOUS
<1>2. /\ u \in Seq(Int) /\ Len(u) = m + n
      /\ \A i \in 1..(m + n) : u[i] = IF i <= m THEN s[i] ELSE t[i - m]
  BY <1>1, ConcatProperties
<1>3. \A i \in 1..m : u[i] = s[i]
  BY <1>2
<1>4. ASSUME NEW i \in 1..n PROVE u[m + i] = t[i]
  <2>1. m + i \in 1..(m + n) /\ ~(m + i <= m) /\ (m + i) - m = i
    OBVIOUS
  <2> QED
    BY <1>2, <2>1
<1>5. Joins(u, s, t, m, n)
  BY <1>2, <1>3, <1>4 DEF Joins
<1> QED
  BY <1>1, <1>5

\* The pager of many pages, number by number.
NumbersAre(items, from, total, k, a, b) ==
  /\ items \in Seq(Int) /\ Len(items) = 2 + a + k + b
  /\ items[1] = 1 /\ items[2 + a + k + b] = total
  /\ a = 1 => items[2] = 0
  /\ \A i \in (2 + a)..(1 + a + k) : items[i] = from + i - a - 2
  /\ b = 1 => items[2 + a + k] = 0

LEMMA PartsJoined ==
  ASSUME NEW a \in {0, 1}, NEW b \in {0, 1}, NEW k \in Nat, NEW from \in Int, NEW total \in Int,
         NEW s1 \in Seq(Int), NEW s2 \in Seq(Int), NEW s3 \in Seq(Int), NEW s4 \in Seq(Int),
         NEW s5 \in Seq(Int),
         Len(s1) = 1, Len(s2) = a, Len(s3) = k, Len(s4) = b, Len(s5) = 1,
         s1[1] = 1, a = 1 => s2[1] = 0, \A i \in 1..k : s3[i] = from + i - 1,
         b = 1 => s4[1] = 0, s5[1] = total
  PROVE  NumbersAre(s1 \o s2 \o s3 \o s4 \o s5, from, total, k, a, b)
<1>1. PICK m2 \in Nat, m3 \in Nat, m4 \in Nat :
        m2 = 1 + a /\ m3 = 1 + a + k /\ m4 = 1 + a + k + b
  OBVIOUS
<1>2. PICK u2 : u2 = s1 \o s2 /\ Joins(u2, s1, s2, 1, a)
  <2>1. Joins(s1 \o s2, s1, s2, 1, a)
    BY <1>1, JoinedNumbers
  <2> QED
    BY <2>1, Zenon
<1>3. u2 \in Seq(Int) /\ Len(u2) = m2
  BY <1>1, <1>2 DEF Joins
<1>4. PICK u3 : u3 = u2 \o s3 /\ Joins(u3, u2, s3, m2, k)
  <2>1. Joins(u2 \o s3, u2, s3, m2, k)
    BY <1>3, JoinedNumbers
  <2> QED
    BY <2>1, Zenon
<1>5. u3 \in Seq(Int) /\ Len(u3) = m3
  BY <1>1, <1>4 DEF Joins
<1>6. PICK u4 : u4 = u3 \o s4 /\ Joins(u4, u3, s4, m3, b)
  <2>1. Joins(u3 \o s4, u3, s4, m3, b)
    BY <1>5, JoinedNumbers
  <2> QED
    BY <2>1, Zenon
<1>7. u4 \in Seq(Int) /\ Len(u4) = m4
  BY <1>1, <1>6 DEF Joins
<1>8. PICK items : items = u4 \o s5 /\ Joins(items, u4, s5, m4, 1)
  <2>1. Joins(u4 \o s5, u4, s5, m4, 1)
    BY <1>7, JoinedNumbers
  <2> QED
    BY <2>1, Zenon
<1>9. items = s1 \o s2 \o s3 \o s4 \o s5
  BY <1>2, <1>4, <1>6, <1>8
<1>10. items \in Seq(Int) /\ Len(items) = m4 + 1 /\ items[m4 + 1] = total
  BY <1>8 DEF Joins
<1>11. \A i \in 1..m4 : items[i] = u4[i]
  BY <1>8 DEF Joins
<1>12. (\A i \in 1..m3 : u4[i] = u3[i]) /\ (b = 1 => u4[m3 + 1] = 0)
  <2>1. \A i \in 1..b : u4[m3 + i] = s4[i]
    BY <1>6 DEF Joins
  <2>2. b = 1 => 1 \in 1..b
    OBVIOUS
  <2> QED
    BY <1>6, <2>1, <2>2 DEF Joins
<1>13. (\A i \in 1..m2 : u3[i] = u2[i]) /\ \A i \in 1..k : u3[m2 + i] = from + i - 1
  BY <1>4 DEF Joins
<1>14. u2[1] = 1 /\ (a = 1 => u2[2] = 0)
  BY <1>2 DEF Joins
<1>15. \A i \in 1..m3 : items[i] = u3[i]
  BY <1>1, <1>11, <1>12
<1>16. \A i \in 1..m2 : items[i] = u2[i]
  BY <1>1, <1>13, <1>15
<1>17. items[1] = 1 /\ (a = 1 => items[2] = 0)
  BY <1>1, <1>14, <1>16
<1>18. ASSUME NEW i \in (2 + a)..(1 + a + k) PROVE items[i] = from + i - a - 2
  <2>1. PICK j \in 1..k : i = m2 + j
    <3>1. i - m2 \in 1..k /\ i = m2 + (i - m2)
      BY <1>1
    <3> QED
      BY <3>1
  <2>2. i \in 1..m3
    BY <1>1
  <2>3. items[i] = u3[m2 + j]
    BY <1>15, <2>1, <2>2
  <2>4. items[i] = from + j - 1
    BY <1>13, <2>3
  <2> QED
    BY <1>1, <2>1, <2>4
<1>19. ASSUME b = 1 PROVE items[2 + a + k] = 0
  <2>1. m3 + 1 \in 1..m4 /\ 2 + a + k = m3 + 1
    BY <1>1, <1>19
  <2>2. items[m3 + 1] = u4[m3 + 1]
    BY <1>11, <2>1
  <2> QED
    BY <1>12, <1>19, <2>1, <2>2
<1>20. m4 + 1 = 2 + a + k + b
  BY <1>1
<1>21. NumbersAre(items, from, total, k, a, b)
  BY <1>10, <1>17, <1>18, <1>19, <1>20 DEF NumbersAre
<1> QED
  BY <1>9, <1>21

PagerMarked(from, to, total) ==
  <<1>> \o (IF from > 2 THEN <<0>> ELSE <<>>) \o [i \in 1..(to - from + 1) |-> from + i - 1]
        \o (IF to < total - 1 THEN <<0>> ELSE <<>>) \o <<total>>

LEMMA PagerOfMany ==
  ASSUME NEW total \in Int, NEW from \in Int, NEW to \in Int,
         NEW k \in Nat, NEW a \in {0, 1}, NEW b \in {0, 1}, Extent(from, to, total, k, a, b)
  PROVE  NumbersAre(PagerMarked(from, to, total), from, total, k, a, b)
<1>1. PICK s1 \in Seq(Int) : s1 = <<1>> /\ Len(s1) = 1 /\ s1[1] = 1
  BY NumberParts
<1>2. PICK s2 \in Seq(Int) : /\ s2 = (IF from > 2 THEN <<0>> ELSE <<>>) /\ Len(s2) = a
                             /\ a = 1 => s2[1] = 0
  BY MarkParts DEF Extent
<1>3. PICK s3 \in Seq(Int) : Middle(s3, from, to, k)
  BY PagerParts
<1>4. PICK s4 \in Seq(Int) : /\ s4 = (IF to < total - 1 THEN <<0>> ELSE <<>>) /\ Len(s4) = b
                             /\ b = 1 => s4[1] = 0
  BY MarkParts DEF Extent
<1>5. PICK s5 \in Seq(Int) : s5 = <<total>> /\ Len(s5) = 1 /\ s5[1] = total
  BY NumberParts
<1>6. Len(s1) = 1 /\ Len(s2) = a /\ Len(s3) = k /\ Len(s4) = b /\ Len(s5) = 1
  BY <1>1, <1>2, <1>3, <1>4, <1>5, Zenon DEF Middle
<1>7. s1[1] = 1 /\ s5[1] = total /\ (a = 1 => s2[1] = 0) /\ (b = 1 => s4[1] = 0)
  BY <1>1, <1>2, <1>4, <1>5, Zenon
<1>8. \A i \in 1..k : s3[i] = from + i - 1
  BY <1>3, Zenon DEF Middle
<1>9. NumbersAre(s1 \o s2 \o s3 \o s4 \o s5, from, total, k, a, b)
  BY <1>6, <1>7, <1>8, PartsJoined, ZenonT(60)
<1> QED
  BY <1>1, <1>2, <1>3, <1>4, <1>5, <1>9, Zenon DEF PagerMarked, Middle

\* Where the numbers around the current page begin and end.
Around(from, to, page, total, S) ==
  /\ from = IF 2 >= page - S THEN 2 ELSE page - S
  /\ to = IF total - 1 <= page + S THEN total - 1 ELSE page + S

Reaches(from, to, page, total, k, a, b) ==
  /\ Extent(from, to, total, k, a, b)
  /\ from >= 2 /\ to <= total - 1 /\ k = to - from + 1
  /\ a = 1 <=> from > 2
  /\ b = 1 <=> to < total - 1
  /\ page \in {1, total} \/ page \in from..to
  /\ a = 1 /\ b = 1 => k > 0

LEMMA PagerBounds ==
  ASSUME NEW S \in Nat, NEW total \in Nat, total > 1, NEW page \in 1..total,
         NEW from \in Int, NEW to \in Int, Around(from, to, page, total, S)
  PROVE  \E k \in Nat, a \in {0, 1}, b \in {0, 1} : Reaches(from, to, page, total, k, a, b)
<1>0. /\ from = 2 \/ from = page - S
      /\ to = total - 1 \/ to = page + S
      /\ from >= 2 /\ from >= page - S /\ to <= total - 1 /\ to <= page + S
  BY DEF Around
<1>1. PICK k \in Nat : k = to - from + 1
  <2>1. to - from + 1 \in Nat
    BY <1>0
  <2> QED
    BY <2>1
<1>2. PICK a \in {0, 1} : a = IF from > 2 THEN 1 ELSE 0
  OBVIOUS
<1>3. PICK b \in {0, 1} : b = IF to < total - 1 THEN 1 ELSE 0
  OBVIOUS
<1>4. Extent(from, to, total, k, a, b)
  BY <1>1, <1>2, <1>3 DEF Extent
<1>5. from >= 2 /\ to <= total - 1
  BY <1>0
<1>6. page \in {1, total} \/ page \in from..to
  BY DEF Around
<1>7. a = 1 /\ b = 1 => k > 0
  BY <1>0, <1>1, <1>2, <1>3
<1>8. (a = 1 <=> from > 2) /\ (b = 1 <=> to < total - 1)
  BY <1>2, <1>3
<1>9. Reaches(from, to, page, total, k, a, b)
  BY <1>1, <1>4, <1>5, <1>6, <1>7, <1>8, Zenon DEF Reaches
<1> QED
  BY <1>9, Zenon

\* What PagerIsSound asks of the numbers.
Sound(items, page, total) ==
  /\ {1, page, total} \subseteq ToSet(items)
  /\ \A i \in 1..(Len(items) - 1) :
       /\ items[i] # 0 /\ items[i + 1] # 0 => items[i + 1] = items[i] + 1
       /\ items[i] = 0 => items[i - 1] + 1 < items[i + 1]

LEMMA NumbersSound ==
  ASSUME NEW total \in Nat, total > 1, NEW page \in 1..total,
         NEW from \in Int, NEW to \in Int, NEW k \in Nat, NEW a \in {0, 1}, NEW b \in {0, 1},
         Reaches(from, to, page, total, k, a, b),
         NEW items, NumbersAre(items, from, total, k, a, b)
  PROVE  Sound(items, page, total)
<1>0. /\ from >= 2 /\ to <= total - 1 /\ k = to - from + 1
      /\ a = 1 <=> from > 2
      /\ b = 1 <=> to < total - 1
      /\ page \in {1, total} \/ page \in from..to
      /\ a = 1 /\ b = 1 => k > 0
  BY DEF Reaches
<1>1. PICK n \in Nat : n = 2 + a + k + b /\ n >= 2
  OBVIOUS
<1>2. /\ Len(items) = n /\ DOMAIN items = 1..n
      /\ items[1] = 1 /\ items[n] = total
      /\ a = 1 => items[2] = 0
      /\ \A i \in (2 + a)..(1 + a + k) : items[i] = from + i - a - 2
      /\ b = 1 => items[2 + a + k] = 0
  <2>1. items \in Seq(Int) /\ Len(items) = n
    BY <1>1 DEF NumbersAre
  <2>2. DOMAIN items = 1..n
    BY <1>0, <2>1, LenProperties
  <2> QED
    BY <1>1, <2>1, <2>2 DEF NumbersAre
<1>3. \A i \in 1..n : items[i] \in ToSet(items)
  BY <1>0, <1>2 DEF ToSet
<1>4. page \in ToSet(items)
  <2>1. CASE page \in {1, total}
    BY <1>0, <1>1, <1>2, <1>3, <2>1
  <2>2. CASE page \in from..to
    <3>1. PICK i \in (2 + a)..(1 + a + k) : i = page - from + a + 2
      BY <1>0, <2>2
    <3>2. items[i] = page /\ i \in 1..n
      BY <1>0, <1>1, <1>2, <3>1
    <3> QED
      BY <1>3, <3>2
  <2> QED
    BY <1>0, <2>1, <2>2
<1>5. {1, page, total} \subseteq ToSet(items)
  BY <1>0, <1>1, <1>2, <1>3, <1>4
<1>6. ASSUME NEW i \in 1..(n - 1)
      PROVE  /\ items[i] # 0 /\ items[i + 1] # 0 => items[i + 1] = items[i] + 1
             /\ items[i] = 0 => items[i - 1] + 1 < items[i + 1]
  <2>1. CASE i = 1
    <3>1. CASE a = 1
      BY <1>0, <1>2, <2>1, <3>1
    <3>2. CASE a = 0 /\ k > 0
      <4>1. items[2 + a] = from
        BY <1>0, <1>2, <3>2
      <4> QED
        BY <1>0, <1>2, <2>1, <3>2, <4>1
    <3>3. CASE a = 0 /\ k = 0 /\ b = 1
      BY <1>0, <1>2, <2>1, <3>3
    <3>4. CASE a = 0 /\ k = 0 /\ b = 0
      BY <1>0, <1>1, <1>2, <2>1, <3>4
    <3> QED
      BY <3>1, <3>2, <3>3, <3>4
  <2>2. CASE a = 1 /\ i = 2
    <3>1. CASE k > 0
      <4>1. items[2 + a] = from
        BY <1>0, <1>2, <3>1
      <4> QED
        BY <1>0, <1>2, <2>2, <4>1
    <3>2. CASE k = 0
      BY <1>0, <1>1, <1>2, <2>2, <3>2
    <3> QED
      BY <3>1, <3>2
  <2>3. CASE i - 1 - a \in 1..(k - 1)
    <3>1. i \in (2 + a)..(1 + a + k) /\ i + 1 \in (2 + a)..(1 + a + k)
      BY <1>0, <2>3
    <3>2. items[i] = from + i - a - 2 /\ items[i + 1] = from + (i + 1) - a - 2
      BY <1>0, <1>2, <3>1
    <3> QED
      BY <1>0, <3>1, <3>2
  <2>4. CASE k > 0 /\ i = 1 + a + k
    <3>1. items[1 + a + k] = to
      BY <1>0, <1>2, <2>4
    <3>2. CASE b = 1
      <4>1. i + 1 = 2 + a + k
        BY <1>0, <2>4
      <4> QED
        BY <1>0, <1>2, <2>4, <3>1, <3>2, <4>1
    <3>3. CASE b = 0
      <4>1. i + 1 = n
        BY <1>1, <2>4, <3>3
      <4> QED
        BY <1>0, <1>2, <2>4, <3>1, <3>3, <4>1
    <3> QED
      BY <3>2, <3>3
  <2>5. CASE b = 1 /\ i = 2 + a + k
    <3>1. i + 1 = n /\ items[i] = 0 /\ items[i + 1] = total
      BY <1>0, <1>1, <1>2, <2>5
    <3>2. CASE k > 0
      <4>1. items[1 + a + k] = to /\ i - 1 = 1 + a + k
        BY <1>0, <1>2, <2>5, <3>2
      <4> QED
        BY <1>0, <2>5, <3>1, <4>1
    <3>3. CASE k = 0
      <4>1. a = 0 /\ i - 1 = 1
        BY <1>0, <2>5, <3>3
      <4> QED
        BY <1>0, <1>2, <2>5, <3>1, <3>3, <4>1
    <3> QED
      BY <3>2, <3>3
  <2>6. \/ i = 1
        \/ a = 1 /\ i = 2
        \/ i - 1 - a \in 1..(k - 1)
        \/ k > 0 /\ i = 1 + a + k
        \/ b = 1 /\ i = 2 + a + k
    BY <1>0, <1>1
  <2> QED
    BY <1>0, <2>1, <2>2, <2>3, <2>4, <2>5, <2>6, Zenon
<1> QED
  BY <1>0, <1>2, <1>5, <1>6 DEF Sound

LEMMA PagerNames ==
  ASSUME NEW total \in Nat, NEW page \in 1..total
  PROVE  Sound(VisiblePages(page, total), page, total)
<1>1. PICK items : items = VisiblePages(page, total)
  OBVIOUS
<1>2. PICK S \in Nat, A \in Nat : S = Siblings /\ A = PagerAll /\ A > 0
  BY ExploreAssumption
<1>3. PICK from \in Int, to \in Int :
        /\ from = Max({2, page - Siblings}) /\ to = Min({total - 1, page + Siblings})
        /\ Around(from, to, page, total, S)
  <2>1. page - S \in Int /\ page + S \in Int /\ total - 1 \in Int
    OBVIOUS
  <2>2. Max({2, page - S}) = IF 2 >= page - S THEN 2 ELSE page - S
    BY <2>1, MaxOf
  <2>3. Min({total - 1, page + S}) = IF total - 1 <= page + S THEN total - 1 ELSE page + S
    BY <2>1, MinOf
  <2> QED
    BY <1>2, <2>1, <2>2, <2>3 DEF Around
<1>5. CASE total <= PagerAll
  <2>1. items = [i \in 1..total |-> i]
    BY <1>1, <1>5 DEF VisiblePages
  <2>2. items \in Seq(Int)
    BY <2>1, SeqDef
  <2>3. DOMAIN items = 1..total /\ Len(items) = total /\ \A i \in 1..total : items[i] = i
    BY <2>1, <2>2, LenProperties
  <2>4. {1, page, total} \subseteq ToSet(items)
    BY <2>3 DEF ToSet
  <2>5. \A i \in 1..(total - 1) :
          /\ items[i] # 0 /\ items[i + 1] # 0 => items[i + 1] = items[i] + 1
          /\ items[i] = 0 => items[i - 1] + 1 < items[i + 1]
    BY <2>3
  <2> QED
    BY <1>1, <2>3, <2>4, <2>5 DEF Sound
<1>6. CASE ~(total <= PagerAll)
  <2>1. total > 1
    BY <1>2, <1>6
  <2>2. PICK k \in Nat, a \in {0, 1}, b \in {0, 1} : Reaches(from, to, page, total, k, a, b)
    <3>1. Around(from, to, page, total, S)
      BY <1>3
    <3> QED
      BY <2>1, <3>1, PagerBounds
  <2>3. items = PagerMarked(from, to, total)
    BY <1>1, <1>3, <1>6, Zenon DEF VisiblePages, PagerMarked
  <2>4. NumbersAre(items, from, total, k, a, b)
    <3>1. Extent(from, to, total, k, a, b) /\ total \in Int
      BY <2>2 DEF Reaches
    <3> QED
      BY <2>3, <3>1, PagerOfMany
  <2>5. Sound(items, page, total)
    BY <2>1, <2>2, <2>4, NumbersSound
  <2> QED
    BY <1>1, <2>5
<1> QED
  BY <1>5, <1>6

-----------------------------------------------------------------------------
(* The filters chosen, and the page shown of what they find. *)

ChosenFilters == [srv : SrvFilters \cup {None}, order : {None, "latest", "endingSoon"},
                  status : Statuses \cup {None}, day : Days \cup {None}, tags : SUBSET Tags,
                  page : Nat \ {0}]

\* The last page the pager can lead to while the browser filters nothing.
LastPage(fs, s) == Max({1, CeilDiv(Len(Found([fs EXCEPT !.status = s])), PageSize)})

FiltersInv ==
  /\ url \in Statuses \cup {None} /\ nav \in {<<>>} \cup {<<s>> : s \in Statuses \cup {None}}
  /\ unchanged \in BOOLEAN
  /\ filters \in ChosenFilters /\ filters.page <= Max({1, Len(Table)})
  /\ ~ByClient(filters) => filters.page <= LastPage(filters, url)

LEMMA PagesOf ==
  ASSUME NEW n \in Nat
  PROVE  /\ CeilDiv(n, PageSize) \in Nat
         /\ Max({1, CeilDiv(n, PageSize)}) \in Nat /\ Max({1, CeilDiv(n, PageSize)}) >= 1
         /\ CeilDiv(n, PageSize) <= Max({1, CeilDiv(n, PageSize)})
<1>1. PICK c \in Nat : c = CeilDiv(n, PageSize)
  BY PageSizes, PagesNeeded
<1> QED
  BY <1>1, MaxOf

LEMMA FirstPage ==
  ASSUME NEW fs, NEW s
  PROVE  1 <= LastPage(fs, s) /\ 1 <= Max({1, Len(Table)}) /\ LastPage(fs, s) \in Nat
         /\ Max({1, Len(Table)}) \in Nat
<1>1. PICK n \in Nat : n = Len(Found([fs EXCEPT !.status = s]))
  BY FoundFact
<1>2. 1 <= LastPage(fs, s) /\ LastPage(fs, s) \in Nat
  BY <1>1, PagesOf DEF LastPage
<1> QED
  BY <1>2, TableFact, MaxOf

LEMMA NewFilters ==
  ASSUME FiltersInv, NEW new \in ChosenFilters, new.page = 1, FiltersChange(new)
  PROVE  FiltersInv'
<1>1. /\ filters' = new /\ url' = url /\ unchanged' \in BOOLEAN
      /\ nav' = IF new.status # url THEN <<new.status>> ELSE nav
  BY DEF FiltersChange
<1>2. nav' \in {<<>>} \cup {<<s>> : s \in Statuses \cup {None}}
  <2>1. new.status \in Statuses \cup {None}
    BY DEF ChosenFilters
  <2> QED
    BY <1>1, <2>1 DEF FiltersInv
<1>3. LastPage(filters, url)' = LastPage(new, url)
  BY <1>1 DEF LastPage, Found, Ordered, Matches, EndingFirst, Sorted, Arranged
<1> QED
  BY <1>1, <1>2, <1>3, FirstPage DEF FiltersInv

LEMMA FiltersMounted ==
  ASSUME NEW s \in Statuses \cup {None}, ExploreMount(s)
  PROVE  FiltersInv'
<1>1. filters' = NoFilters(s) /\ url' = s /\ nav' = <<>> /\ unchanged' = FALSE
  BY DEF ExploreMount
<1>2. NoFilters(s) \in ChosenFilters /\ NoFilters(s).page = 1
  BY DEF NoFilters, ChosenFilters
<1>3. LastPage(filters, url)' = LastPage(NoFilters(s), s)
  BY <1>1 DEF LastPage
<1> QED
  BY <1>1, <1>2, <1>3, FirstPage DEF FiltersInv

LEMMA NoFiltersFit ==
  /\ NoFilters(None) \in ChosenFilters /\ NoFilters(None).page = 1
  /\ 1 <= LastPage(NoFilters(None), None) /\ 1 <= Max({1, Len(Table)})
<1>1. NoFilters(None) \in ChosenFilters /\ NoFilters(None).page = 1
  BY DEF NoFilters, ChosenFilters
<1> QED
  BY <1>1, FirstPage

\* An answer that fits the filters, as the API gave it.
LEMMA ServerPage ==
  ASSUME list.data = Request(filters), filters \in ChosenFilters, ~ByClient(filters)
  PROVE  /\ PostsShown.data = Slice(Found(Active), filters.page, PageSize)
         /\ PostsShown.page = filters.page
         /\ PostsShown.totalPages = CeilDiv(Len(Found(Active)), PageSize)
<1>1. PICK req : req = Request(filters)
  OBVIOUS
<1>2. PICK page \in Nat \ {0} : page = filters.page
  BY DEF ChosenFilters
<1>3. /\ req.page = page /\ req.limit = PageSize
      /\ req.srv = filters.srv /\ req.status = url /\ req.order = filters.order
  BY <1>1, <1>2 DEF Request
<1>4. Found(req) = Found(Active)
  <2>1. Active.srv = filters.srv /\ Active.status = url /\ Active.order = filters.order
    BY DEF Active, ChosenFilters
  <2> QED
    BY <1>3, <2>1, FoundByFilters
<1>5. PostsShown = FindAll(req)
  BY <1>1 DEF PostsShown
<1> QED
  BY <1>2, <1>3, <1>4, <1>5, AnswerFact

\* An answer that fits the filters, filtered by the browser.
LEMMA BrowserPage ==
  ASSUME list.data = Request(filters), filters \in ChosenFilters, ByClient(filters)
  PROVE  \E rows \in Seq(Posts) : /\ rows = Slice(Found(Active), 1, ServerMax)
                                  /\ PostsShown = ClientPage(filters, rows)
<1>1. PICK req : req = Request(filters)
  OBVIOUS
<1>2. /\ req.page = 1 /\ req.limit = ServerMax
      /\ req.srv = filters.srv /\ req.status = url /\ req.order = filters.order
  BY <1>1 DEF Request
<1>3. Found(req) = Found(Active)
  <2>1. Active.srv = filters.srv /\ Active.status = url /\ Active.order = filters.order
    BY DEF Active, ChosenFilters
  <2> QED
    BY <1>2, <2>1, FoundByFilters
<1>4. PICK rows : rows = FindAll(req).data
  OBVIOUS
<1>5. rows \in Seq(Posts) /\ rows = Slice(Found(Active), 1, ServerMax)
  BY <1>2, <1>3, <1>4, AnswerFact
<1>6. PostsShown = ClientPage(filters, rows)
  BY <1>1, <1>4 DEF PostsShown
<1> QED
  BY <1>5, <1>6

LEMMA ClientPageFact ==
  ASSUME NEW rows \in Seq(Posts), NEW fs, NEW p \in Nat \ {0}, fs.page = p
  PROVE  LET found == Kept(rows, {i \in DOMAIN rows : ClientMatch(fs, rows[i])})
             shown == ClientPage(fs, rows)
         IN  /\ found \in Seq(Posts) /\ Len(found) \in Nat
             /\ shown.totalPages = Max({1, CeilDiv(Len(found), PageSize)})
             /\ shown.page = Min({p, shown.totalPages})
             /\ shown.page \in 1..shown.totalPages /\ shown.totalPages \in Nat
             /\ shown.data = Slice(found, shown.page, PageSize)
<1>1. PICK n \in Nat : n = Len(rows) /\ DOMAIN rows = 1..n /\ Within(rows, 1..n, Posts)
  BY LenProperties, ElementOfSeq DEF Within
<1>2. PICK K : K = {i \in DOMAIN rows : ClientMatch(fs, rows[i])} /\ K \subseteq 1..n
  BY <1>1
<1>3. PICK found : found = Kept(rows, K) /\ found \in Seq(Posts) /\ Len(found) \in Nat
  BY <1>1, <1>2, KeptOfList
<1>4. PICK pages \in Nat : pages = Max({1, CeilDiv(Len(found), PageSize)}) /\ pages >= 1
  BY <1>3, PagesOf
<1>5. PICK page \in 1..pages : page = Min({p, pages})
  <2>1. Min({p, pages}) = IF p <= pages THEN p ELSE pages
    BY MinOf
  <2>2. Min({p, pages}) \in 1..pages
    BY <1>4, <2>1
  <2> QED
    BY <2>2
<1>6. ClientPage(fs, rows) = [data |-> Slice(found, page, PageSize), page |-> page,
                              totalPages |-> pages]
  BY <1>2, <1>3, <1>4, <1>5 DEF ClientPage
<1> QED
  BY <1>2, <1>3, <1>4, <1>5, <1>6

\* The pager leads to pages there are.
LEMMA PageTurned ==
  ASSUME ListInv, list # None, FiltersInv, NEW p \in 1..Len(Table), PageChange(p)
  PROVE  FiltersInv'
<1>1. /\ filters' = [filters EXCEPT !.page = p] /\ UNCHANGED <<url, nav>> /\ unchanged' = FALSE
      /\ Showing /\ p \in 1..PostsShown.totalPages
  BY DEF PageChange
<1>2. p \in Nat \ {0} /\ filters \in ChosenFilters
  BY TableFact DEF FiltersInv
<1>3. filters' \in ChosenFilters
  BY <1>1, <1>2, Zenon DEF ChosenFilters
<1>4. /\ filters'.page = p /\ filters'.srv = filters.srv /\ filters'.order = filters.order
      /\ filters'.day = filters.day /\ filters'.tags = filters.tags
  BY <1>1, <1>2 DEF ChosenFilters
<1>5. p <= Max({1, Len(Table)})
  BY TableFact, MaxOf
<1>6. ASSUME ~ByClient(filters) PROVE p <= LastPage(filters, url)'
  <2>1. list.data = Request(filters)
    BY <1>1 DEF ListInv, ListGiven, Showing
  <2>2. PostsShown.totalPages = CeilDiv(Len(Found(Active)), PageSize)
    BY <1>2, <1>6, <2>1, ServerPage
  <2>3. PICK fs : fs = [filters' EXCEPT !.status = url]
    OBVIOUS
  <2>4. fs.srv = filters.srv /\ fs.order = filters.order /\ fs.status = url
    BY <1>3, <1>4, <2>3 DEF ChosenFilters
  <2>5. Active.srv = filters.srv /\ Active.order = filters.order /\ Active.status = url
    BY <1>2 DEF Active, ChosenFilters
  <2>6. Found(fs) = Found(Active)
    BY <2>4, <2>5, FoundByFilters
  <2>7. PICK n \in Nat : n = Len(Found(Active))
    BY FoundFact
  <2>8. LastPage(filters, url)' = Max({1, CeilDiv(n, PageSize)})
    BY <1>1, <2>3, <2>6, <2>7 DEF LastPage
  <2> QED
    BY <1>1, <2>2, <2>7, <2>8, PagesOf
<1>7. ByClient(filters)' = ByClient(filters)
  BY <1>4 DEF ByClient
<1> QED
  BY <1>1, <1>3, <1>4, <1>5, <1>6, <1>7 DEF FiltersInv

LEMMA FiltersInvariance == FairSpec => []FiltersInv
<1>1. Init => FiltersInv
  <2>1. ASSUME Init PROVE /\ url = None /\ nav = <<>> /\ filters = NoFilters(None)
                          /\ unchanged = FALSE
    BY <2>1 DEF Init, ExploreUnmounted
  <2> QED
    BY <2>1, NoFiltersFit DEF FiltersInv
<1>2. FiltersInv /\ ListInv /\ [Next]_readingVars => FiltersInv'
  <2> SUFFICES ASSUME FiltersInv, ListInv, [Next]_readingVars PROVE FiltersInv'
    OBVIOUS
  <2>1. CASE UNCHANGED <<url, nav, filters>> /\ unchanged' \in BOOLEAN
    BY <2>1 DEF FiltersInv, LastPage, ByClient
  <2>2. CASE ExploreUnmount
    <3>1. /\ url' = None /\ nav' = <<>> /\ filters' = NoFilters(None) /\ unchanged' = FALSE
      BY <2>2 DEF ExploreUnmount
    <3>2. LastPage(filters, url)' = LastPage(NoFilters(None), None)
      BY <3>1 DEF LastPage
    <3> QED
      BY <3>1, <3>2, NoFiltersFit DEF FiltersInv
  <2>3. CASE ExploreNext
    <3>1. /\ filters \in ChosenFilters /\ url \in Statuses \cup {None}
          /\ \A s \in Statuses \cup {None} : <<s>>[1] = s
      BY DEF FiltersInv
    <3>2. PICK a : a = Active /\ a \in ChosenFilters
      <4>1. [filters EXCEPT !.status = url] \in ChosenFilters
        BY <3>1, Zenon DEF ChosenFilters
      <4> QED
        BY <4>1 DEF Active
    <3>3. ASSUME NEW f \in SrvFilters \cup {None}, CommitFilter(f) PROVE FiltersInv'
      <4>1. PICK new : new = [a EXCEPT !.srv = f, !.page = 1]
        OBVIOUS
      <4>2. new \in ChosenFilters /\ new.page = 1
        <5>1. [a EXCEPT !.srv = f, !.page = 1] \in ChosenFilters
          <6>1. 1 \in Nat \ {0}
            OBVIOUS
          <6> QED
            BY <3>2, <6>1, Zenon DEF ChosenFilters
        <5> QED
          BY <3>2, <4>1, <5>1 DEF ChosenFilters
      <4> QED
        BY <3>2, <3>3, <4>1, <4>2, NewFilters DEF CommitFilter
    <3>4. ASSUME NEW o \in {"latest", "endingSoon"}, ChooseOrder(o) PROVE FiltersInv'
      <4>1. PICK new : new = [a EXCEPT !.order = o, !.page = 1]
        OBVIOUS
      <4>2. new \in ChosenFilters /\ new.page = 1
        <5>1. [a EXCEPT !.order = o, !.page = 1] \in ChosenFilters
          <6>1. 1 \in Nat \ {0}
            OBVIOUS
          <6> QED
            BY <3>2, <6>1, Zenon DEF ChosenFilters
        <5> QED
          BY <3>2, <4>1, <5>1 DEF ChosenFilters
      <4> QED
        BY <3>2, <3>4, <4>1, <4>2, NewFilters DEF ChooseOrder
    <3>5. ASSUME NEW s \in Statuses \cup {None}, ChooseStatus(s) PROVE FiltersInv'
      <4>1. PICK new : new = [a EXCEPT !.status = s, !.page = 1]
        OBVIOUS
      <4>2. new \in ChosenFilters /\ new.page = 1
        <5>1. [a EXCEPT !.status = s, !.page = 1] \in ChosenFilters
          <6>1. 1 \in Nat \ {0}
            OBVIOUS
          <6> QED
            BY <3>2, <6>1, Zenon DEF ChosenFilters
        <5> QED
          BY <3>2, <4>1, <5>1 DEF ChosenFilters
      <4> QED
        BY <3>2, <3>5, <4>1, <4>2, NewFilters DEF ChooseStatus
    <3>6. ASSUME NEW d \in Days \cup {None}, ChooseDay(d) PROVE FiltersInv'
      <4>1. PICK new : new = [a EXCEPT !.day = d, !.page = 1]
        OBVIOUS
      <4>2. new \in ChosenFilters /\ new.page = 1
        <5>1. [a EXCEPT !.day = d, !.page = 1] \in ChosenFilters
          <6>1. 1 \in Nat \ {0}
            OBVIOUS
          <6> QED
            BY <3>2, <6>1, Zenon DEF ChosenFilters
        <5> QED
          BY <3>2, <4>1, <5>1 DEF ChosenFilters
      <4> QED
        BY <3>2, <3>6, <4>1, <4>2, NewFilters DEF ChooseDay
    <3>7. ASSUME NEW g \in Tags, ToggleTag(g) PROVE FiltersInv'
      <4>1. PICK tags \in SUBSET Tags : tags = IF g \in a.tags THEN a.tags \ {g}
                                               ELSE a.tags \cup {g}
        BY <3>2 DEF ChosenFilters
      <4>2. PICK new : new = [a EXCEPT !.tags = tags, !.page = 1]
        OBVIOUS
      <4>3. new \in ChosenFilters /\ new.page = 1
        <5>1. [a EXCEPT !.tags = tags, !.page = 1] \in ChosenFilters
          <6>1. 1 \in Nat \ {0}
            OBVIOUS
          <6> QED
            BY <3>2, <6>1, Zenon DEF ChosenFilters
        <5> QED
          BY <3>2, <4>2, <5>1 DEF ChosenFilters
      <4> QED
        BY <3>2, <3>7, <4>1, <4>2, <4>3, NewFilters DEF ToggleTag
    <3>8. CASE ResetFilters
      BY <3>8, NoFiltersFit, NewFilters DEF ResetFilters
    <3>9. CASE Retry
      BY <2>1, <3>9 DEF Retry
    <3>10. ASSUME NEW p \in 1..Len(Table), PageChange(p) PROVE FiltersInv'
      BY <3>10, PageTurned DEF PageChange, Showing
    <3>11. ASSUME NEW c, ListAnswered(c) PROVE FiltersInv'
      <4>1. unchanged' = unchanged /\ unchanged \in BOOLEAN
        BY <3>11 DEF ListAnswered, FiltersInv
      <4> QED
        BY <2>1, <3>11, <4>1 DEF ListAnswered
    <3>12. ASSUME NEW s \in Statuses \cup {None}, Visit(s) PROVE FiltersInv'
      BY <3>12, FiltersMounted DEF Visit
    <3>13. CASE Arrive
      <4>1. nav # <<>> /\ ExploreMount(nav[1])
        BY <3>13 DEF Arrive
      <4>2. PICK s \in Statuses \cup {None} : nav = <<s>>
        BY <4>1 DEF FiltersInv
      <4> QED
        BY <3>1, <4>1, <4>2, FiltersMounted
    <3> QED
      BY <2>3, <3>3, <3>4, <3>5, <3>6, <3>7, <3>8, <3>9, <3>10, <3>11, <3>12, <3>13
         DEF ExploreNext
  <2>4. CASE OpenExplore
    BY <2>4, FiltersMounted DEF OpenExplore
  <2>5. CASE UNCHANGED exploreVars
    BY <2>1, <2>5 DEF exploreVars, FiltersInv
  <2> QED
    BY <2>2, <2>3, <2>4, <2>5
       DEF Next, OpenHome, OpenSlides, Leave, readingVars
<1> QED
  BY <1>1, <1>2, ListInvariance, PTL DEF FairSpec

\* For any table, sizes of pages and numbers in the pager (PagerIsSound).
THEOREM PagersAreSound == FairSpec => []PagerIsSound
<1>1. ASSUME ListInv, FiltersInv PROVE PagerIsSound
  <2> SUFFICES ASSUME Showing, PostsShown.data # <<>>
               PROVE  Sound(VisiblePages(PostsShown.page, PostsShown.totalPages),
                            PostsShown.page, PostsShown.totalPages)
    BY DEF PagerIsSound, Sound
  <2>1. list.data = Request(filters) /\ filters \in ChosenFilters
    BY <1>1 DEF ListInv, ListGiven, Showing, FiltersInv
  <2>2. PICK p \in Nat \ {0} : p = filters.page
    BY <2>1 DEF ChosenFilters
  <2>3. PostsShown.totalPages \in Nat /\ PostsShown.page \in 1..PostsShown.totalPages
    <3>1. CASE ~ByClient(filters)
      <4>1. PICK found \in Seq(Posts) : found = Found(Active) /\ Len(found) \in Nat
        BY FoundFact
      <4>2. /\ PostsShown.data = Slice(found, p, PageSize) /\ PostsShown.page = p
            /\ PostsShown.totalPages = CeilDiv(Len(found), PageSize)
        BY <2>1, <2>2, <3>1, <4>1, ServerPage
      <4>3. (p - 1) * PageSize < Len(found)
        BY <4>1, <4>2, PageSizes, PageOfList
      <4>4. CeilDiv(Len(found), PageSize) \in Nat /\ p <= CeilDiv(Len(found), PageSize)
        BY <4>1, <4>3, PageSizes, PagesNeeded
      <4> QED
        BY <4>2, <4>4
    <3>2. CASE ByClient(filters)
      <4>1. PICK rows \in Seq(Posts) : PostsShown = ClientPage(filters, rows)
        BY <2>1, <3>2, BrowserPage
      <4> QED
        BY <2>2, <4>1, ClientPageFact
    <3> QED
      BY <3>1, <3>2
  <2> QED
    BY <2>3, PagerNames
<1> QED
  BY <1>1, ListInvariance, FiltersInvariance, PTL

\* For any table and sizes of pages, whatever is chosen in whatever order (CardsMatchFilters).
THEOREM CardsAreWhatWasAsked == FairSpec => []CardsMatchFilters
<1>1. ASSUME ListInv, FiltersInv PROVE CardsMatchFilters
  <2>0. PICK n \in Nat : n = Len(Table)
    BY TableFact
  <2>1. PICK posts, K, H :
          /\ n = Len(Table) /\ posts = Ordered(Active)
          /\ DOMAIN posts = 1..n /\ DOMAIN Table = 1..n /\ Within(posts, 1..n, Posts)
          /\ K = {i \in 1..n : Matches(Active, posts[i])}
          /\ H = {i \in 1..n : Matches(Active, posts[i]) /\ ClientMatch(Active, posts[i])}
          /\ H \subseteq 1..n
    BY <2>0, TableFact, OrderedFact
  <2>2. Found(Active) = Kept(posts, K) /\ Found(Active) \in Seq(Posts) /\ K \in SUBSET (1..n)
    BY <2>1, FoundFact DEF Found
  <2>3. PICK all : all = Kept(posts, H) /\ all \in Seq(Posts) /\ Len(all) \in Nat
    <3>1. Within(posts, 1..n, Posts) /\ H \subseteq 1..n
      BY <2>1
    <3>2. Kept(posts, H) \in Seq(Posts) /\ Len(Kept(posts, H)) \in Nat
      BY <3>1, KeptOfList
    <3> QED
      BY <3>2
  <2>4. PICK last \in Nat : last = Max({1, CeilDiv(Len(all), PageSize)}) /\ last >= 1
    BY <2>3, PagesOf
  <2>5. SUFFICES ASSUME Showing, Len(Found(Active)) <= ServerMax
                 PROVE  /\ PostsShown.data = Slice(all, Min({filters.page, last}), PageSize)
                        /\ PostsShown.page <= last
    BY <2>1, <2>3, <2>4 DEF CardsMatchFilters
  <2>6. list.data = Request(filters) /\ filters \in ChosenFilters
    BY <1>1, <2>5 DEF ListInv, ListGiven, Showing, FiltersInv
  <2>7. PICK p \in Nat \ {0} : p = filters.page
    BY <2>6 DEF ChosenFilters
  <2>8. \A post : ClientMatch(Active, post) = ClientMatch(filters, post)
    <3>1. Active.day = filters.day /\ Active.tags = filters.tags
      BY <2>6 DEF Active, ChosenFilters
    <3> QED
      BY <3>1 DEF ClientMatch
  <2>9. CASE ~ByClient(filters)
    <3>1. \A post : ClientMatch(filters, post)
      BY <2>9 DEF ByClient, ClientMatch
    <3>2. all = Found(Active)
      <4>1. H = K
        BY <2>1, <2>8, <3>1
      <4> QED
        BY <2>2, <2>3, <4>1
    <3>3. PostsShown.data = Slice(all, p, PageSize) /\ PostsShown.page = p
      BY <2>6, <2>7, <2>9, <3>2, ServerPage
    <3>4. p <= last
      BY <1>1, <2>4, <2>7, <2>9, <3>2 DEF FiltersInv, LastPage, Active
    <3>5. Min({p, last}) = p
      BY <3>4, MinOf
    <3> QED
      BY <2>7, <3>3, <3>4, <3>5
  <2>10. CASE ByClient(filters)
    <3>1. PICK rows \in Seq(Posts) : /\ rows = Slice(Found(Active), 1, ServerMax)
                                     /\ PostsShown = ClientPage(filters, rows)
      BY <2>6, <2>10, BrowserPage
    <3>2. rows = Kept(posts, K)
      BY <2>2, <2>5, <3>1, PageSizes, WholePage
    <3>3. PICK M : M = {post \in Posts : ClientMatch(filters, post)}
      OBVIOUS
    <3>4. PICK J : J = {i \in DOMAIN rows : ClientMatch(filters, rows[i])}
      OBVIOUS
    <3>5. ThoseIn(J, rows, DOMAIN rows, M)
      <4>1. \A i \in DOMAIN rows : rows[i] \in Posts
        BY ElementOfSeq, LenProperties
      <4> QED
        BY <3>3, <3>4, <4>1 DEF ThoseIn
    <3>6. ThoseIn(H, posts, K, M)
      BY <2>1, <2>8, <3>3 DEF Within, ThoseIn
    <3>7. Kept(rows, J) = all
      <4>1. Kept(rows, J) = Kept(posts, H)
        <5>1. Positions(K, n)
          BY <2>2 DEF Positions
        <5> QED
          BY <3>2, <3>5, <3>6, <5>1, KeptTwice
      <4> QED
        BY <2>3, <4>1
    <3>8. /\ PostsShown.totalPages = last
          /\ PostsShown.page = Min({p, last}) /\ PostsShown.page \in 1..last
          /\ PostsShown.data = Slice(all, PostsShown.page, PageSize)
      <4>1. Kept(rows, {i \in DOMAIN rows : ClientMatch(filters, rows[i])}) = all
        BY <3>4, <3>7
      <4>2. /\ PostsShown.totalPages = Max({1, CeilDiv(Len(all), PageSize)})
            /\ PostsShown.page = Min({p, PostsShown.totalPages})
            /\ PostsShown.page \in 1..PostsShown.totalPages
            /\ PostsShown.data = Slice(all, PostsShown.page, PageSize)
        BY <2>7, <3>1, <4>1, ClientPageFact
      <4> QED
        BY <2>4, <4>2
    <3> QED
      BY <2>7, <3>8
  <2> QED
    BY <2>9, <2>10
<1> QED
  BY <1>1, ListInvariance, FiltersInvariance, PTL

-----------------------------------------------------------------------------
(* Recommendations. *)

\* No call goes out before checkAuth is back; one that is heard was made for the user shown; and
\* what was answered last was picked for that user, unless the feed is waiting or failed.
AuthWaits == auth.loading => feed.loading /\ feed.calls = {}
FeedAsked == \A c \in feed.calls : c.live => c.req = [user |-> auth.user, pool |-> c.req.pool]
FeedGiven == ~feed.loading /\ ~feed.error => feed.data.user = auth.user
FeedInv == \/ feed = None /\ auth = None
           \/ /\ IsFetch(feed) /\ auth = [user |-> auth.user, loading |-> auth.loading]
              /\ AuthWaits /\ FeedAsked /\ FeedGiven

\* A fetch that waits for the user now shown keeps the invariant.
LEMMA FeedStarts ==
  ASSUME NEW user, auth' = [user |-> user, loading |-> FALSE], IsFetch(feed'), feed'.loading,
         \A c \in feed'.calls : c.live => c.req = Asked(user)
  PROVE  FeedInv'
<1>1. auth'.user = user /\ auth'.loading = FALSE
  OBVIOUS
<1>2. Asked(user) = [user |-> user, pool |-> Asked(user).pool]
  BY DEF Asked
<1> QED
  BY <1>1, <1>2 DEF FeedInv, AuthWaits, FeedAsked, FeedGiven

LEMMA FeedMounted == ASSUME FeedMount PROVE FeedInv'
<1>1. CASE /\ auth' = [user |-> None, loading |-> TRUE]
           /\ feed' = [Mounted(None) EXCEPT !.calls = {}]
  <2>1. PICK m : m = Mounted(None)
    OBVIOUS
  <2>2. IsFetch(m) /\ m.loading = TRUE
    BY <2>1, MountedFetch
  <2>3. IsFetch(feed') /\ feed'.loading = TRUE /\ feed'.calls = {}
    BY <1>1, <2>1, <2>2 DEF IsFetch
  <2>4. auth' = [user |-> auth'.user, loading |-> auth'.loading]
    BY <1>1
  <2> QED
    BY <2>3, <2>4 DEF FeedInv, AuthWaits, FeedAsked, FeedGiven
<1>2. ASSUME NEW user, auth' = [user |-> user, loading |-> FALSE], feed' = Mounted(Asked(user))
      PROVE  FeedInv'
  <2>1. IsFetch(feed') /\ feed'.loading = TRUE /\ \A c \in feed'.calls : c.req = Asked(user)
    BY <1>2, MountedFetch
  <2> QED
    BY <1>2, <2>1, FeedStarts
<1> QED
  BY <1>1, <1>2 DEF FeedMount

\* The user shown changes: what was under way is given up.
LEMMA FeedShows ==
  ASSUME NEW user, IsFetch(feed), Shown(user), feed.loading \/ user # auth.user
  PROVE  FeedInv'
<1>1. PICK w, r : w = Waiting(feed) /\ r = Asked(user)
  OBVIOUS
<1>2. IsFetch(w) /\ w.loading = TRUE
  BY <1>1, WaitingFetch
<1>3. \/ feed' = Refetched(feed, r) /\ feed.loading = TRUE
      \/ feed' = Refetched(w, r)
  BY <1>1 DEF Shown, IsFetch
<1>4. IsFetch(feed') /\ feed'.loading = TRUE /\ \A c \in feed'.calls : c.live => c.req = r
  BY <1>2, <1>3, RefetchedFetch
<1> QED
  BY <1>1, <1>4, FeedStarts DEF Shown

\* What a request of the feed is made of.
LEMMA RequestOf ==
  ASSUME NEW r, NEW user, NEW pool, NEW old, r = [user |-> user, pool |-> old]
  PROVE  r.user = user /\ [r EXCEPT !.pool = pool] = [user |-> user, pool |-> pool]
OBVIOUS

\* The posts of a signed-in user's feed: the call goes on for the bookmarks.
LEMMA PoolPassedOn ==
  ASSUME FeedInv, feed # None, NEW c \in feed.calls, NEW pool, UNCHANGED auth,
         feed' = [feed EXCEPT !.calls = (@ \ {c}) \cup {[c EXCEPT !.req.pool = pool]}]
  PROVE  FeedInv'
<1>1. IsFetch(feed) /\ AuthWaits /\ FeedAsked /\ FeedGiven
  BY DEF FeedInv
<1>2. PICK d : d = [c EXCEPT !.req.pool = pool]
  OBVIOUS
<1>3. c = [req |-> c.req, live |-> c.live] /\ c.live \in BOOLEAN
  BY <1>1 DEF IsFetch, IsCall
<1>4. d = [req |-> [c.req EXCEPT !.pool = pool], live |-> c.live]
  BY <1>2, <1>3
<1>5. d.live = c.live /\ d.req = [c.req EXCEPT !.pool = pool]
  BY <1>4
<1>6. IsCall(d)
  BY <1>3, <1>4, <1>5 DEF IsCall
<1>7. c.live => d.req = [user |-> auth.user, pool |-> d.req.pool]
  <2> SUFFICES ASSUME c.live PROVE d.req = [user |-> auth.user, pool |-> d.req.pool]
    OBVIOUS
  <2>1. PICK r, u, old : r = c.req /\ u = auth.user /\ old = c.req.pool
    OBVIOUS
  <2>2. r = [user |-> u, pool |-> old]
    BY <1>1, <2>1 DEF FeedAsked
  <2>3. d.req = [user |-> u, pool |-> pool]
    BY <1>5, <2>1, <2>2, RequestOf
  <2> QED
    BY <2>1, <2>3
<1>8. PICK cs : cs = (feed.calls \ {c}) \cup {d}
  OBVIOUS
<1>9. \A e \in cs : IsCall(e) /\ (e.live => e.req = [user |-> auth.user, pool |-> e.req.pool])
  BY <1>1, <1>5, <1>6, <1>7, <1>8 DEF IsFetch, FeedAsked
<1>10. feed' = [feed EXCEPT !.calls = cs]
  BY <1>2, <1>8
<1>11. /\ IsFetch(feed') /\ feed'.calls = cs /\ feed'.data = feed.data
       /\ feed'.loading = feed.loading /\ feed'.error = feed.error
  BY <1>1, <1>9, <1>10 DEF IsFetch
<1>12. ~auth.loading
  BY <1>1 DEF AuthWaits
<1> QED
  BY <1>1, <1>9, <1>11, <1>12 DEF FeedInv, AuthWaits, FeedAsked, FeedGiven

\* An answer picked for the call's own user, or a failure.
LEMMA FeedAnswer ==
  ASSUME FeedInv, feed # None, NEW c \in feed.calls, UNCHANGED auth, NEW data,
         c.live => data.user = c.req.user,
         feed' = Answered(feed, c, data) \/ feed' = Failed(feed, c)
  PROVE  FeedInv'
<1>1. PICK f, x : f = feed /\ x = feed'
  OBVIOUS
<1>2. /\ IsFetch(f) /\ c \in f.calls /\ ~auth.loading
      /\ \A d \in f.calls : d.live => d.req = [user |-> auth.user, pool |-> d.req.pool]
      /\ ~f.loading /\ ~f.error => f.data.user = auth.user
  BY <1>1 DEF FeedInv, AuthWaits, FeedAsked, FeedGiven
<1>3. c.live => data.user = auth.user
  <2> SUFFICES ASSUME c.live PROVE c.req.user = auth.user
    OBVIOUS
  <2>1. PICK r, u, old : r = c.req /\ u = auth.user /\ old = c.req.pool
    OBVIOUS
  <2>2. r = [user |-> u, pool |-> old]
    BY <1>1, <1>2, <2>1
  <2>3. r.user = u
    BY <2>2
  <2> QED
    BY <2>1, <2>3
<1>4. IsFetch(x) /\ (AnswerOf(x, f, c, data) \/ FailureOf(x, f, c))
  BY <1>1, <1>2, AnsweredFetch, FailedFetch
<1>5. /\ \A d \in x.calls : d.live => d.req = [user |-> auth.user, pool |-> d.req.pool]
      /\ ~x.loading /\ ~x.error => x.data.user = auth.user
  BY <1>2, <1>3, <1>4 DEF AnswerOf, FailureOf
<1> QED
  BY <1>1, <1>2, <1>4, <1>5 DEF FeedInv, AuthWaits, FeedAsked, FeedGiven

LEMMA PoolAnswer ==
  ASSUME FeedInv, feed # None, NEW c \in feed.calls, PoolAnswered(c)
  PROVE  FeedInv'
<1>1. CASE feed' = Failed(feed, c)
  <2>1. PICK data : data = [user |-> c.req.user]
    OBVIOUS
  <2>2. data.user = c.req.user
    BY <2>1
  <2> QED
    BY <1>1, <2>2, FeedAnswer DEF PoolAnswered
<1>2. ASSUME NEW pool,
             feed' = IF c.req.user = None THEN Answered(feed, c, Picked(None, pool, {}))
                     ELSE [feed EXCEPT !.calls = (@ \ {c}) \cup {[c EXCEPT !.req.pool = pool]}]
      PROVE  FeedInv'
  <2>1. CASE c.req.user = None
    <3>1. PICK data : data = Picked(None, pool, {})
      OBVIOUS
    <3>2. data.user = c.req.user
      BY <2>1, <3>1 DEF Picked
    <3> QED
      BY <1>2, <2>1, <3>1, <3>2, FeedAnswer DEF PoolAnswered
  <2>2. CASE c.req.user # None
    BY <1>2, <2>2, PoolPassedOn DEF PoolAnswered
  <2> QED
    BY <2>1, <2>2
<1> QED
  BY <1>1, <1>2 DEF PoolAnswered

\* A 401 shows nobody from now on, and what was under way for the user before is given up.
LEMMA SignedOut ==
  ASSUME FeedInv, feed # None, NEW c \in feed.calls, auth' = [auth EXCEPT !.user = None],
         feed' = LET rest == Taken(feed, c)
                 IN  IF auth.user = None THEN rest ELSE Refetched(Waiting(rest), Asked(None))
  PROVE  FeedInv'
<1>1. /\ IsFetch(feed) /\ auth = [user |-> auth.user, loading |-> auth.loading] /\ ~auth.loading
      /\ FeedAsked /\ FeedGiven
  BY DEF FeedInv, AuthWaits
<1>2. PICK rest : rest = Taken(feed, c)
  OBVIOUS
<1>3. /\ IsFetch(rest) /\ rest.calls = feed.calls \ {c} /\ rest.data = feed.data
      /\ rest.loading = feed.loading /\ rest.error = feed.error
  BY <1>1, <1>2 DEF Taken, IsFetch
<1>4. CASE auth.user = None
  <2>1. auth' = auth /\ feed' = rest
    BY <1>1, <1>2, <1>4
  <2> QED
    BY <1>1, <1>3, <2>1 DEF FeedInv, AuthWaits, FeedAsked, FeedGiven
<1>5. CASE auth.user # None
  <2>1. PICK w, r : w = Waiting(rest) /\ r = Asked(None)
    OBVIOUS
  <2>2. IsFetch(w) /\ w.loading = TRUE
    BY <1>3, <2>1, WaitingFetch
  <2>3. feed' = Refetched(w, r)
    BY <1>2, <1>5, <2>1
  <2>4. IsFetch(feed') /\ feed'.loading = TRUE /\ \A d \in feed'.calls : d.live => d.req = r
    BY <2>2, <2>3, RefetchedFetch
  <2>5. auth' = [user |-> None, loading |-> auth.loading]
    BY <1>1
  <2>6. auth'.user = None /\ auth'.loading = auth.loading
    BY <2>5
  <2>7. r = [user |-> None, pool |-> r.pool]
    BY <2>1 DEF Asked
  <2> QED
    BY <1>1, <2>4, <2>5, <2>6, <2>7 DEF FeedInv, AuthWaits, FeedAsked, FeedGiven
<1> QED
  BY <1>4, <1>5

LEMMA BookmarksAnswer ==
  ASSUME FeedInv, feed # None, NEW c \in feed.calls, BookmarksAnswered(c)
  PROVE  FeedInv'
<1>1. ASSUME NEW marked, feed' = Answered(feed, c, Picked(c.req.user, c.req.pool, marked)),
             UNCHANGED auth
      PROVE  FeedInv'
  <2>1. PICK data : data = Picked(c.req.user, c.req.pool, marked)
    OBVIOUS
  <2>2. data.user = c.req.user
    BY <2>1 DEF Picked
  <2> QED
    BY <1>1, <2>1, <2>2, FeedAnswer
<1> QED
  BY <1>1, SignedOut DEF BookmarksAnswered

LEMMA FeedInvariance == FairSpec => []FeedInv
<1>1. Init => FeedInv
  BY DEF Init, HomeUnmounted, FeedInv
<1>2. FeedInv /\ [Next]_readingVars => FeedInv'
  <2> SUFFICES ASSUME FeedInv, [Next]_readingVars PROVE FeedInv'
    OBVIOUS
  <2>1. CASE UNCHANGED <<auth, feed>>
    BY <2>1 DEF FeedInv, IsFetch, AuthWaits, FeedAsked, FeedGiven
  <2>2. CASE feed' = None /\ auth' = None
    BY <2>2 DEF FeedInv
  <2>3. CASE FeedMount
    BY <2>3, FeedMounted
  <2>4. WeekNext => UNCHANGED <<auth, feed>>
    BY DEF WeekNext, WeekAnswered, LineAnswered, WeekRetry, LineRetry
  <2>5. CASE FeedNext
    <3>1. ASSUME NEW user, AuthKnown(user) \/ AuthChanges(user) PROVE FeedInv'
      <4>1. auth # None /\ Shown(user) /\ (auth.loading \/ user # auth.user)
        BY <3>1 DEF AuthKnown, AuthChanges
      <4>2. IsFetch(feed) /\ (auth.loading => feed.loading)
        BY <4>1 DEF FeedInv, AuthWaits
      <4> QED
        BY <4>1, <4>2, FeedShows
    <3> QED
      BY <2>5, <3>1, PoolAnswer, BookmarksAnswer DEF FeedNext
  <2> QED
    BY <2>1, <2>2, <2>3, <2>4, <2>5
       DEF Next, OpenExplore, OpenHome, OpenSlides, Leave, HomeUnmount, WeekMount, HomeNext,
           readingVars, homeVars
<1> QED
  BY <1>1, <1>2, PTL DEF FairSpec

\* Whoever signs in or out while posts and bookmarks are fetched, and however calls given up
\* return (FeedIsTheUsers).
THEOREM FeedsAreTheUsers == FairSpec => []FeedIsTheUsers
<1>1. FeedInv => FeedIsTheUsers
  BY DEF FeedInv, FeedGiven, FeedIsTheUsers
<1> QED
  BY <1>1, FeedInvariance, PTL

-----------------------------------------------------------------------------
(* Lists that repeat nothing. *)

\* A list of each of S, once.
EachOnce(l, S) == l \in Seq(S) /\ IsInjective(l) /\ ToSet(l) = S

LEMMA EachFact ==
  ASSUME NEW l, NEW S, EachOnce(l, S)
  PROVE  \E n \in Nat : /\ n = Len(l) /\ DOMAIN l = 1..n
                        /\ \A i \in 1..n : l[i] \in S
                        /\ \A i, j \in 1..n : l[i] = l[j] => i = j
                        /\ \A x \in S : \E i \in 1..n : l[i] = x
<1>1. l \in Seq(S) /\ IsInjective(l) /\ ToSet(l) = S
  BY DEF EachOnce
<1>2. PICK n \in Nat : n = Len(l) /\ DOMAIN l = 1..n
  BY <1>1, LenProperties
<1>3. \A i, j \in 1..n : l[i] = l[j] => i = j
  BY <1>1, <1>2 DEF IsInjective
<1>4. /\ \A i \in 1..n : l[i] \in S
      /\ \A x \in S : \E i \in 1..n : l[i] = x
  BY <1>1, <1>2 DEF ToSet
<1> QED
  BY <1>2, <1>3, <1>4

LEMMA EachShown ==
  ASSUME NEW l, NEW S, NEW n \in Nat, l \in [1..n -> S],
         \A i, j \in 1..n : l[i] = l[j] => i = j, \A x \in S : \E i \in 1..n : l[i] = x
  PROVE  EachOnce(l, S) /\ Len(l) = n
<1>1. l \in Seq(S)
  BY SeqDef
<1>2. Len(l) \in Nat /\ DOMAIN l = 1..Len(l) /\ DOMAIN l = 1..n
  BY <1>1, LenProperties
<1>3. Len(l) = n
  BY <1>2
<1>4. IsInjective(l)
  BY <1>2 DEF IsInjective
<1>5. ToSet(l) = S
  BY <1>2 DEF ToSet
<1> QED
  BY <1>1, <1>3, <1>4, <1>5 DEF EachOnce

\* Two lists of the same are as long.
LEMMA EachAsLong ==
  ASSUME NEW l, NEW S, EachOnce(l, S)
  PROVE  IsFiniteSet(S) /\ Len(l) = Cardinality(S)
<1>1. PICK n \in Nat : /\ n = Len(l) /\ DOMAIN l = 1..n
                       /\ \A i \in 1..n : l[i] \in S
                       /\ \A i, j \in 1..n : l[i] = l[j] => i = j
                       /\ \A x \in S : \E i \in 1..n : l[i] = x
  BY EachFact
<1>2. IsFiniteSet(1..n) /\ Cardinality(1..n) = n
  BY FS_Interval
<1>3. OneToOne(l, 1..n, S)
  BY <1>1 DEF OneToOne
<1>4. Cardinality(S) = n
  BY <1>2, <1>3, AsMany
<1>5. PICK f : f = [i \in 1..n |-> l[i]]
  OBVIOUS
<1>6. f \in Surjection(1..n, S)
  BY <1>1, <1>5 DEF Surjection
<1>7. IsFiniteSet(S)
  BY <1>2, <1>6, FS_Surjection
<1> QED
  BY <1>1, <1>4, <1>7

\* What is arranged of such a list is one.
LEMMA ArrangedEach ==
  ASSUME NEW K, IsFiniteSet(K), NEW ahead, IsOrder(K, ahead), NEW s, NEW l,
         l = Arranged(s, ahead), NEW S, OneToOne(s, K, S)
  PROVE  EachOnce(l, S)
<1>0. /\ \A p \in K : s[p] \in S
      /\ \A p, q \in K : s[p] = s[q] => p = q
      /\ \A x \in S : \E p \in K : s[p] = x
  BY DEF OneToOne
<1>1. PICK at : ComesFrom(l, s, K, ahead, at)
  BY ArrangedComes
<1>2. PICK n \in Nat : n = Cardinality(K)
  BY PlacesTaken
<1>3. /\ at \in [1..n -> K] /\ l = [i \in 1..n |-> s[at[i]]]
      /\ \A i \in 1..n : Cardinality(ahead[at[i]]) = i - 1
      /\ \A p \in K : \E i \in 1..n : at[i] = p
  BY <1>1, <1>2 DEF ComesFrom
<1>4. l \in [1..n -> S]
  BY <1>0, <1>3
<1>5. ASSUME NEW i \in 1..n, NEW j \in 1..n, l[i] = l[j] PROVE i = j
  <2>1. at[i] = at[j]
    BY <1>0, <1>3, <1>5
  <2>2. i - 1 = j - 1
    BY <1>3, <2>1
  <2> QED
    BY <2>2
<1>6. ASSUME NEW x \in S PROVE \E i \in 1..n : l[i] = x
  <2>1. PICK p \in K : s[p] = x
    BY <1>0
  <2>2. PICK i \in 1..n : at[i] = p
    BY <1>3
  <2> QED
    BY <1>3, <2>1, <2>2
<1> QED
  BY <1>4, <1>5, <1>6, EachShown

\* What a filter leaves of such a list.
LEMMA WithoutEach ==
  ASSUME NEW s, NEW S, EachOnce(s, S), NEW ps
  PROVE  EachOnce(Without(s, ps), S \ ps)
<1>1. PICK n \in Nat : /\ n = Len(s) /\ DOMAIN s = 1..n
                       /\ \A i \in 1..n : s[i] \in S
                       /\ \A i, j \in 1..n : s[i] = s[j] => i = j
                       /\ \A x \in S : \E i \in 1..n : s[i] = x
  BY EachFact
<1>2. PICK K : K = {i \in 1..n : s[i] \notin ps}
  OBVIOUS
<1>3. K \in SUBSET (1..n) /\ \A i \in 1..n : i \in K <=> s[i] \notin ps
  BY <1>2
<1>4. IsFiniteSet(K) /\ K \in SUBSET Int
  BY <1>3, SomePositions
<1>5. Without(s, ps) = Arranged(s, Earlier(K))
  BY <1>1, <1>2 DEF Without, Kept, Earlier
<1>6. IsOrder(K, Earlier(K))
  BY <1>4, EarlierIsOrder
<1>7. OneToOne(s, K, S \ ps)
  BY <1>1, <1>3 DEF OneToOne
<1>8. EachOnce(Arranged(s, Earlier(K)), S \ ps)
  BY <1>4, <1>6, <1>7, ArrangedEach
<1> QED
  BY <1>5, <1>8

\* An order by one number, and then by another, the higher first, is one: a sort by it.
AboveOf(K, u, v) ==
  [p \in K |-> {q \in K : \/ u[q] > u[p] \/ (u[q] = u[p] /\ v[q] > v[p])
                          \/ ~(u[p] > u[q] \/ (u[p] = u[q] /\ v[p] > v[q])) /\ q < p}]

LEMMA AboveIsOrder ==
  ASSUME NEW K \in SUBSET Int, NEW u \in [K -> Int], NEW v \in [K -> Int]
  PROVE  IsOrder(K, AboveOf(K, u, v))
<1>1. PICK a : a = AboveOf(K, u, v)
  OBVIOUS
<1>2. a \in [K -> SUBSET K]
  BY <1>1 DEF AboveOf
<1>3. \A p, q \in K : q \in a[p] <=> \/ u[q] > u[p]
                                     \/ u[q] = u[p] /\ v[q] > v[p]
                                     \/ u[q] = u[p] /\ v[q] = v[p] /\ q < p
  BY <1>1 DEF AboveOf
<1>4. \A p \in K : p \notin a[p]
  BY <1>3
<1>5. \A p, q \in K : p # q => q \in a[p] \/ p \in a[q]
  BY <1>3
<1>6. ASSUME NEW p \in K, NEW q \in K, q \in a[p] PROVE a[q] \subseteq a[p]
  <2>1. ASSUME NEW r \in a[q] PROVE r \in a[p]
    <3>1. r \in K
      BY <1>2, <2>1
    <3>2. \/ u[r] > u[q]
          \/ u[r] = u[q] /\ v[r] > v[q]
          \/ u[r] = u[q] /\ v[r] = v[q] /\ r < q
      BY <1>3, <2>1, <3>1
    <3>3. \/ u[q] > u[p]
          \/ u[q] = u[p] /\ v[q] > v[p]
          \/ u[q] = u[p] /\ v[q] = v[p] /\ q < p
      BY <1>3, <1>6
    <3>4. \/ u[r] > u[p]
          \/ u[r] = u[p] /\ v[r] > v[p]
          \/ u[r] = u[p] /\ v[r] = v[p] /\ r < p
      BY <3>1, <3>2, <3>3
    <3> QED
      BY <1>3, <3>1, <3>4
  <2> QED
    BY <2>1
<1>7. IsOrder(K, a)
  BY <1>2, <1>4, <1>5, <1>6 DEF IsOrder
<1> QED
  BY <1>1, <1>7

\* A sorted list of each is one.
LEMMA SortedEach ==
  ASSUME NEW s, NEW S, EachOnce(s, S), NEW u \in [DOMAIN s -> Int], NEW v \in [DOMAIN s -> Int]
  PROVE  EachOnce(Arranged(s, AboveOf(DOMAIN s, u, v)), S)
<1>1. PICK n \in Nat : /\ n = Len(s) /\ DOMAIN s = 1..n
                       /\ \A i \in 1..n : s[i] \in S
                       /\ \A i, j \in 1..n : s[i] = s[j] => i = j
                       /\ \A x \in S : \E i \in 1..n : s[i] = x
  BY EachFact
<1>2. IsFiniteSet(1..n) /\ 1..n \in SUBSET Int
  BY FS_Interval
<1>3. IsOrder(1..n, AboveOf(1..n, u, v))
  BY <1>1, <1>2, AboveIsOrder
<1>4. OneToOne(s, 1..n, S)
  BY <1>1 DEF OneToOne
<1> QED
  BY <1>1, <1>2, <1>3, <1>4, ArrangedEach

\* One after the other.
LEMMA JoinedEach ==
  ASSUME NEW s, NEW S, EachOnce(s, S), NEW t, NEW T, EachOnce(t, T), S \cap T = {}
  PROVE  EachOnce(s \o t, S \cup T)
<1>1. PICK m \in Nat : /\ m = Len(s) /\ DOMAIN s = 1..m
                       /\ \A i \in 1..m : s[i] \in S
                       /\ \A i, j \in 1..m : s[i] = s[j] => i = j
                       /\ \A x \in S : \E i \in 1..m : s[i] = x
  BY EachFact
<1>2. PICK n \in Nat : /\ n = Len(t) /\ DOMAIN t = 1..n
                       /\ \A i \in 1..n : t[i] \in T
                       /\ \A i, j \in 1..n : t[i] = t[j] => i = j
                       /\ \A x \in T : \E i \in 1..n : t[i] = x
  BY EachFact
<1>3. PICK u : u = s \o t
  OBVIOUS
<1>4. /\ DOMAIN u = 1..(m + n) /\ u \in Seq(S \cup T)
      /\ \A i \in 1..(m + n) : u[i] = IF i <= m THEN s[i] ELSE t[i - m]
  <2>1. s \in Seq(S \cup T) /\ t \in Seq(S \cup T)
    BY DEF EachOnce
  <2>2. /\ u \in Seq(S \cup T) /\ Len(u) = m + n
        /\ \A i \in 1..(m + n) : u[i] = IF i <= m THEN s[i] ELSE t[i - m]
    BY <1>1, <1>2, <1>3, <2>1, ConcatProperties
  <2> QED
    BY <2>2, LenProperties
<1>5. ASSUME NEW i \in 1..(m + n)
      PROVE  \/ i \in 1..m /\ u[i] = s[i] /\ u[i] \in S
             \/ i - m \in 1..n /\ u[i] = t[i - m] /\ u[i] \in T
  <2>1. CASE i <= m
    BY <1>1, <1>4, <2>1
  <2>2. CASE ~(i <= m)
    <3>1. i - m \in 1..n /\ u[i] = t[i - m]
      BY <1>4, <2>2
    <3> QED
      BY <1>2, <3>1
  <2> QED
    BY <2>1, <2>2
<1>6. u \in [1..(m + n) -> S \cup T]
  BY <1>4, LenProperties
<1>7. ASSUME NEW i \in 1..(m + n), NEW j \in 1..(m + n), u[i] = u[j] PROVE i = j
  <2>1. CASE i \in 1..m /\ u[i] = s[i] /\ u[i] \in S
    <3>1. j \in 1..m /\ u[j] = s[j]
      BY <1>5, <1>7, <2>1
    <3> QED
      BY <1>1, <1>7, <2>1, <3>1
  <2>2. CASE i - m \in 1..n /\ u[i] = t[i - m] /\ u[i] \in T
    <3>1. j - m \in 1..n /\ u[j] = t[j - m]
      BY <1>5, <1>7, <2>2
    <3>2. i - m = j - m
      BY <1>2, <1>7, <2>2, <3>1
    <3> QED
      BY <3>2
  <2> QED
    BY <1>5, <2>1, <2>2
<1>8. ASSUME NEW x \in S \cup T PROVE \E i \in 1..(m + n) : u[i] = x
  <2>1. CASE x \in S
    <3>1. PICK i \in 1..m : s[i] = x
      BY <1>1, <2>1
    <3>2. i \in 1..(m + n) /\ u[i] = s[i]
      BY <1>4
    <3> QED
      BY <3>1, <3>2
  <2>2. CASE x \in T
    <3>1. PICK k \in 1..n : t[k] = x
      BY <1>2, <2>2
    <3>2. PICK i \in 1..(m + n) : i = m + k /\ ~(i <= m) /\ i - m = k
      OBVIOUS
    <3>3. u[i] = t[k]
      BY <1>4, <3>2
    <3> QED
      BY <3>1, <3>3
  <2> QED
    BY <2>1, <2>2
<1>9. EachOnce(u, S \cup T)
  BY <1>6, <1>7, <1>8, EachShown
<1> QED
  BY <1>3, <1>9

\* The beginning of such a list.
LEMMA FirstsEach ==
  ASSUME NEW s, NEW S, EachOnce(s, S), NEW m \in Nat
  PROVE  \E F \in SUBSET S : /\ EachOnce(Firsts(s, m), F)
                             /\ Len(Firsts(s, m)) = Min({m, Len(s)})
                             /\ \A i \in 1..Len(s) : s[i] \in F <=> i <= m
<1>1. PICK n \in Nat : /\ n = Len(s) /\ DOMAIN s = 1..n
                       /\ \A i \in 1..n : s[i] \in S
                       /\ \A i, j \in 1..n : s[i] = s[j] => i = j
                       /\ \A x \in S : \E i \in 1..n : s[i] = x
  BY EachFact
<1>2. PICK k \in Nat : k = Min({m, Len(s)}) /\ k = IF m <= n THEN m ELSE n
  BY <1>1, MinOf
<1>3. PICK f : f = SubSeq(s, 1, k)
  OBVIOUS
<1>4. f = [i \in 1..k |-> s[i]]
  <2>1. k <= n
    BY <1>2
  <2>2. \A i \in 1..k : s[i] \in S
    BY <1>1, <2>1
  <2>3. /\ f \in Seq(S) /\ Len(f) = IF 1 <= k THEN k - 1 + 1 ELSE 0
        /\ \A i \in 1..(k - 1 + 1) : f[i] = s[1 + i - 1]
    BY <1>3, <2>2, SubSeqProperties
  <2>4. k - 1 + 1 = k /\ \A i \in 1..k : 1 + i - 1 = i
    OBVIOUS
  <2>5. Len(f) = k
    BY <2>3
  <2>6. f = [i \in 1..k |-> f[i]]
    BY <2>3, <2>5, LenProperties
  <2>7. \A i \in 1..k : f[i] = s[i]
    BY <2>3, <2>4
  <2> QED
    BY <2>6, <2>7
<1>5. PICK F : F = {s[i] : i \in 1..k}
  OBVIOUS
<1>6. F \in SUBSET S /\ k <= n
  BY <1>1, <1>2, <1>5
<1>7. /\ f \in [1..k -> F]
      /\ \A i, j \in 1..k : f[i] = f[j] => i = j
      /\ \A x \in F : \E i \in 1..k : f[i] = x
  BY <1>1, <1>4, <1>5, <1>6
<1>8. EachOnce(f, F) /\ Len(f) = k
  BY <1>7, EachShown
<1>9. ASSUME NEW i \in 1..n PROVE s[i] \in F <=> i <= m
  <2>1. s[i] \in F <=> i <= k
    BY <1>1, <1>5, <1>6
  <2> QED
    BY <1>2, <2>1
<1>10. f = Firsts(s, m)
  BY <1>2, <1>3 DEF Firsts
<1> QED
  BY <1>1, <1>2, <1>6, <1>8, <1>9, <1>10

-----------------------------------------------------------------------------
(* What the feed picks. *)

LEMMA HomeFact ==
  /\ IsFiniteSet(HomePosts)
  /\ \A p \in HomePosts : p.created \in Int /\ p.bookmarks \in Nat
  /\ \A table \in HomeTables : EachOnce(table, ToSet(table)) /\ ToSet(table) \in SUBSET HomePosts
  /\ FeedLimit \in Nat /\ PoolLimit \in Nat
<1>1. ASSUME NEW table \in HomeTables
      PROVE  EachOnce(table, ToSet(table)) /\ ToSet(table) \in SUBSET HomePosts
  <2>1. table \in Seq(HomePosts) /\ IsInjective(table)
    BY HomeAssumption
  <2>2. PICK n \in Nat : /\ n = Len(table) /\ DOMAIN table = 1..n
                         /\ \A i \in 1..n : table[i] \in HomePosts
    BY <2>1, LenProperties, ElementOfSeq
  <2>3. \A i, j \in 1..n : table[i] = table[j] => i = j
    BY <2>1, <2>2 DEF IsInjective
  <2>4. PICK S : S = ToSet(table) /\ S = {table[i] : i \in 1..n}
    BY <2>2 DEF ToSet
  <2>5. table \in [1..n -> S]
    <3>1. table \in [1..n -> HomePosts]
      BY <2>1, <2>2, LenProperties
    <3> QED
      BY <2>4, <3>1
  <2>6. EachOnce(table, S)
    BY <2>3, <2>4, <2>5, EachShown
  <2> QED
    BY <2>2, <2>4, <2>6
<1> QED
  BY <1>1, HomeAssumption

ByBookmarks(s) ==
  [p \in DOMAIN s |-> {q \in DOMAIN s : \/ s[q].bookmarks > s[p].bookmarks
                                        \/ ~(s[p].bookmarks > s[q].bookmarks) /\ q < p}]

LEMMA PopularEach ==
  ASSUME NEW table \in HomeTables
  PROVE  \E P \in SUBSET HomePosts : EachOnce(Popular(table), P)
<1>1. PICK S \in SUBSET HomePosts : EachOnce(table, S)
  BY HomeFact
<1>2. PICK K : K = DOMAIN table /\ \A i \in K : table[i] \in HomePosts
  BY <1>1, EachFact
<1>3. PICK u : u = [i \in K |-> table[i].bookmarks]
  OBVIOUS
<1>4. PICK v : v = [i \in K |-> 0]
  OBVIOUS
<1>5. u \in [K -> Int] /\ v \in [K -> Int]
  BY <1>2, <1>3, <1>4, HomeFact
<1>6. Popular(table) = Firsts(Arranged(table, ByBookmarks(table)), PoolLimit)
  BY DEF Popular, Sorted, ByBookmarks
<1>7. \A p \in K : table[p].bookmarks = u[p] /\ u[p] \in Int /\ v[p] = 0
  BY <1>2, <1>3, <1>4, <1>5
<1>8. ByBookmarks(table) = AboveOf(K, u, v)
  <2>1. ASSUME NEW p \in K, NEW q \in K
        PROVE  (\/ table[q].bookmarks > table[p].bookmarks
                \/ ~(table[p].bookmarks > table[q].bookmarks) /\ q < p)
               <=> (\/ u[q] > u[p] \/ (u[q] = u[p] /\ v[q] > v[p])
                    \/ ~(u[p] > u[q] \/ (u[p] = u[q] /\ v[p] > v[q])) /\ q < p)
    BY <1>7
  <2>2. ASSUME NEW p \in K
        PROVE  {q \in K : \/ table[q].bookmarks > table[p].bookmarks
                          \/ ~(table[p].bookmarks > table[q].bookmarks) /\ q < p}
               = {q \in K : \/ u[q] > u[p] \/ (u[q] = u[p] /\ v[q] > v[p])
                            \/ ~(u[p] > u[q] \/ (u[p] = u[q] /\ v[p] > v[q])) /\ q < p}
    BY <2>1
  <2> QED
    BY <1>2, <2>2, Zenon DEF ByBookmarks, AboveOf
<1>9. PICK l : l = Arranged(table, ByBookmarks(table)) /\ EachOnce(l, S)
  BY <1>1, <1>2, <1>5, <1>8, SortedEach
<1>10. PoolLimit \in Nat
  BY HomeFact
<1>11. PICK P \in SUBSET S : EachOnce(Firsts(l, PoolLimit), P)
  BY <1>9, <1>10, FirstsEach, Zenon
<1> QED
  BY <1>6, <1>9, <1>11

\* Whatever the tables hold, and were they two different ones.
LEMMA PoolEach ==
  ASSUME NEW table \in HomeTables, NEW later \in HomeTables
  PROVE  \E P \in SUBSET HomePosts : EachOnce(Pool(table, later), P)
<1>0. PICK l : l = Popular(table)
  OBVIOUS
<1>1. PICK P \in SUBSET HomePosts : EachOnce(l, P)
  BY <1>0, PopularEach, Zenon
<1>2. PICK S \in SUBSET HomePosts : EachOnce(later, S)
  BY HomeFact
<1>3. PICK F \in SUBSET S : EachOnce(Firsts(later, PoolLimit), F)
  <2>1. PoolLimit \in Nat
    BY HomeFact
  <2> QED
    BY <1>2, <2>1, FirstsEach, Zenon
<1>4. EachOnce(Without(Firsts(later, PoolLimit), P), F \ P)
  BY <1>3, WithoutEach
<1>5. PICK m : m = Without(Firsts(later, PoolLimit), P) /\ EachOnce(m, F \ P)
  BY <1>4
<1>6. P \cap (F \ P) = {} /\ P \cup (F \ P) \in SUBSET HomePosts
  OBVIOUS
<1>7. EachOnce(l \o m, P \cup (F \ P))
  BY <1>1, <1>5, <1>6, JoinedEach
<1>8. ToSet(l) = P
  BY <1>1 DEF EachOnce
<1>9. Pool(table, later) = IF Len(l) < FeedLimit THEN l \o m ELSE l
  BY <1>0, <1>5, <1>8 DEF Pool
<1> QED
  BY <1>1, <1>6, <1>7, <1>9

LEMMA ScoreFact ==
  ASSUME NEW p \in HomePosts, NEW marked, IsFiniteSet(marked)
  PROVE  Score(p, marked) \in Int
<1>1. PICK A, B : /\ A = {q \in marked : AreasRelated(p.area, q.area)}
                  /\ B = {q \in marked : q.category = p.category}
  OBVIOUS
<1>2. A \in SUBSET marked /\ B \in SUBSET marked
  BY <1>1
<1>3. IsFiniteSet(A) /\ IsFiniteSet(B)
  BY <1>2, FS_Subset
<1>4. Cardinality(A) \in Nat /\ Cardinality(B) \in Nat
  BY <1>3, FS_CardinalityType
<1>5. p.bookmarks \in Int /\ 20 \in Int
  BY HomeFact
<1>6. Min({p.bookmarks, 20}) \in Int
  BY <1>5, MinOf
<1> QED
  BY <1>1, <1>4, <1>6 DEF Score

\* The candidates by score, then by age.
ByScore(s, marked) ==
  [p \in DOMAIN s |-> {q \in DOMAIN s :
     \/ \/ Score(s[q], marked) > Score(s[p], marked)
        \/ Score(s[q], marked) = Score(s[p], marked) /\ s[q].created > s[p].created
     \/ /\ ~(\/ Score(s[p], marked) > Score(s[q], marked)
             \/ Score(s[p], marked) = Score(s[q], marked) /\ s[p].created > s[q].created)
        /\ q < p}]

LEMMA CandidatesEach ==
  ASSUME NEW s, NEW S \in SUBSET HomePosts, EachOnce(s, S), NEW marked, IsFiniteSet(marked)
  PROVE  EachOnce(Arranged(s, ByScore(s, marked)), S)
<1>1. PICK K : K = DOMAIN s /\ \A i \in K : s[i] \in HomePosts
  BY EachFact
<1>2. PICK u : u = [i \in K |-> Score(s[i], marked)]
  OBVIOUS
<1>3. PICK v : v = [i \in K |-> s[i].created]
  OBVIOUS
<1>4. u \in [K -> Int] /\ v \in [K -> Int]
  BY <1>1, <1>2, <1>3, HomeFact, ScoreFact
<1>5. \A i \in K : u[i] = Score(s[i], marked) /\ v[i] = s[i].created
  BY <1>2, <1>3
<1>6. ByScore(s, marked) = AboveOf(K, u, v)
  BY <1>1, <1>5 DEF ByScore, AboveOf
<1>7. EachOnce(Arranged(s, AboveOf(K, u, v)), S)
  BY <1>1, <1>4, SortedEach
<1> QED
  BY <1>6, <1>7

\* What FeedIsSound asks of the posts picked from a pool.
FairlyPicked(posts, pool, marked) ==
  /\ IsInjective(posts)
  /\ Len(posts) = Min({FeedLimit, Len(pool)})
  /\ marked # {} /\ ToSet(posts) \cap marked # {} => ToSet(pool) \ marked \subseteq ToSet(posts)

LEMMA RankedFairly ==
  ASSUME NEW pool, NEW P \in SUBSET HomePosts, EachOnce(pool, P),
         NEW marked \in SUBSET HomePosts
  PROVE  Ranked(pool, marked) \in Seq(HomePosts) /\ FairlyPicked(Ranked(pool, marked), pool, marked)
<1>1. /\ IsFiniteSet(P) /\ Len(pool) = Cardinality(P) /\ ToSet(pool) = P /\ FeedLimit \in Nat
      /\ IsFiniteSet(marked)
  <2>1. IsFiniteSet(P) /\ Len(pool) = Cardinality(P)
    BY EachAsLong
  <2>2. IsFiniteSet(marked)
    BY HomeFact, FS_Subset
  <2> QED
    BY <2>1, <2>2, HomeFact DEF EachOnce
<1>2. ASSUME NEW l, EachOnce(l, P), NEW posts, posts = Firsts(l, FeedLimit)
      PROVE  /\ posts \in Seq(HomePosts) /\ IsInjective(posts) /\ ToSet(posts) \subseteq P
             /\ Len(posts) = Min({FeedLimit, Len(pool)})
             /\ \A i \in 1..Len(l) : l[i] \in ToSet(posts) <=> i <= FeedLimit
  <2>1. PICK F \in SUBSET P : /\ EachOnce(posts, F)
                              /\ Len(posts) = Min({FeedLimit, Len(l)})
                              /\ \A i \in 1..Len(l) : l[i] \in F <=> i <= FeedLimit
    BY <1>1, <1>2, FirstsEach
  <2>2. Len(l) = Len(pool)
    BY <1>1, <1>2, EachAsLong
  <2>3. posts \in Seq(F) /\ IsInjective(posts) /\ ToSet(posts) = F
    BY <2>1 DEF EachOnce
  <2>4. posts \in Seq(HomePosts)
    BY <2>3
  <2> QED
    BY <2>1, <2>2, <2>3, <2>4
<1>3. CASE marked = {}
  <2>1. Ranked(pool, marked) = Firsts(pool, FeedLimit)
    BY <1>3 DEF Ranked
  <2> QED
    BY <1>2, <1>3, <2>1 DEF FairlyPicked
<1>4. CASE marked # {}
  <2>1. PICK s : s = Without(pool, marked) /\ EachOnce(s, P \ marked)
    BY WithoutEach
  <2>2. PICK c : c = Arranged(s, ByScore(s, marked)) /\ EachOnce(c, P \ marked)
    BY <1>1, <2>1, CandidatesEach
  <2>3. ToSet(c) = P \ marked /\ P \ (P \ marked) = P \cap marked
    BY <2>2 DEF EachOnce
  <2>4. PICK r : r = Without(pool, ToSet(c)) /\ EachOnce(r, P \cap marked)
    BY <2>3, WithoutEach
  <2>5. PICK l : l = c \o r
    OBVIOUS
  <2>6. EachOnce(l, P)
    <3>1. (P \ marked) \cap (P \cap marked) = {} /\ (P \ marked) \cup (P \cap marked) = P
      OBVIOUS
    <3> QED
      BY <2>2, <2>4, <2>5, <3>1, JoinedEach
  <2>7. Ranked(pool, marked) = Firsts(l, FeedLimit)
    BY <1>4, <2>1, <2>2, <2>4, <2>5 DEF Ranked, Sorted, ByScore
  <2>8. PICK posts : posts = Firsts(l, FeedLimit)
    OBVIOUS
  <2>9. /\ posts \in Seq(HomePosts) /\ IsInjective(posts) /\ ToSet(posts) \subseteq P
        /\ Len(posts) = Min({FeedLimit, Len(pool)})
        /\ \A i \in 1..Len(l) : l[i] \in ToSet(posts) <=> i <= FeedLimit
    BY <1>2, <2>6, <2>8
  <2>10. ASSUME NEW x \in ToSet(posts) \cap marked, NEW y \in P \ marked
         PROVE  y \in ToSet(posts)
    <3>1. PICK m \in Nat : /\ m = Len(c) /\ \A i \in 1..m : c[i] \in P \ marked
                           /\ \A z \in P \ marked : \E i \in 1..m : c[i] = z
      <4>1. PICK C : C = P \ marked
        OBVIOUS
      <4>2. EachOnce(c, C)
        BY <2>2, <4>1
      <4>3. PICK m \in Nat : /\ m = Len(c) /\ \A i \in 1..m : c[i] \in C
                             /\ \A z \in C : \E i \in 1..m : c[i] = z
        BY <4>2, EachFact
      <4> QED
        BY <4>1, <4>3
    <3>2. PICK n \in Nat : n = Len(l) /\ \A z \in P : \E i \in 1..n : l[i] = z
      BY <2>6, EachFact
    <3>3. m <= n /\ \A i \in 1..m : l[i] = c[i]
      <4>1. c \in Seq(P) /\ r \in Seq(P)
        BY <2>2, <2>4 DEF EachOnce
      <4> QED
        BY <2>5, <3>1, <3>2, <4>1, ConcatProperties, LenProperties
    <3>4. PICK i \in 1..n : l[i] = x
      BY <2>9, <3>2
    <3>5. i <= FeedLimit /\ ~(i <= m)
      BY <2>9, <2>10, <3>1, <3>2, <3>3, <3>4
    <3>6. PICK j \in 1..m : c[j] = y
      BY <3>1
    <3>7. j \in 1..n /\ j <= FeedLimit /\ l[j] = y
      BY <1>1, <3>3, <3>5, <3>6
    <3> QED
      BY <2>9, <3>2, <3>7
  <2>11. FairlyPicked(posts, pool, marked)
    BY <1>1, <2>9, <2>10 DEF FairlyPicked
  <2> QED
    BY <2>7, <2>8, <2>9, <2>11
<1> QED
  BY <1>3, <1>4

-----------------------------------------------------------------------------
(* The types of fetches, and of what they were given. *)

\* A fetch that neither waits nor failed has been given data.
Given(f, Data, Reqs) == f \in Fetches(Data, Reqs) /\ (~f.loading /\ ~f.error => f.data \in Data)

LEMMA MountedGiven ==
  ASSUME NEW Data, NEW Reqs, NEW req \in Reqs
  PROVE  Given(Mounted(req), Data, Reqs)
<1>1. Call(req) \in [req : Reqs, live : BOOLEAN]
  BY DEF Call
<1>2. PICK cs \in SUBSET [req : Reqs, live : BOOLEAN] : cs = {Call(req)}
  <2>1. {Call(req)} \in SUBSET [req : Reqs, live : BOOLEAN]
    BY <1>1
  <2> QED
    BY <2>1
<1>3. Mounted(req) = [data |-> None, loading |-> TRUE, error |-> FALSE, calls |-> cs]
  BY <1>2 DEF Mounted
<1> QED
  BY <1>2, <1>3 DEF Given, Fetches

LEMMA WaitingGiven ==
  ASSUME NEW Data, NEW Reqs, NEW f, Given(f, Data, Reqs)
  PROVE  Given(Waiting(f), Data, Reqs)
<1>1. Waiting(f) \in Fetches(Data, Reqs)
  BY DEF Given, Fetches, Waiting
<1>2. Waiting(f).loading = TRUE
  BY DEF Given, Fetches, Waiting
<1> QED
  BY <1>1, <1>2 DEF Given

LEMMA WithCalls ==
  ASSUME NEW Data, NEW Reqs, NEW f, Given(f, Data, Reqs),
         NEW cs \in SUBSET [req : Reqs, live : BOOLEAN]
  PROVE  Given([f EXCEPT !.calls = cs], Data, Reqs)
<1>1. PICK x : x = [f EXCEPT !.calls = cs]
  OBVIOUS
<1>2. x \in Fetches(Data, Reqs)
  BY <1>1, Zenon DEF Given, Fetches
<1>3. x.data = f.data /\ x.loading = f.loading /\ x.error = f.error
  BY <1>1 DEF Given, Fetches
<1> QED
  BY <1>1, <1>2, <1>3 DEF Given

LEMMA CancelledGiven ==
  ASSUME NEW Data, NEW Reqs, NEW f, Given(f, Data, Reqs)
  PROVE  Cancelled(f) \in SUBSET [req : Reqs, live : BOOLEAN]
<1>1. \A c \in f.calls : c \in [req : Reqs, live : BOOLEAN]
  BY DEF Given, Fetches
<1>2. \A c \in f.calls : [c EXCEPT !.live = FALSE] \in [req : Reqs, live : BOOLEAN]
  BY <1>1
<1> QED
  BY <1>2 DEF Cancelled

LEMMA RefetchedGiven ==
  ASSUME NEW Data, NEW Reqs, NEW f, Given(f, Data, Reqs), NEW req \in Reqs
  PROVE  Given(Refetched(f, req), Data, Reqs)
<1>1. Call(req) \in [req : Reqs, live : BOOLEAN]
  BY DEF Call
<1>2. PICK cs \in SUBSET [req : Reqs, live : BOOLEAN] : cs = Cancelled(f) \cup {Call(req)}
  BY <1>1, CancelledGiven
<1>3. Refetched(f, req) = [f EXCEPT !.calls = cs]
  BY <1>2 DEF Refetched
<1> QED
  BY <1>3, WithCalls

LEMMA TakenGiven ==
  ASSUME NEW Data, NEW Reqs, NEW f, Given(f, Data, Reqs), NEW c
  PROVE  Given(Taken(f, c), Data, Reqs)
<1>1. PICK cs \in SUBSET [req : Reqs, live : BOOLEAN] : cs = f.calls \ {c}
  BY DEF Given, Fetches
<1>2. Taken(f, c) = [f EXCEPT !.calls = cs]
  BY <1>1 DEF Taken
<1> QED
  BY <1>2, WithCalls

LEMMA AnsweredGiven ==
  ASSUME NEW Data, NEW Reqs, NEW f, Given(f, Data, Reqs), NEW c, NEW data \in Data
  PROVE  Given(Answered(f, c, data), Data, Reqs)
<1>1. PICK t : t = Taken(f, c) /\ Given(t, Data, Reqs)
  BY TakenGiven
<1>2. CASE Heard(c)
  <2>1. PICK x : x = [t EXCEPT !.data = data, !.loading = FALSE]
    OBVIOUS
  <2>2. x \in Fetches(Data, Reqs) /\ x.data = data
    BY <1>1, <2>1 DEF Given, Fetches
  <2>3. Answered(f, c, data) = x
    BY <1>1, <1>2, <2>1 DEF Answered
  <2> QED
    BY <2>2, <2>3 DEF Given
<1>3. CASE ~Heard(c)
  BY <1>1, <1>3 DEF Answered
<1> QED
  BY <1>2, <1>3

LEMMA FailedGiven ==
  ASSUME NEW Data, NEW Reqs, NEW f, Given(f, Data, Reqs), NEW c
  PROVE  Given(Failed(f, c), Data, Reqs)
<1>1. PICK t : t = Taken(f, c) /\ Given(t, Data, Reqs)
  BY TakenGiven
<1>2. CASE Heard(c)
  <2>1. PICK x : x = [t EXCEPT !.error = TRUE, !.loading = FALSE]
    OBVIOUS
  <2>2. x \in Fetches(Data, Reqs) /\ x.error = TRUE
    BY <1>1, <2>1 DEF Given, Fetches
  <2>3. Failed(f, c) = x
    BY <1>1, <1>2, <2>1 DEF Failed
  <2> QED
    BY <2>2, <2>3 DEF Given
<1>3. CASE ~Heard(c)
  BY <1>1, <1>3 DEF Failed
<1> QED
  BY <1>2, <1>3

-----------------------------------------------------------------------------
(* The feeds given are fair. *)

Pools        == {pool \in Seq(HomePosts) : IsInjective(pool)}
PoolRequests == [user : HomeUsers \cup {None}, pool : Pools \cup {None}]
FairFeeds    == {got \in Feeds : FairlyPicked(got.posts, got.pool, got.marked)}

FairInv == \/ feed = None /\ auth = None
           \/ Given(feed, FairFeeds, PoolRequests) /\ auth \in Auths

\* Pools are lists of posts that repeat none.
LEMMA PoolsFact ==
  ASSUME NEW pool \in Pools
  PROVE  EachOnce(pool, ToSet(pool)) /\ ToSet(pool) \in SUBSET HomePosts
<1>1. pool \in Seq(HomePosts) /\ IsInjective(pool)
  BY DEF Pools
<1>2. PICK n \in Nat : n = Len(pool) /\ DOMAIN pool = 1..n /\ \A i \in 1..n : pool[i] \in HomePosts
  BY <1>1, LenProperties, ElementOfSeq
<1>3. \A i, j \in 1..n : pool[i] = pool[j] => i = j
  BY <1>1, <1>2 DEF IsInjective
<1>4. PICK S : S = ToSet(pool) /\ S = {pool[i] : i \in 1..n}
  BY <1>2 DEF ToSet
<1>5. pool \in [1..n -> HomePosts]
  BY <1>1, <1>2, LenProperties
<1>6. pool \in [1..n -> S]
  BY <1>4, <1>5
<1>7. EachOnce(pool, S)
  BY <1>3, <1>4, <1>6, EachShown
<1> QED
  BY <1>2, <1>4, <1>7

LEMMA PoolMade ==
  ASSUME NEW table \in HomeTables, NEW later \in HomeTables
  PROVE  Pool(table, later) \in Pools
<1>1. PICK pool : pool = Pool(table, later)
  OBVIOUS
<1>2. PICK P \in SUBSET HomePosts : EachOnce(pool, P)
  BY <1>1, PoolEach, Zenon
<1>3. pool \in Seq(HomePosts) /\ IsInjective(pool)
  BY <1>2 DEF EachOnce
<1> QED
  BY <1>1, <1>3 DEF Pools

LEMMA PickedFairly ==
  ASSUME NEW user \in HomeUsers \cup {None}, NEW pool \in Pools, NEW marked \in SUBSET HomePosts
  PROVE  Picked(user, pool, marked) \in FairFeeds
<1>1. EachOnce(pool, ToSet(pool)) /\ ToSet(pool) \in SUBSET HomePosts /\ pool \in Seq(HomePosts)
  BY PoolsFact DEF Pools
<1>2. PICK posts : posts = Ranked(pool, marked)
  OBVIOUS
<1>3. posts \in Seq(HomePosts) /\ FairlyPicked(posts, pool, marked)
  BY <1>1, <1>2, RankedFairly
<1>4. Picked(user, pool, marked) = [user |-> user, pool |-> pool, marked |-> marked,
                                    posts |-> posts]
  BY <1>2 DEF Picked
<1> QED
  BY <1>1, <1>3, <1>4 DEF FairFeeds, Feeds

LEMMA AskedFact ==
  ASSUME NEW user \in HomeUsers \cup {None}
  PROVE  Asked(user) \in PoolRequests
BY DEF Asked, PoolRequests

LEMMA FairMounted == ASSUME FeedMount PROVE FairInv'
<1>1. CASE /\ auth' = [user |-> None, loading |-> TRUE]
           /\ feed' = [Mounted(None) EXCEPT !.calls = {}]
  <2>1. feed' = [data |-> None, loading |-> TRUE, error |-> FALSE, calls |-> {}]
    BY <1>1 DEF Mounted
  <2>2. Given(feed', FairFeeds, PoolRequests)
    BY <2>1 DEF Given, Fetches
  <2>3. auth' \in Auths
    BY <1>1 DEF Auths
  <2> QED
    BY <2>2, <2>3 DEF FairInv
<1>2. ASSUME NEW user \in HomeUsers \cup {None}, auth' = [user |-> user, loading |-> FALSE],
             feed' = Mounted(Asked(user))
      PROVE  FairInv'
  <2>1. auth' \in Auths
    BY <1>2 DEF Auths
  <2>2. Given(feed', FairFeeds, PoolRequests)
    BY <1>2, AskedFact, MountedGiven
  <2> QED
    BY <2>1, <2>2 DEF FairInv
<1> QED
  BY <1>1, <1>2 DEF FeedMount

LEMMA FairShown ==
  ASSUME FairInv, auth # None, NEW user \in HomeUsers \cup {None}, Shown(user)
  PROVE  FairInv'
<1>1. Given(feed, FairFeeds, PoolRequests)
  BY DEF FairInv
<1>2. auth' \in Auths
  BY DEF Shown, Auths
<1>3. PICK r \in PoolRequests : r = Asked(user)
  BY AskedFact
<1>4. feed' = Refetched(feed, r) \/ feed' = Refetched(Waiting(feed), r)
  BY <1>3 DEF Shown
<1>5. Given(Waiting(feed), FairFeeds, PoolRequests)
  BY <1>1, WaitingGiven
<1>6. Given(feed', FairFeeds, PoolRequests)
  BY <1>1, <1>4, <1>5, RefetchedGiven
<1> QED
  BY <1>2, <1>6 DEF FairInv

LEMMA FairPool ==
  ASSUME FairInv, feed # None, NEW c \in feed.calls, PoolAnswered(c)
  PROVE  FairInv'
<1>1. Given(feed, FairFeeds, PoolRequests) /\ auth \in Auths /\ auth' = auth
  BY DEF FairInv, PoolAnswered
<1>2. c \in [req : PoolRequests, live : BOOLEAN] /\ c.req.user \in HomeUsers \cup {None}
  BY <1>1 DEF Given, Fetches, PoolRequests
<1>3. CASE feed' = Failed(feed, c)
  BY <1>1, <1>3, FailedGiven DEF FairInv
<1>4. ASSUME NEW pool \in Pools,
             feed' = IF c.req.user = None THEN Answered(feed, c, Picked(None, pool, {}))
                     ELSE [feed EXCEPT !.calls = (@ \ {c}) \cup {[c EXCEPT !.req.pool = pool]}]
      PROVE  FairInv'
  <2>1. CASE c.req.user = None
    <3>1. PICK data \in FairFeeds : data = Picked(None, pool, {})
      BY PickedFairly
    <3>2. Given(feed', FairFeeds, PoolRequests)
      BY <1>1, <1>4, <2>1, <3>1, AnsweredGiven
    <3> QED
      BY <1>1, <3>2 DEF FairInv
  <2>2. CASE c.req.user # None
    <3>1. [c.req EXCEPT !.pool = pool] \in PoolRequests
      <4>1. c.req \in PoolRequests
        BY <1>2
      <4> QED
        BY <4>1, Zenon DEF PoolRequests
    <3>2. PICK d \in [req : PoolRequests, live : BOOLEAN] : d = [c EXCEPT !.req.pool = pool]
      BY <1>2, <3>1
    <3>3. PICK cs \in SUBSET [req : PoolRequests, live : BOOLEAN] : cs = (feed.calls \ {c}) \cup {d}
      BY <1>1 DEF Given, Fetches
    <3>4. feed' = [feed EXCEPT !.calls = cs]
      BY <1>4, <2>2, <3>2, <3>3
    <3>5. Given(feed', FairFeeds, PoolRequests)
      BY <1>1, <3>4, WithCalls
    <3> QED
      BY <1>1, <3>5 DEF FairInv
  <2> QED
    BY <2>1, <2>2
<1> QED
  BY <1>3, <1>4, PoolMade DEF PoolAnswered

LEMMA FairBookmarks ==
  ASSUME FairInv, feed # None, NEW c \in feed.calls, BookmarksAnswered(c)
  PROVE  FairInv'
<1>1. Given(feed, FairFeeds, PoolRequests) /\ auth \in Auths /\ c.req.pool # None
  BY DEF FairInv, BookmarksAnswered
<1>2. PICK user \in HomeUsers \cup {None}, pool \in Pools : user = c.req.user /\ pool = c.req.pool
  <2>1. c.req \in PoolRequests
    BY <1>1 DEF Given, Fetches
  <2> QED
    BY <1>1, <2>1 DEF PoolRequests
<1>3. ASSUME NEW marked \in SUBSET HomePosts,
             feed' = Answered(feed, c, Picked(user, pool, marked)), auth' = auth
      PROVE  FairInv'
  <2>1. PICK data \in FairFeeds : data = Picked(user, pool, marked)
    BY PickedFairly
  <2>2. Given(feed', FairFeeds, PoolRequests)
    BY <1>1, <1>3, <2>1, AnsweredGiven
  <2> QED
    BY <1>1, <1>3, <2>2 DEF FairInv
<1>4. ASSUME auth' = [auth EXCEPT !.user = None],
             feed' = LET rest == Taken(feed, c)
                     IN  IF auth.user = None THEN rest
                         ELSE Refetched(Waiting(rest), Asked(None))
      PROVE  FairInv'
  <2>1. auth' \in Auths
    BY <1>1, <1>4 DEF Auths
  <2>2. PICK rest : rest = Taken(feed, c) /\ Given(rest, FairFeeds, PoolRequests)
    BY <1>1, TakenGiven
  <2>3. PICK w : w = Waiting(rest) /\ Given(w, FairFeeds, PoolRequests)
    BY <2>2, WaitingGiven
  <2>4. PICK r \in PoolRequests : r = Asked(None)
    BY AskedFact
  <2>5. feed' = rest \/ feed' = Refetched(w, r)
    BY <1>4, <2>2, <2>3, <2>4
  <2>6. Given(feed', FairFeeds, PoolRequests)
    BY <2>2, <2>3, <2>5, RefetchedGiven
  <2> QED
    BY <2>1, <2>6 DEF FairInv
<1> QED
  BY <1>2, <1>3, <1>4 DEF BookmarksAnswered

LEMMA FairInvariance == FairSpec => []FairInv
<1>1. Init => FairInv
  BY DEF Init, HomeUnmounted, FairInv
<1>2. FairInv /\ [Next]_readingVars => FairInv'
  <2> SUFFICES ASSUME FairInv, [Next]_readingVars PROVE FairInv'
    OBVIOUS
  <2>1. CASE UNCHANGED <<auth, feed>>
    BY <2>1 DEF FairInv
  <2>2. CASE feed' = None /\ auth' = None
    BY <2>2 DEF FairInv
  <2>3. CASE FeedMount
    BY <2>3, FairMounted
  <2>4. WeekNext => UNCHANGED <<auth, feed>>
    BY DEF WeekNext, WeekAnswered, LineAnswered, WeekRetry, LineRetry
  <2>5. CASE FeedNext
    <3>1. ASSUME NEW user \in HomeUsers \cup {None}, AuthKnown(user) \/ AuthChanges(user)
          PROVE  FairInv'
      BY <3>1, FairShown DEF AuthKnown, AuthChanges
    <3> QED
      BY <2>5, <3>1, FairPool, FairBookmarks DEF FeedNext
  <2> QED
    BY <2>1, <2>2, <2>3, <2>4, <2>5
       DEF Next, OpenExplore, OpenHome, OpenSlides, Leave, HomeUnmount, WeekMount, HomeNext,
           readingVars, homeVars
<1> QED
  BY <1>1, <1>2, PTL DEF FairSpec

\* For any posts, tables, sizes and bookmarks, whoever comes and goes (FeedIsSound).
THEOREM FeedsAreSound == FairSpec => []FeedIsSound
<1>1. FairInv => FeedIsSound
  <2> SUFFICES ASSUME FairInv, feed # None, ~feed.loading, ~feed.error PROVE FeedIsSound
    BY DEF FeedIsSound
  <2>1. PICK got : got = feed.data /\ got \in FairFeeds
    BY DEF FairInv, Given
  <2>2. FairlyPicked(got.posts, got.pool, got.marked)
    BY <2>1 DEF FairFeeds
  <2> QED
    BY <2>1, <2>2 DEF FeedIsSound, FairlyPicked
<1> QED
  BY <1>1, FairInvariance, PTL

-----------------------------------------------------------------------------
(* The types of the pages. *)

\* The section has one call at a time, and none once it has failed; its timeline shows while the
\* section is without an error.
WeekShown ==
  /\ week = None \/ /\ Given(week, HomeTables, {None})
                    /\ week.calls \in {{}, {Call(None)}} /\ (week.error => week.calls = {})
  /\ \/ line = None
     \/ Given(line, HomeTables, {None}) /\ week # None /\ ~week.error

LEMMA NoneFact ==
  /\ None \notin Fetches(HomeTables, {None}) /\ None \notin Fetches(Feeds, FeedRequests)
  /\ None \notin Auths
BY HomeAssumption

\* A fetch just mounted, or made anew after an error that left no calls.
OneCall(f) == /\ Given(f, HomeTables, {None}) /\ f # None
              /\ f.calls = {Call(None)} /\ f.error = FALSE

LEMMA OneCallMounted == OneCall(Mounted(None))
<1>1. PICK m : m = Mounted(None)
  OBVIOUS
<1>2. Given(m, HomeTables, {None})
  BY <1>1, MountedGiven
<1>3. m # None
  BY <1>2, NoneFact DEF Given
<1>4. m.calls = {Call(None)} /\ m.error = FALSE
  BY <1>1 DEF Mounted
<1> QED
  BY <1>1, <1>2, <1>3, <1>4 DEF OneCall

LEMMA OneCallAgain ==
  ASSUME NEW f, Given(f, HomeTables, {None}), f.calls = {}
  PROVE  OneCall(Refetched(Waiting(f), None))
<1>1. PICK w : w = Waiting(f) /\ Given(w, HomeTables, {None})
  BY WaitingGiven
<1>2. w.calls = {} /\ w.error = FALSE
  BY <1>1 DEF Given, Fetches, Waiting
<1>3. PICK x : x = Refetched(w, None) /\ Given(x, HomeTables, {None})
  BY <1>1, RefetchedGiven
<1>4. x # None
  BY <1>3, NoneFact DEF Given
<1>5. Cancelled(w) \cup {Call(None)} = {Call(None)}
  BY <1>2 DEF Cancelled
<1>6. x = [w EXCEPT !.calls = {Call(None)}]
  BY <1>3, <1>5 DEF Refetched
<1>7. x.calls = {Call(None)} /\ x.error = FALSE
  BY <1>1, <1>2, <1>6 DEF Given, Fetches
<1> QED
  BY <1>1, <1>3, <1>4, <1>7 DEF OneCall

LEMMA WeekShownAnswer ==
  ASSUME WeekShown, week # None, NEW c \in week.calls, WeekAnswered(c)
  PROVE  WeekShown'
<1>1. /\ Given(week, HomeTables, {None}) /\ c = Call(None) /\ week.calls \ {c} = {} /\ ~week.error
  BY DEF WeekShown
<1>2. Heard(c)
  BY <1>1 DEF Heard, Call
<1>3. ASSUME NEW table \in HomeTables, week' = Answered(week, c, table),
             line' = IF line = None THEN None ELSE [line EXCEPT !.calls = Cancelled(line)]
      PROVE  WeekShown'
  <2>1. Given(week', HomeTables, {None})
    BY <1>1, <1>3, AnsweredGiven
  <2>2. week' # None
    BY <2>1, NoneFact DEF Given
  <2>3. week' = [week EXCEPT !.calls = {}, !.data = table, !.loading = FALSE]
    BY <1>1, <1>2, <1>3 DEF Answered, Taken
  <2>4. week'.calls = {} /\ week'.error = week.error
    BY <1>1, <2>3 DEF Given, Fetches
  <2>5. line' = None \/ Given(line', HomeTables, {None})
    <3>1. CASE line = None
      BY <1>3, <3>1
    <3>2. CASE line # None
      <4>1. Given(line, HomeTables, {None})
        BY <3>2 DEF WeekShown
      <4>2. PICK cs \in SUBSET [req : {None}, live : BOOLEAN] : cs = Cancelled(line)
        BY <4>1, CancelledGiven
      <4>3. line' = [line EXCEPT !.calls = cs]
        BY <1>3, <3>2, <4>2
      <4> QED
        BY <4>1, <4>3, WithCalls
    <3> QED
      BY <3>1, <3>2
  <2> QED
    BY <1>1, <2>1, <2>2, <2>4, <2>5 DEF WeekShown
<1>4. ASSUME week' = Failed(week, c), line' = None PROVE WeekShown'
  <2>1. Given(week', HomeTables, {None})
    BY <1>1, <1>4, FailedGiven
  <2>2. week' = [week EXCEPT !.calls = {}, !.error = TRUE, !.loading = FALSE]
    BY <1>1, <1>2, <1>4 DEF Failed, Taken
  <2>3. week'.calls = {}
    BY <1>1, <2>2 DEF Given, Fetches
  <2> QED
    BY <1>4, <2>1, <2>3 DEF WeekShown
<1> QED
  BY <1>3, <1>4 DEF WeekAnswered

LEMMA WeekShownLine ==
  ASSUME WeekShown, line # None, NEW c, LineAnswered(c)
  PROVE  WeekShown'
<1>1. Given(line, HomeTables, {None}) /\ week' = week /\ week # None /\ ~week.error
  BY DEF WeekShown, LineAnswered
<1>2. (\E table \in HomeTables : line' = Answered(line, c, table)) \/ line' = Failed(line, c)
  BY DEF LineAnswered
<1>3. Given(line', HomeTables, {None})
  BY <1>1, <1>2, AnsweredGiven, FailedGiven
<1> QED
  BY <1>1, <1>3 DEF WeekShown

LEMMA WeekShownRetries ==
  ASSUME WeekShown, WeekRetry \/ LineRetry
  PROVE  WeekShown'
<1>1. CASE WeekRetry
  <2>1. Given(week, HomeTables, {None}) /\ week.calls = {}
    BY <1>1 DEF WeekShown, WeekRetry
  <2>2. OneCall(week') /\ OneCall(line')
    BY <1>1, <2>1, OneCallAgain, OneCallMounted DEF WeekRetry
  <2> QED
    BY <2>2 DEF WeekShown, OneCall
<1>2. CASE LineRetry
  <2>1. Given(line, HomeTables, {None}) /\ week' = week /\ week # None /\ ~week.error
    BY <1>2 DEF WeekShown, LineRetry
  <2>2. PICK w : w = Waiting(line) /\ Given(w, HomeTables, {None})
    BY <2>1, WaitingGiven
  <2>3. PICK n \in {None} : n = None
    OBVIOUS
  <2>4. line' = w \/ line' = Refetched(w, n)
    BY <1>2, <2>2, <2>3 DEF LineRetry
  <2>5. Given(line', HomeTables, {None})
    BY <2>2, <2>4, RefetchedGiven
  <2> QED
    BY <2>1, <2>5 DEF WeekShown
<1> QED
  BY <1>1, <1>2

\* The picks: their timer runs just while they move.
Tabs == [index : 0..(Picks - 1), paused : BOOLEAN, reduced : BOOLEAN,
         timer : (0..Autoplay) \cup {Off}, focus : (0..(Picks - 1)) \cup {Off}]
Moves(e) == Picks > 1 /\ ~e.paused /\ ~e.reduced
Timed(e) == IF Moves(e) THEN e.timer \in 0..Autoplay ELSE e.timer = Off
EpInv    == ep = Off \/ (ep \in Tabs /\ Timed(ep))

LEMMA EpStarted == ASSUME EpMount PROVE EpInv'
<1>1. /\ ep' \in [index : {0}, paused : {FALSE}, reduced : BOOLEAN, timer : {Autoplay, Off},
                  focus : {Off}]
      /\ (ep'.timer = Off) = (ep'.reduced \/ Picks = 1)
  BY DEF EpMount
<1>2. Autoplay \in 0..Autoplay /\ 0 \in 0..(Picks - 1) /\ (Picks > 1 <=> Picks # 1)
  BY SlidesFact
<1>3. ep' \in Tabs
  BY <1>1, <1>2 DEF Tabs
<1>4. Timed(ep')
  BY <1>1, <1>2 DEF Timed, Moves
<1> QED
  BY <1>3, <1>4 DEF EpInv, Timed, Moves

\* The effect runs only when what it depends on changes.
LEMMA EpBecame ==
  ASSUME NEW e \in Tabs, EpBecomes(e),
         e.index = ep.index /\ e.paused = ep.paused /\ e.reduced = ep.reduced => Timed(e)
  PROVE  EpInv'
<1>1. CASE <<e.index, e.paused, e.reduced>> = <<ep.index, ep.paused, ep.reduced>>
  BY <1>1 DEF EpBecomes, EpInv, Timed, Moves
<1>2. CASE <<e.index, e.paused, e.reduced>> # <<ep.index, ep.paused, ep.reduced>>
  <2>1. PICK t \in (0..Autoplay) \cup {Off} : /\ t = IF Moves(e) THEN Autoplay ELSE Off
                                              /\ Moves(e) => t \in 0..Autoplay
    <3>1. Autoplay \in 0..Autoplay
      BY SlidesFact
    <3> QED
      BY <3>1
  <2>2. PICK x : x = [e EXCEPT !.timer = t]
    OBVIOUS
  <2>3. ep' = x
    BY <1>2, <2>1, <2>2 DEF EpBecomes, Moves
  <2>4. x \in Tabs
    BY <2>2, Zenon DEF Tabs
  <2>5. x.paused = e.paused /\ x.reduced = e.reduced /\ x.timer = t
    BY <2>2 DEF Tabs
  <2>6. Timed(x)
    BY <2>1, <2>5 DEF Timed, Moves
  <2> QED
    BY <2>3, <2>4, <2>6 DEF EpInv, Timed, Moves
<1> QED
  BY <1>1, <1>2

\* The focus and the flags change, or the index does.
LEMMA EpTurned ==
  ASSUME EpInv, ep # Off, NEW i \in 0..(Picks - 1), NEW p \in BOOLEAN, NEW m \in BOOLEAN,
         NEW f \in (0..(Picks - 1)) \cup {Off},
         EpBecomes([ep EXCEPT !.index = i, !.paused = p, !.reduced = m, !.focus = f])
  PROVE  EpInv'
<1>1. PICK e : e = [ep EXCEPT !.index = i, !.paused = p, !.reduced = m, !.focus = f]
  OBVIOUS
<1>2. ep \in Tabs /\ Timed(ep)
  BY DEF EpInv
<1>3. e \in Tabs
  BY <1>1, <1>2, Zenon DEF Tabs
<1>4. e.index = i /\ e.paused = p /\ e.reduced = m /\ e.timer = ep.timer
  BY <1>1, <1>2 DEF Tabs
<1>5. e.index = ep.index /\ e.paused = ep.paused /\ e.reduced = ep.reduced => Timed(e)
  BY <1>2, <1>4 DEF Timed, Moves
<1> QED
  BY <1>1, <1>3, <1>5, EpBecame

LEMMA KeyTargetFact ==
  ASSUME NEW key \in {"next", "prev", "home", "end"}, NEW i \in 0..(Picks - 1)
  PROVE  KeyTarget(key, i) \in 0..(Picks - 1)
<1>1. PICK n \in Nat : n = Picks /\ n > 0
  BY SlidesFact
<1>2. (i + 1) % n \in 0..(n - 1) /\ (i - 1 + n) % n \in 0..(n - 1)
  BY <1>1
<1>3. 0 \in 0..(n - 1) /\ n - 1 \in 0..(n - 1)
  BY <1>1
<1> QED
  BY <1>1, <1>2, <1>3 DEF KeyTarget, PrevPick

LEMMA EpStays == ASSUME EpInv, EpNext PROVE EpInv'
<1>1. ep # Off /\ ep \in Tabs /\ Timed(ep)
  BY DEF EpNext, EpTick, EpTimeout, EpHover, EpLeave, EpFocus, EpBlur, EpMotion, EpClick, EpKey,
         EpRunning, EpInv
<1>2. PICK i \in 0..(Picks - 1), p \in BOOLEAN, m \in BOOLEAN, f \in (0..(Picks - 1)) \cup {Off} :
        i = ep.index /\ p = ep.paused /\ m = ep.reduced /\ f = ep.focus
  BY <1>1 DEF Tabs
<1>3. CASE EpTick
  <2>1. Moves(ep) /\ ep.timer \in 1..Autoplay
    BY <1>1, <1>3, SlidesFact DEF EpTick, EpRunning, Moves, Timed
  <2>2. PICK t \in 0..Autoplay : t = ep.timer - 1
    BY <2>1, SlidesFact
  <2>3. PICK e : e = [ep EXCEPT !.timer = t]
    OBVIOUS
  <2>4. e \in Tabs
    BY <1>1, <2>3 DEF Tabs
  <2>5. e.paused = ep.paused /\ e.reduced = ep.reduced /\ e.timer = t
    BY <1>1, <2>3 DEF Tabs
  <2>6. Timed(e)
    BY <2>1, <2>5 DEF Timed, Moves
  <2>7. EpBecomes(e)
    BY <1>3, <2>2, <2>3 DEF EpTick
  <2> QED
    BY <2>4, <2>6, <2>7, EpBecame
<1>4. ASSUME NEW j \in 0..(Picks - 1), NEW q \in BOOLEAN, NEW r \in BOOLEAN,
             NEW g \in (0..(Picks - 1)) \cup {Off},
             EpBecomes([ep EXCEPT !.index = j, !.paused = q, !.reduced = r, !.focus = g])
      PROVE  EpInv'
  BY <1>1, <1>4, EpTurned
<1>5. CASE EpTimeout
  <2>1. PICK j \in 0..(Picks - 1) : j = (ep.index + 1) % Picks
    <3>1. PICK n \in Nat : n = Picks /\ n > 0
      BY SlidesFact
    <3>2. (i + 1) % n \in 0..(n - 1)
      BY <3>1
    <3> QED
      BY <1>2, <3>1, <3>2
  <2>2. [ep EXCEPT !.index = j] = [ep EXCEPT !.index = j, !.paused = p, !.reduced = m, !.focus = f]
    BY <1>1, <1>2 DEF Tabs
  <2>3. EpBecomes([ep EXCEPT !.index = j])
    BY <1>5, <2>1 DEF EpTimeout
  <2> QED
    BY <1>4, <2>2, <2>3
<1>6. CASE EpHover \/ EpLeave
  <2>1. PICK q \in BOOLEAN : EpBecomes([ep EXCEPT !.paused = q])
    BY <1>6 DEF EpHover, EpLeave
  <2>2. [ep EXCEPT !.paused = q] = [ep EXCEPT !.index = i, !.paused = q, !.reduced = m, !.focus = f]
    BY <1>1, <1>2 DEF Tabs
  <2> QED
    BY <1>4, <2>1, <2>2
<1>7. CASE EpFocus \/ EpBlur
  <2>1. PICK q \in BOOLEAN, g \in (0..(Picks - 1)) \cup {Off} :
          EpBecomes([ep EXCEPT !.focus = g, !.paused = q])
    BY <1>2, <1>7 DEF EpFocus, EpBlur
  <2>2. [ep EXCEPT !.focus = g, !.paused = q]
        = [ep EXCEPT !.index = i, !.paused = q, !.reduced = m, !.focus = g]
    BY <1>1, <1>2 DEF Tabs
  <2> QED
    BY <1>4, <2>1, <2>2
<1>8. CASE EpMotion
  <2>1. PICK r \in BOOLEAN : r = ~ep.reduced
    OBVIOUS
  <2>2. EpBecomes([ep EXCEPT !.reduced = r])
    BY <1>8, <2>1 DEF EpMotion
  <2>3. [ep EXCEPT !.reduced = r] = [ep EXCEPT !.index = i, !.paused = p, !.reduced = r, !.focus = f]
    BY <1>1, <1>2 DEF Tabs
  <2> QED
    BY <1>4, <2>2, <2>3
<1>9. ASSUME NEW j \in 0..(Picks - 1), EpClick(j) PROVE EpInv'
  <2>1. EpBecomes([ep EXCEPT !.index = j, !.paused = TRUE, !.focus = j])
    BY <1>9 DEF EpClick
  <2>2. [ep EXCEPT !.index = j, !.paused = TRUE, !.focus = j]
        = [ep EXCEPT !.index = j, !.paused = TRUE, !.reduced = m, !.focus = j]
    BY <1>1, <1>2 DEF Tabs
  <2> QED
    BY <1>4, <2>1, <2>2
<1>10. ASSUME NEW key \in {"next", "prev", "home", "end"}, EpKey(key) PROVE EpInv'
  <2>1. ep.focus \in 0..(Picks - 1)
    BY <1>1, <1>10 DEF EpKey, Tabs
  <2>2. PICK j \in 0..(Picks - 1) : j = KeyTarget(key, ep.focus)
    BY <2>1, KeyTargetFact
  <2>3. PICK q \in BOOLEAN : q = IF j = ep.focus THEN ep.paused ELSE TRUE
    BY <1>2
  <2>4. EpBecomes([ep EXCEPT !.index = j, !.focus = j, !.paused = q])
    BY <1>10, <2>2, <2>3 DEF EpKey
  <2>5. [ep EXCEPT !.index = j, !.focus = j, !.paused = q]
        = [ep EXCEPT !.index = j, !.paused = q, !.reduced = m, !.focus = j]
    BY <1>1, <1>2 DEF Tabs
  <2> QED
    BY <1>4, <2>4, <2>5
<1> QED
  BY <1>3, <1>5, <1>6, <1>7, <1>8, <1>9, <1>10 DEF EpNext

LEMMA WeekShownInvariance == FairSpec => []WeekShown
<1>1. Init => WeekShown
  BY DEF Init, HomeUnmounted, WeekShown
<1>2. WeekShown /\ [Next]_readingVars => WeekShown'
  <2> SUFFICES ASSUME WeekShown, [Next]_readingVars PROVE WeekShown'
    OBVIOUS
  <2>1. CASE UNCHANGED <<week, line>>
    BY <2>1 DEF WeekShown
  <2>2. CASE week' = None /\ line' = None
    BY <2>2 DEF WeekShown
  <2>3. CASE WeekMount
    <3>1. OneCall(week') /\ OneCall(line')
      BY <2>3, OneCallMounted DEF WeekMount
    <3> QED
      BY <3>1 DEF WeekShown, OneCall
  <2>4. CASE WeekNext
    BY <2>4, WeekShownAnswer, WeekShownLine, WeekShownRetries DEF WeekNext
  <2>5. FeedNext => UNCHANGED <<week, line>>
    BY DEF FeedNext, AuthKnown, AuthChanges, PoolAnswered, BookmarksAnswered
  <2> QED
    BY <2>1, <2>2, <2>3, <2>4, <2>5
       DEF Next, OpenExplore, OpenHome, OpenSlides, Leave, HomeUnmount, FeedMount, HomeNext,
           readingVars, homeVars
<1> QED
  BY <1>1, <1>2, PTL DEF FairSpec

LEMMA EpInvariance == FairSpec => []EpInv
<1>1. Init => EpInv
  BY DEF Init, SlidesUnmounted, EpInv
<1>2. EpInv /\ [Next]_readingVars => EpInv'
  <2> SUFFICES ASSUME EpInv, [Next]_readingVars PROVE EpInv'
    OBVIOUS
  <2>1. CASE UNCHANGED ep
    BY <2>1 DEF EpInv, Timed, Moves
  <2>2. CASE ep' = Off
    BY <2>2 DEF EpInv
  <2>3. CASE EpMount
    BY <2>3, EpStarted
  <2>4. CASE EpNext
    BY <2>4, EpStays
  <2>5. KvNext => UNCHANGED ep
    BY DEF KvNext, KvFetched, KvTick, KvTimeout, KvPauseToggle, KvMotion, KvSelect
  <2> QED
    BY <2>1, <2>2, <2>3, <2>4, <2>5
       DEF Next, OpenExplore, OpenHome, OpenSlides, Leave, SlidesUnmount, KvMount, SlidesNext,
           readingVars, slidesVars
<1> QED
  BY <1>1, <1>2, PTL DEF FairSpec

\* One page is open: two of three are not.
OnePage == \/ ExploreUnmounted /\ HomeUnmounted
           \/ ExploreUnmounted /\ SlidesUnmounted
           \/ HomeUnmounted /\ SlidesUnmounted

LEMMA ExploreMoves == ASSUME ExploreNext PROVE list # None
BY DEF ExploreNext, CommitFilter, ChooseOrder, ChooseStatus, Visit, ChooseDay, ToggleTag,
       ResetFilters, FiltersChange, Retry, PageChange, Showing, ListAnswered, Arrive

LEMMA HomeMoves ==
  ASSUME HomeNext PROVE week # None \/ line # None \/ auth # None \/ feed # None
BY DEF HomeNext, WeekNext, FeedNext, WeekRetry, LineRetry, AuthKnown, AuthChanges

LEMMA SlidesMove == ASSUME SlidesNext PROVE kv # Off \/ ep # Off
BY DEF SlidesNext, KvNext, KvFetched, KvTick, KvTimeout, KvPauseToggle, KvMotion, KvSelect,
       KvRunning, KvLoaded, EpNext, EpTick, EpTimeout, EpHover, EpLeave, EpFocus, EpBlur,
       EpMotion, EpClick, EpKey, EpRunning

LEMMA OnePageInvariance == FairSpec => []OnePage
<1>1. Init => OnePage
  BY DEF Init, OnePage
<1>2. OnePage /\ [Next]_readingVars => OnePage'
  <2> SUFFICES ASSUME OnePage, [Next]_readingVars PROVE OnePage'
    OBVIOUS
  <2>1. UNCHANGED exploreVars /\ ExploreUnmounted => ExploreUnmounted'
    BY DEF exploreVars, ExploreUnmounted
  <2>2. UNCHANGED homeVars /\ HomeUnmounted => HomeUnmounted'
    BY DEF homeVars, HomeUnmounted
  <2>3. UNCHANGED slidesVars /\ SlidesUnmounted => SlidesUnmounted'
    BY DEF slidesVars, SlidesUnmounted
  <2>4. ExploreUnmounted => ~ExploreNext
    BY ExploreMoves DEF ExploreUnmounted
  <2>5. HomeUnmounted => ~HomeNext
    BY HomeMoves DEF HomeUnmounted
  <2>6. SlidesUnmounted => ~SlidesNext
    BY SlidesMove DEF SlidesUnmounted
  <2>7. Leave => ExploreUnmounted' /\ HomeUnmounted' /\ SlidesUnmounted'
    BY DEF Leave, ExploreUnmount, HomeUnmount, SlidesUnmount, ExploreUnmounted, HomeUnmounted,
           SlidesUnmounted
  <2>8. OpenExplore \/ OpenHome \/ OpenSlides
          => /\ ExploreUnmounted /\ HomeUnmounted /\ SlidesUnmounted
             /\ \/ UNCHANGED homeVars /\ UNCHANGED slidesVars
                \/ UNCHANGED exploreVars /\ UNCHANGED slidesVars
                \/ UNCHANGED exploreVars /\ UNCHANGED homeVars
    BY DEF OpenExplore, OpenHome, OpenSlides, Elsewhere
  <2>9. CASE UNCHANGED readingVars
    BY <2>1, <2>2, <2>3, <2>9 DEF readingVars, OnePage
  <2>10. CASE Next
    BY <2>1, <2>2, <2>3, <2>4, <2>5, <2>6, <2>7, <2>8, <2>10 DEF Next, OnePage
  <2> QED
    BY <2>9, <2>10
<1> QED
  BY <1>1, <1>2, PTL DEF FairSpec

LEMMA FewOpen ==
  ASSUME OnePage
  PROVE  Cardinality({p \in {"explore", "home", "slides"} :
                        \/ p = "explore" /\ ~ExploreUnmounted
                        \/ p = "home"    /\ ~HomeUnmounted
                        \/ p = "slides"  /\ ~SlidesUnmounted}) <= 1
<1>1. PICK S : S = {p \in {"explore", "home", "slides"} :
                      \/ p = "explore" /\ ~ExploreUnmounted
                      \/ p = "home"    /\ ~HomeUnmounted
                      \/ p = "slides"  /\ ~SlidesUnmounted}
  OBVIOUS
<1>2. S = {} \/ \E p : S = {p}
  BY <1>1 DEF OnePage
<1>3. Cardinality(S) <= 1
  BY <1>2, FS_EmptySet, FS_Singleton
<1> QED
  BY <1>1, <1>3

LEMMA FewCalls == ASSUME WeekShown, week # None PROVE Cardinality(week.calls) <= MaxCalls
<1>1. PICK S : S = week.calls /\ (S = {} \/ \E c : S = {c})
  BY DEF WeekShown
<1>2. Cardinality(S) \in {0, 1}
  BY <1>1, FS_EmptySet, FS_Singleton
<1> QED
  BY <1>1, <1>2, FetchAssumption

LEMMA ExploreTyped == ASSUME FiltersInv, ListInv PROVE ExploreTypeOK
<1>1. PICK n \in Nat : n = Max({1, Len(Table)})
  BY FirstPage, TableFact, MaxOf
<1>2. filters \in ChosenFilters /\ filters.page <= n
  BY <1>1 DEF FiltersInv
<1>3. filters.page \in 1..n
  BY <1>2 DEF ChosenFilters
<1>4. filters = [srv |-> filters.srv, order |-> filters.order, status |-> filters.status,
                 day |-> filters.day, tags |-> filters.tags, page |-> filters.page]
  BY <1>2 DEF ChosenFilters
<1>5. filters \in [srv : SrvFilters \cup {None}, order : {None, "latest", "endingSoon"},
                   status : Statuses \cup {None}, day : Days \cup {None}, tags : SUBSET Tags,
                   page : 1..n]
  BY <1>2, <1>3, <1>4 DEF ChosenFilters
<1>6. list # None => list.loading \in BOOLEAN /\ list.error \in BOOLEAN
  BY DEF ListInv, IsFetch
<1> QED
  BY <1>1, <1>5, <1>6 DEF ExploreTypeOK, FiltersInv

LEMMA HomeTyped == ASSUME WeekShown, FairInv PROVE HomeTypeOK
<1>1. /\ week \in {None} \cup Fetches(HomeTables, {None})
      /\ line \in {None} \cup Fetches(HomeTables, {None})
      /\ line # None => week # None /\ ~week.error
  BY DEF WeekShown, Given
<1>2. CASE feed = None /\ auth = None
  BY <1>1, <1>2, FewCalls DEF HomeTypeOK
<1>3. CASE Given(feed, FairFeeds, PoolRequests) /\ auth \in Auths
  <2>1. FairFeeds \subseteq Feeds
    BY DEF FairFeeds
  <2>2. PoolRequests \subseteq FeedRequests
    BY DEF PoolRequests, FeedRequests, Pools
  <2>3. feed \in Fetches(Feeds, FeedRequests)
    <3>1. PICK cs \in SUBSET [req : PoolRequests, live : BOOLEAN] : cs = feed.calls
      BY <1>3 DEF Given, Fetches
    <3>2. cs \in SUBSET [req : FeedRequests, live : BOOLEAN]
      BY <2>2
    <3> QED
      BY <1>3, <2>1, <3>1, <3>2 DEF Given, Fetches
  <2>4. feed # None /\ auth # None
    BY <1>3, <2>3, NoneFact
  <2> QED
    BY <1>1, <1>3, <2>3, <2>4, FewCalls DEF HomeTypeOK
<1> QED
  BY <1>2, <1>3 DEF FairInv

LEMMA SlidesTyped == ASSUME KvInv, EpInv PROVE SlidesTypeOK
BY DEF KvInv, EpInv, Banners, Tabs, SlidesTypeOK

\* For any posts, filters, tables and sizes (ReadingTypeOK).
THEOREM PagesAreTyped == FairSpec => []ReadingTypeOK
<1>1. FiltersInv /\ ListInv /\ WeekShown /\ FairInv /\ KvInv /\ EpInv /\ OnePage => ReadingTypeOK
  BY ExploreTyped, HomeTyped, SlidesTyped, FewOpen DEF ReadingTypeOK
<1> QED
  BY <1>1, FiltersInvariance, ListInvariance, WeekShownInvariance, FairInvariance,
     BannerInvariance, EpInvariance, OnePageInvariance, PTL
=============================================================================

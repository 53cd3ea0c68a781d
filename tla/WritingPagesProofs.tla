------------------------- MODULE WritingPagesProofs -------------------------
(***************************************************************************)
(* Proofs about WritingPages: local days, for any zones and times; the     *)
(* bookmark button and the cards; the forms behind the e-mail codes.       *)
(***************************************************************************)
EXTENDS WritingPages, TLAPS

-----------------------------------------------------------------------------
(* Division by the length of a day. *)

LEMMA DayFact == Day \in Nat /\ Day > 0 /\ Day \in Int
BY DatesAssumption

LEMMA DivBounds ==
  ASSUME NEW D \in Nat, D > 0, NEW t \in Int
  PROVE  t \div D \in Int /\ (t \div D) * D <= t /\ t < (t \div D) * D + D
OBVIOUS

LEMMA ModOfMultiple ==
  ASSUME NEW D \in Nat, D > 0, NEW d \in Int
  PROVE  (d * D) % D = 0
<1>1. PICK m \in Int : m = d * D
  OBVIOUS
<1>2. PICK q \in Int, r \in 0..(D - 1) : q = m \div D /\ r = m % D /\ m = q * D + r
  OBVIOUS
<1>3. (d - q) * D = r
  BY <1>1, <1>2
<1>4. ASSUME d - q >= 1 PROVE FALSE
  <2>1. (d - q) * D >= 1 * D
    BY <1>4
  <2> QED
    BY <2>1, <1>3
<1>5. ASSUME d - q <= 0 - 1 PROVE FALSE
  <2>1. (d - q) * D <= (0 - 1) * D
    BY <1>5
  <2> QED
    BY <2>1, <1>3
<1>6. d = q
  BY <1>4, <1>5
<1> QED
  BY <1>1, <1>2, <1>3, <1>6

\* t lies on the day d or later just when it is not before the start of d.
LEMMA DivAtLeast ==
  ASSUME NEW D \in Nat, D > 0, NEW t \in Int, NEW d \in Int
  PROVE  t \div D >= d <=> t >= d * D
<1>1. PICK q \in Int : q = t \div D /\ q * D <= t /\ t < q * D + D
  BY DivBounds
<1>2. ASSUME q >= d PROVE t >= d * D
  <2>1. q * D >= d * D
    BY <1>2
  <2> QED
    BY <1>1, <2>1
<1>3. ASSUME t >= d * D PROVE q >= d
  <2> SUFFICES ASSUME q + 1 <= d PROVE FALSE
    OBVIOUS
  <2>1. (q + 1) * D <= d * D
    OBVIOUS
  <2>2. (q + 1) * D = q * D + D
    OBVIOUS
  <2> QED
    BY <1>1, <1>3, <2>1, <2>2
<1> QED
  BY <1>1, <1>2, <1>3

\* What a zone is.
LEMMA ZoneFact ==
  ASSUME NEW z \in Zones
  PROVE  /\ z.before \in Int /\ z.after \in Int /\ z.switch \in Int
         /\ 2 * (z.before - z.after) < Day /\ 2 * (z.after - z.before) < Day
         /\ \/ z.before = z.after
            \/ /\ (z.switch + z.before) \div Day = (z.switch + z.after) \div Day
               /\ (z.switch + z.before) % Day # 0 /\ (z.switch + z.after) % Day # 0
BY DatesAssumption

\* A midnight of the old offset lies before the change just when that of the new one does.
LEMMA MidnightsAtChange ==
  ASSUME NEW z \in Zones, NEW d \in Int, z.before # z.after
  PROVE  /\ d * Day <= z.switch + z.before <=> d * Day <= z.switch + z.after
         /\ d * Day # z.switch + z.before /\ d * Day # z.switch + z.after
<1> DEFINE b == z.switch + z.before
<1> DEFINE a == z.switch + z.after
<1>1. b \in Int /\ a \in Int
  BY ZoneFact
<1>2. b \div Day = a \div Day /\ b % Day # 0 /\ a % Day # 0
  BY ZoneFact
<1> HIDE DEF a, b
<1>3. (b \div Day >= d <=> b >= d * Day) /\ (a \div Day >= d <=> a >= d * Day)
  BY <1>1, DayFact, DivAtLeast
<1>4. d * Day \in Int /\ (d * Day) % Day = 0
  <2>1. d * Day \in Int
    BY DayFact
  <2>2. (d * Day) % Day = 0
    BY DayFact, ModOfMultiple
  <2> QED
    BY <2>1, <2>2
<1>5. (d * Day <= b <=> d * Day <= a) /\ d * Day # b /\ d * Day # a
  BY <1>1, <1>2, <1>3, <1>4
<1> QED
  BY <1>5 DEF a, b

-----------------------------------------------------------------------------
(* Days and midnights. *)

\* A day has begun just when its midnight has come: of any zone whose offset changes within
\* a day.
LEMMA DayBegins ==
  ASSUME NEW z \in Zones, NEW d \in Int, NEW t \in Int
  PROVE  /\ Midnight(z, d) \in Int /\ LocalDay(z, t) \in Int
         /\ t >= Midnight(z, d) <=> LocalDay(z, t) >= d
<1>1. PICK b \in Int, a \in Int, s \in Int : b = z.before /\ a = z.after /\ s = z.switch
  BY ZoneFact
<1>2. PICK m \in Int : m = d * Day
  BY DayFact
<1>3. /\ LocalDay(z, t) = (IF t < s THEN (t + b) \div Day ELSE (t + a) \div Day)
      /\ Midnight(z, d) = IF m - b < s THEN m - b ELSE m - a
  BY <1>1, <1>2 DEF LocalDay, Midnight
<1>4. /\ (t + b) \div Day \in Int /\ (t + a) \div Day \in Int
      /\ (t + b) \div Day >= d <=> t + b >= m
      /\ (t + a) \div Day >= d <=> t + a >= m
  BY <1>1, <1>2, DayFact, DivBounds, DivAtLeast
<1>5. b # a => (m <= s + b <=> m <= s + a) /\ m # s + b /\ m # s + a
  BY <1>1, <1>2, MidnightsAtChange
<1>6. Midnight(z, d) \in Int /\ LocalDay(z, t) \in Int
  BY <1>3, <1>4
<1>7. LocalDay(z, t) >= d <=> IF t < s THEN t + b >= m ELSE t + a >= m
  BY <1>3, <1>4
<1>8. t >= Midnight(z, d) <=> IF m - b < s THEN t >= m - b ELSE t >= m - a
  BY <1>3
<1>9. (IF t < s THEN t + b >= m ELSE t + a >= m) <=> (IF m - b < s THEN t >= m - b ELSE t >= m - a)
  BY <1>5
<1> QED
  BY <1>6, <1>7, <1>8, <1>9

\* Midnights keep the order of their days, and lie a day apart up to the change of offset.
LEMMA MidnightSpan ==
  ASSUME NEW z \in Zones, NEW d \in Int, NEW e \in Int
  PROVE  /\ 2 * (Midnight(z, e) - Midnight(z, d)) < 2 * ((e - d) * Day) + Day
         /\ 2 * (Midnight(z, e) - Midnight(z, d)) > 2 * ((e - d) * Day) - Day
<1>1. PICK b \in Int, a \in Int, s \in Int : b = z.before /\ a = z.after /\ s = z.switch
  BY ZoneFact
<1>2. PICK m \in Int, n \in Int : m = d * Day /\ n = e * Day
  BY DayFact
<1>3. (e - d) * Day = n - m
  BY <1>2, DayFact
<1>4. /\ Midnight(z, d) = IF m - b < s THEN m - b ELSE m - a
      /\ Midnight(z, e) = IF n - b < s THEN n - b ELSE n - a
  BY <1>1, <1>2 DEF Midnight
<1>5. 2 * (b - a) < Day /\ 2 * (a - b) < Day
  BY <1>1, ZoneFact
<1> QED
  BY <1>3, <1>4, <1>5, DayFact

LEMMA DayOfMidnight ==
  ASSUME NEW z \in Zones, NEW d \in Int
  PROVE  LocalDay(z, Midnight(z, d)) = d
<1>1. PICK m \in Int, n \in Int : m = Midnight(z, d) /\ n = Midnight(z, d + 1)
  BY DayBegins
<1>2. ((d + 1) - d) * Day = Day
  BY DayFact
<1>3. m < n
  BY <1>1, <1>2, MidnightSpan, DayFact
<1>4. LocalDay(z, m) \in Int /\ LocalDay(z, m) >= d /\ ~(LocalDay(z, m) >= d + 1)
  BY <1>1, <1>3, DayBegins
<1> QED
  BY <1>1, <1>4

\* A time lies on the day of an earlier one, or on a later day.
LEMMA DaysInOrder ==
  ASSUME NEW z \in Zones, NEW t \in Int, NEW u \in Int, t <= u
  PROVE  LocalDay(z, t) <= LocalDay(z, u)
<1>1. PICK d \in Int, m \in Int : d = LocalDay(z, t) /\ m = Midnight(z, d)
  BY DayBegins
<1>2. t >= m
  BY <1>1, DayBegins
<1>3. u >= m
  BY <1>1, <1>2
<1> QED
  BY <1>1, <1>3, DayBegins

\* Stripping the time compares days.
LEMMA StripCompares ==
  ASSUME NEW z \in Zones, NEW t \in Int, NEW d \in Int
  PROVE  /\ StripTime(z, t) \in Int
         /\ StripTime(z, t) >= Midnight(z, d) <=> LocalDay(z, t) >= d
         /\ StripTime(z, t) <= DayEnd(z, d) <=> LocalDay(z, t) <= d
         /\ t <= DayEnd(z, d) <=> LocalDay(z, t) <= d
<1>1. PICK q \in Int : q = LocalDay(z, t)
  BY DayBegins
<1>2. PICK s \in Int : s = Midnight(z, q) /\ s = StripTime(z, t)
  BY <1>1, DayBegins DEF StripTime
<1>3. LocalDay(z, s) = q
  BY <1>2, DayOfMidnight
<1>4. (s >= Midnight(z, d)) <=> q >= d
  BY <1>3, DayBegins
<1>5. Midnight(z, d + 1) \in Int
  BY DayBegins
<1>6. (s >= Midnight(z, d + 1)) <=> q >= d + 1
  BY <1>3, DayBegins
<1>7. (t >= Midnight(z, d + 1)) <=> q >= d + 1
  BY <1>1, DayBegins
<1> QED
  BY <1>1, <1>2, <1>4, <1>5, <1>6, <1>7 DEF DayEnd

\* Rounding counts the calendar days between two midnights.
LEMMA RoundingCountsDays ==
  ASSUME NEW z \in Zones, NEW d \in Int, NEW e \in Int
  PROVE  RoundedDays(Midnight(z, e) - Midnight(z, d)) = e - d
<1>1. PICK x \in Int : x = Midnight(z, e) - Midnight(z, d)
  BY DayBegins
<1>2. PICK k \in Int : k = e - d
  OBVIOUS
<1>3. PICK y \in Int : y = k * Day
  BY DayFact
<1>4. 2 * x < 2 * y + Day /\ 2 * x > 2 * y - Day
  BY <1>1, <1>2, <1>3, MidnightSpan
<1>5. PICK D \in Nat : D = 2 * Day /\ D > 0
  BY DayFact
<1>6. k * D = 2 * y /\ (k + 1) * D = 2 * y + 2 * Day
  BY <1>3, <1>5, DayFact
<1>7. PICK n \in Int : n = 2 * x + Day
  BY DayFact
<1>8. n >= k * D /\ ~(n >= (k + 1) * D)
  BY <1>4, <1>6, <1>7, DayFact
<1>9. n \div D \in Int /\ n \div D >= k /\ ~(n \div D >= k + 1)
  BY <1>5, <1>8, DivAtLeast, DivBounds
<1> QED
  BY <1>1, <1>2, <1>5, <1>7, <1>9 DEF RoundedDays

-----------------------------------------------------------------------------
(* The dates of a post. *)

\* A post on show has dates in order.
InOrder == \/ now = NoDates /\ popup = NoDates
           \/ now \in Int /\ popup \in [start : Int, end : Int] /\ popup.start <= popup.end

LEMMA StoresInOrder ==
  ASSUME NEW z \in Zones, NEW s \in Int, NEW e \in Int, Stores(z, s, e)
  PROVE  popup' \in [start : Int, end : Int] /\ popup'.start <= popup'.end
<1>1. PICK m \in Int, n \in Int : m = Midnight(z, s) /\ n = Midnight(z, e)
  BY DayBegins
<1>2. popup' = [start |-> m, end |-> n] /\ n >= m
  BY <1>1 DEF Stores
<1> QED
  BY <1>2

LEMMA FormDaysAreDays == FormDays \subseteq Int
BY DatesAssumption, DivBounds DEF FormDays

\* Between leaving and coming back every date shown is one the API stored in order.
LEMMA DatesInvariance == Spec => []InOrder
<1>1. Init => InOrder
  BY DEF Init, DatesUnmounted, InOrder
<1>2. InOrder /\ [Next]_writingVars => InOrder'
  <2> SUFFICES ASSUME InOrder, [Next]_writingVars PROVE InOrder'
    OBVIOUS
  <2> USE DatesAssumption
  <2>1. CASE UNCHANGED datesVars
    BY <2>1 DEF datesVars, InOrder
  <2>2. CASE DatesUnmount
    BY <2>2 DEF DatesUnmount, InOrder
  <2>3. CASE DatesMount
    <3>1. PICK z \in Zones, s \in FormDays, e \in FormDays : Stores(z, s, e) /\ now' = FirstTick
      BY <2>3 DEF DatesMount
    <3> QED
      BY <3>1, StoresInOrder, FormDaysAreDays DEF InOrder
  <2>4. CASE StripMount
    BY <2>4 DEF StripMount, InOrder
  <2>5. ASSUME NEW s \in FirstTick..LastTick, NEW e \in FirstTick..LastTick, StoreTimes(s, e)
        PROVE InOrder'
    BY <2>5 DEF StoreTimes, InOrder, DatesOpen
  <2>6. ASSUME NEW z \in Zones, ResubmitForm(z) PROVE InOrder'
    <3>1. DatesOpen /\ now' = now /\ Stores(z, DateInput(z, popup.start), DateInput(z, popup.end))
      BY <2>6 DEF ResubmitForm
    <3>2. popup.start \in Int /\ popup.end \in Int /\ now \in Int
      BY <3>1 DEF InOrder, DatesOpen
    <3>3. DateInput(z, popup.start) \in Int /\ DateInput(z, popup.end) \in Int
      BY <3>2, DayBegins DEF DateInput
    <3> QED
      BY <3>1, <3>2, <3>3, StoresInOrder DEF InOrder
  <2>7. ASSUME NEW z \in Zones, NEW s \in FormDays, NEW e \in FormDays, SaveForm(z, s, e)
        PROVE InOrder'
    BY <2>7, StoresInOrder, FormDaysAreDays DEF SaveForm, InOrder, DatesOpen
  <2>8. CASE Passes
    BY <2>8 DEF Passes, InOrder, DatesOpen
  <2>9. CASE PrevMonth \/ NextMonth
    BY <2>9 DEF PrevMonth, NextMonth, InOrder
  <2> QED
    BY <2>1, <2>2, <2>3, <2>4, <2>5, <2>6, <2>7, <2>8, <2>9
       DEF Next, OpenPost, OpenForm, OpenDates, Leave, DatesNext, writingVars, datesVars
<1> QED
  BY <1>1, <1>2, PTL DEF Spec

\* What an open post shows.
LEMMA OpenDatesFact ==
  ASSUME InOrder, DatesOpen
  PROVE  now \in Int /\ popup.start \in Int /\ popup.end \in Int /\ popup.start <= popup.end
BY DEF InOrder, DatesOpen

\* The badge of a post is that of the days it starts and ends on.
LEMMA StatusByDays ==
  ASSUME NEW z \in Zones, NEW p \in [start : Int, end : Int], p.start <= p.end, NEW t \in Int
  PROVE  /\ (PopupStatus(z, p, t) = "UPCOMING") = (LocalDay(z, t) < LocalDay(z, p.start))
         /\ (PopupStatus(z, p, t) = "ENDED") = (LocalDay(z, t) > LocalDay(z, p.end))
         /\ (PopupStatus(z, p, t) = "ONGOING") =
              (LocalDay(z, p.start) <= LocalDay(z, t) /\ LocalDay(z, t) <= LocalDay(z, p.end))
<1>1. PICK s \in Int, e \in Int, n \in Int :
        s = LocalDay(z, p.start) /\ e = LocalDay(z, p.end) /\ n = LocalDay(z, t)
  BY DayBegins
<1>2. s <= e
  BY <1>1, DaysInOrder
<1>3. /\ StripTime(z, t) \in Int /\ StripTime(z, p.start) \in Int /\ StripTime(z, p.end) \in Int
      /\ StripTime(z, p.start) = Midnight(z, s) /\ StripTime(z, t) = Midnight(z, n)
  BY <1>1, StripCompares DEF StripTime
<1>4. (StripTime(z, t) >= StripTime(z, p.start)) <=> n >= s
  BY <1>1, <1>3, StripCompares
<1>5. (StripTime(z, p.end) >= StripTime(z, t)) <=> e >= n
  BY <1>1, <1>3, StripCompares
<1>6. /\ (StripTime(z, t) < StripTime(z, p.start)) <=> n < s
      /\ (StripTime(z, t) > StripTime(z, p.end)) <=> n > e
  BY <1>3, <1>4, <1>5
<1> QED
  BY <1>1, <1>2, <1>6 DEF PopupStatus

\* Of two instants the later lies on the same day of length D or a later one, and when they are
\* less than a day apart on the next at most.
LEMMA DivNear ==
  ASSUME NEW D \in Nat, D > 0, NEW u \in Int, NEW v \in Int, u <= v, v < u + D
  PROVE  v \div D - u \div D \in 0..1
<1>1. PICK q \in Int : q = u \div D /\ q * D <= u /\ u < q * D + D
  BY DivBounds
<1>2. PICK r \in Int : r = v \div D
  BY DivBounds
<1>3. r >= q
  BY <1>1, <1>2, DivAtLeast
<1>4. ~(r >= q + 2)
  <2>1. (q + 2) * D = q * D + 2 * D
    BY <1>1
  <2>2. ~(v >= (q + 2) * D)
    BY <1>1, <2>1
  <2> QED
    BY <1>2, <2>2, DivAtLeast
<1> QED
  BY <1>1, <1>2, <1>3, <1>4

\* How far east of s the zone z is at the time t.
Gap(s, z, t) == (IF t < z.switch THEN z.before ELSE z.after)
                  - (IF t < s.switch THEN s.before ELSE s.after)

\* A browser to one side of the API is on the day of the API, or on the next day of that side.
LEMMA OffsetsApart ==
  ASSUME NEW s \in Zones, NEW z \in Zones, OneSideOf(s, z)
  PROVE  \/ \A t \in Int : Gap(s, z, t) \in 0..(Day - 1)
         \/ \A t \in Int : Gap(s, z, t) \in (1 - Day)..0
BY ZoneFact DEF OneSideOf, Gap

LEMMA DaysOfOneTime ==
  ASSUME NEW s \in Zones, NEW z \in Zones, NEW t \in Int
  PROVE  /\ Gap(s, z, t) \in 0..(Day - 1) => LocalDay(z, t) - LocalDay(s, t) \in 0..1
         /\ Gap(s, z, t) \in (1 - Day)..0 => LocalDay(s, t) - LocalDay(z, t) \in 0..1
<1>1. PICK u \in Int : u = t + (IF t < s.switch THEN s.before ELSE s.after)
  BY ZoneFact
<1>2. PICK v \in Int : v = t + (IF t < z.switch THEN z.before ELSE z.after)
  BY ZoneFact
<1>3. LocalDay(s, t) = u \div Day /\ LocalDay(z, t) = v \div Day
  BY <1>1, <1>2 DEF LocalDay
<1>4. Gap(s, z, t) = v - u
  BY <1>1, <1>2, ZoneFact DEF Gap
<1>5. ASSUME Gap(s, z, t) \in 0..(Day - 1)
      PROVE  LocalDay(z, t) - LocalDay(s, t) \in 0..1
  <2>1. u <= v /\ v < u + Day
    BY <1>4, <1>5, DayFact
  <2> QED
    BY <1>3, <2>1, DayFact, DivNear
<1>6. ASSUME Gap(s, z, t) \in (1 - Day)..0
      PROVE  LocalDay(s, t) - LocalDay(z, t) \in 0..1
  <2>1. v <= u /\ u < v + Day
    BY <1>4, <1>6, DayFact
  <2> QED
    BY <1>3, <2>1, DayFact, DivNear
<1> QED
  BY <1>5, <1>6

\* So that the two count at most one day more, or less, from one time to another.
LEMMA SpansDifferByOne ==
  ASSUME NEW s \in Zones, NEW z \in Zones, OneSideOf(s, z), NEW t \in Int, NEW u \in Int
  PROVE  /\ LocalDay(z, u) > LocalDay(z, t) => LocalDay(s, u) >= LocalDay(s, t)
         /\ LocalDay(z, u) > LocalDay(z, t) + 1 => LocalDay(s, u) > LocalDay(s, t)
<1>1. PICK zt \in Int, zu \in Int, st \in Int, su \in Int :
        /\ zt = LocalDay(z, t) /\ zu = LocalDay(z, u)
        /\ st = LocalDay(s, t) /\ su = LocalDay(s, u)
  BY DayBegins
<1>2. \/ zt - st \in 0..1 /\ zu - su \in 0..1
      \/ st - zt \in 0..1 /\ su - zu \in 0..1
  <2>1. CASE \A x \in Int : Gap(s, z, x) \in 0..(Day - 1)
    BY <1>1, <2>1, DaysOfOneTime
  <2>2. CASE \A x \in Int : Gap(s, z, x) \in (1 - Day)..0
    BY <1>1, <2>2, DaysOfOneTime
  <2> QED
    BY <2>1, <2>2, OffsetsApart
<1>3. (zu > zt => su >= st) /\ (zu > zt + 1 => su > st)
  BY <1>2
<1> QED
  BY <1>1, <1>3

\* The API's filter compares the days of the API.
LEMMA FilterByDays ==
  ASSUME NEW s \in Zones, NEW p \in [start : Int, end : Int], p.start <= p.end, NEW t \in Int
  PROVE  /\ StatusWhere(s, "ONGOING", p, t) =
              (LocalDay(s, p.start) <= LocalDay(s, t) /\ LocalDay(s, t) <= LocalDay(s, p.end))
         /\ StatusWhere(s, "UPCOMING", p, t) = (LocalDay(s, t) < LocalDay(s, p.start))
         /\ StatusWhere(s, "ENDED", p, t) = (LocalDay(s, t) > LocalDay(s, p.end))
<1>1. PICK f \in Int, l \in Int, n \in Int :
        f = LocalDay(s, p.start) /\ l = LocalDay(s, p.end) /\ n = LocalDay(s, t)
  BY DayBegins
<1>2. /\ (p.start <= DayEnd(s, n)) <=> f <= n
      /\ (p.end >= Midnight(s, n)) <=> l >= n
      /\ DayEnd(s, n) \in Int /\ Midnight(s, n) \in Int
  <2>1. (p.start <= DayEnd(s, n)) <=> f <= n
    BY <1>1, StripCompares
  <2>2. (p.end >= Midnight(s, n)) <=> l >= n
    BY <1>1, DayBegins
  <2>3. Midnight(s, n) \in Int /\ Midnight(s, n + 1) \in Int
    BY DayBegins
  <2> QED
    BY <2>1, <2>2, <2>3 DEF DayEnd
<1>3. StatusWhere(s, "ONGOING", p, t) = (f <= n /\ n <= l)
  BY <1>1, <1>2 DEF StatusWhere
<1>4. StatusWhere(s, "UPCOMING", p, t) = (n < f)
  BY <1>1, <1>2 DEF StatusWhere
<1>5. StatusWhere(s, "ENDED", p, t) = (n > l)
  BY <1>1, <1>2 DEF StatusWhere
<1> QED
  BY <1>1, <1>3, <1>4, <1>5

\* Wherever the API runs, at every time and for all dates in order, its status filter finds a
\* post under the badge it has there; in a browser less than a day to one side it does so on all
\* days but the first, the last and those next to them; and a closing badge counts the browser's
\* calendar days (FilterIsADayOutAtMost).
THEOREM FilterFollowsTheDays == Spec => []FilterIsADayOutAtMost
<1>1. ASSUME InOrder, DatesOpen, NEW s \in ServerZones, NEW status \in Statuses
      PROVE  StatusWhere(s, status, popup, now) = (PopupStatus(s, popup, now) = status)
  <2>1. popup \in [start : Int, end : Int] /\ popup.start <= popup.end /\ now \in Int
    BY <1>1 DEF InOrder, DatesOpen
  <2>2. s \in Zones
    BY DatesAssumption
  <2> QED
    BY <2>1, <2>2, StatusByDays, FilterByDays DEF Statuses
<1>2. ASSUME InOrder, DatesOpen, NEW s \in ServerZones, NEW z \in Zones, OneSideOf(s, z),
             LocalDay(z, now) \notin {LocalDay(z, popup.start) - 1, LocalDay(z, popup.start),
                                      LocalDay(z, popup.end), LocalDay(z, popup.end) + 1},
             NEW status \in Statuses
      PROVE  StatusWhere(s, status, popup, now) = (PopupStatus(z, popup, now) = status)
  <2>1. /\ popup \in [start : Int, end : Int] /\ popup.start <= popup.end /\ now \in Int
        /\ popup.start \in Int /\ popup.end \in Int
    BY <1>2 DEF InOrder, DatesOpen
  <2>2. s \in Zones
    BY DatesAssumption
  <2>3. PICK zf \in Int, zl \in Int, zn \in Int :
          zf = LocalDay(z, popup.start) /\ zl = LocalDay(z, popup.end) /\ zn = LocalDay(z, now)
    BY <2>1, DayBegins
  <2>4. PICK sf \in Int, sl \in Int, sn \in Int :
          sf = LocalDay(s, popup.start) /\ sl = LocalDay(s, popup.end) /\ sn = LocalDay(s, now)
    BY <2>1, <2>2, DayBegins
  <2>5. /\ zn > zf => sn >= sf
        /\ zl > zn => sl >= sn
        /\ zf > zn + 1 => sf > sn
        /\ zn > zl + 1 => sn > sl
    BY <1>2, <2>1, <2>2, <2>3, <2>4, SpansDifferByOne
  <2>6. zf <= zl /\ sf <= sl
    BY <2>1, <2>2, <2>3, <2>4, DaysInOrder
  <2>7. zn \notin {zf - 1, zf, zl, zl + 1}
    BY <1>2, <2>3
  <2>8. /\ (sf <= sn /\ sn <= sl) = (zf <= zn /\ zn <= zl)
        /\ (sn < sf) = (zn < zf)
        /\ (sn > sl) = (zn > zl)
    BY <2>5, <2>6, <2>7
  <2>9. /\ StatusWhere(s, "ONGOING", popup, now) = (sf <= sn /\ sn <= sl)
        /\ StatusWhere(s, "UPCOMING", popup, now) = (sn < sf)
        /\ StatusWhere(s, "ENDED", popup, now) = (sn > sl)
    BY <2>1, <2>2, <2>4, FilterByDays
  <2>10. /\ (PopupStatus(z, popup, now) = "ONGOING") = (zf <= zn /\ zn <= zl)
         /\ (PopupStatus(z, popup, now) = "UPCOMING") = (zn < zf)
         /\ (PopupStatus(z, popup, now) = "ENDED") = (zn > zl)
    BY <2>1, <2>3, StatusByDays
  <2> QED
    BY <2>8, <2>9, <2>10 DEF Statuses
<1>3. ASSUME InOrder, DatesOpen, NEW z \in Zones
      PROVE  DaysUntilEnd(z, popup, now) = LocalDay(z, popup.end) - LocalDay(z, now)
  <2>1. now \in Int /\ popup.end \in Int
    BY <1>3, OpenDatesFact
  <2>2. LocalDay(z, popup.end) \in Int /\ LocalDay(z, now) \in Int
    BY <2>1, DayBegins
  <2> QED
    BY <2>2, RoundingCountsDays DEF DaysUntilEnd, StripTime
<1>4. InOrder => FilterIsADayOutAtMost
  BY <1>1, <1>2, <1>3, Zenon DEF FilterIsADayOutAtMost
<1> QED
  BY <1>4, DatesInvariance, PTL

\* In every zone the week's list, the marks of the strip and the filter of a day find the same
\* posts (CalendarsAgree).
THEOREM ListsMatchMarks == Spec => []CalendarsAgree
<1>1. InOrder => CalendarsAgree
  <2> SUFFICES ASSUME InOrder, DatesOpen, NEW z \in Zones
               PROVE  /\ InWeek(z, popup, now) = (\E d \in WeekDays(z, now) : Marked(z, popup, d))
                      /\ \A d \in WeekDays(z, now) : Marked(z, popup, d) = CoversDay(z, popup, d)
    BY DEF CalendarsAgree
  <2>1. now \in Int /\ popup.start \in Int /\ popup.end \in Int /\ popup.start <= popup.end
    BY OpenDatesFact
  <2>2. PICK s \in Int, e \in Int, n \in Int :
          s = LocalDay(z, popup.start) /\ e = LocalDay(z, popup.end) /\ n = LocalDay(z, now)
    BY <2>1, DayBegins
  <2>3. s <= e
    BY <2>1, <2>2, DaysInOrder
  <2>4. ASSUME NEW c \in Int, NEW d \in Int
        PROVE  Overlaps(z, popup, Midnight(z, c), DayEnd(z, d)) = (e >= c /\ s <= d)
    BY <2>1, <2>2, StripCompares DEF Overlaps
  <2>5. PICK w \in Int : w = Sunday(n)
    BY <2>2 DEF Sunday
  <2>6. WeekDays(z, now) = w..(w + 6)
    BY <2>2, <2>5 DEF WeekDays
  <2>7. ASSUME NEW d \in w..(w + 6) PROVE Marked(z, popup, d) = CoversDay(z, popup, d)
    <3>1. d \in Int
      OBVIOUS
    <3>2. Marked(z, popup, d) = (d >= s /\ d <= e)
      BY <2>2 DEF Marked
    <3>3. CoversDay(z, popup, d) = (e >= d /\ s <= d)
      BY <3>1, <2>4 DEF CoversDay
    <3> QED
      BY <3>1, <3>2, <3>3
  <2>8. InWeek(z, popup, now) = (e >= w /\ s <= w + 6)
    BY <2>2, <2>4, <2>5 DEF InWeek
  <2>9. (\E d \in w..(w + 6) : Marked(z, popup, d)) = (e >= w /\ s <= w + 6)
    <3>1. \A d \in w..(w + 6) : Marked(z, popup, d) = (d >= s /\ d <= e)
      BY <2>2 DEF Marked
    <3>2. (\E d \in w..(w + 6) : d >= s /\ d <= e) <=> (e >= w /\ s <= w + 6)
      <4>1. ASSUME e >= w, s <= w + 6 PROVE \E d \in w..(w + 6) : d >= s /\ d <= e
        <5>1. CASE s >= w
          BY <5>1, <4>1, <2>3
        <5>2. CASE s < w
          <6>1. w \in w..(w + 6) /\ w >= s /\ w <= e
            BY <5>2, <4>1
          <6> QED
            BY <6>1
        <5> QED
          BY <5>1, <5>2
      <4> QED
        BY <4>1
    <3> QED
      BY <3>1, <3>2
  <2> QED
    BY <2>6, <2>7, <2>8, <2>9
<1> QED
  BY <1>1, DatesInvariance, PTL

\* Saving the edit form as it came up keeps both days of a post, in the zone of who saves it, in
\* every zone and whatever times of day were stored (EditKeepsDays).
THEOREM ResavingKeepsDays == Spec => EditKeepsDays
<1>1. InOrder /\ [Next]_writingVars =>
        [\A z \in Zones : ResubmitForm(z) =>
           /\ LocalDay(z, popup'.start) = LocalDay(z, popup.start)
           /\ LocalDay(z, popup'.end) = LocalDay(z, popup.end)]_datesVars
  <2> SUFFICES ASSUME InOrder, NEW z \in Zones, ResubmitForm(z)
               PROVE  /\ LocalDay(z, popup'.start) = LocalDay(z, popup.start)
                      /\ LocalDay(z, popup'.end) = LocalDay(z, popup.end)
    OBVIOUS
  <2>1. popup.start \in Int /\ popup.end \in Int
    BY OpenDatesFact DEF ResubmitForm
  <2>2. PICK s \in Int, e \in Int : s = LocalDay(z, popup.start) /\ e = LocalDay(z, popup.end)
    BY <2>1, DayBegins
  <2>3. popup' = [start |-> Midnight(z, s), end |-> Midnight(z, e)]
    BY <2>2 DEF ResubmitForm, Stores, DateInput
  <2> QED
    BY <2>2, <2>3, DayOfMidnight
<1> QED
  BY <1>1, DatesInvariance, PTL DEF Spec, EditKeepsDays

-----------------------------------------------------------------------------
(* The month strip. *)

\* The strip, where it is open, is on a month of the calendar.
StripOK == view = NoDates \/ view \in [month : Months, zone : Zones]

LEMMA StripInvariance == Spec => []StripOK
<1>1. Init => StripOK
  BY DEF Init, DatesUnmounted, StripOK
<1>2. StripOK /\ [Next]_writingVars => StripOK'
  <2> SUFFICES ASSUME StripOK, [Next]_writingVars PROVE StripOK'
    OBVIOUS
  <2>1. CASE UNCHANGED view
    BY <2>1 DEF StripOK
  <2>2. CASE DatesUnmount
    BY <2>2 DEF DatesUnmount, StripOK
  <2>3. CASE DatesMount
    BY <2>3 DEF DatesMount, StripOK
  <2>4. CASE StripMount
    BY <2>4 DEF StripMount, StripOK
  <2>5. CASE PrevMonth
    BY <2>5, Zenon DEF PrevMonth, StripOK
  <2>6. CASE NextMonth
    BY <2>6, Zenon DEF NextMonth, StripOK
  <2>7. DatesNext => UNCHANGED view \/ PrevMonth \/ NextMonth
    BY DEF DatesNext, StoreTimes, ResubmitForm, SaveForm, Passes
  <2> QED
    BY <2>1, <2>2, <2>3, <2>4, <2>5, <2>6, <2>7
       DEF Next, OpenPost, OpenForm, OpenDates, Leave, writingVars, datesVars
<1> QED
  BY <1>1, <1>2, PTL DEF Spec

\* A month begins, and has a day.
LEMMA MonthFact ==
  ASSUME NEW m \in Months
  PROVE  MonthStart[m] \in Int /\ MonthStart[m + 1] \in Int /\ MonthStart[m] < MonthStart[m + 1]
<1>1. MonthStart \in Seq(Int) /\ MonthStart[m] < MonthStart[m + 1]
  BY DatesAssumption DEF Months
<1>2. m \in 1..Len(MonthStart) /\ m + 1 \in 1..Len(MonthStart)
  BY <1>1 DEF Months
<1> QED
  BY <1>1, <1>2

LEMMA WeekOf ==
  ASSUME NEW d \in Int
  PROVE  d % 7 \in 0..6 /\ \E k \in Int : d - (d % 7) = 7 * k
<1>1. PICK k \in Int : k = d \div 7
  OBVIOUS
<1>2. d % 7 \in 0..6 /\ d = 7 * k + (d % 7)
  BY <1>1
<1> QED
  BY <1>2

LEMMA WeeksDivide == ASSUME NEW k \in Int PROVE (7 * k) % 7 = 0
OBVIOUS

\* The length of a grid counts calendar days, whatever hours the clocks lose or gain.
LEMMA GridCountsDays ==
  ASSUME NEW z \in Zones, NEW m \in Months
  PROVE  LET last == MonthStart[m + 1] - 1
         IN  GridLength(z, m) = last - Sunday(MonthStart[m]) + 1 + 6 - (last % 7)
<1>1. PICK s \in Int, e \in Int : s = MonthStart[m] /\ e = MonthStart[m + 1] - 1
  BY MonthFact
<1>2. PICK g \in Int : g = Sunday(s)
  BY <1>1 DEF Sunday
<1>3. RoundedDays(Midnight(z, e) - Midnight(z, g)) = e - g
  BY RoundingCountsDays
<1>4. GridLength(z, m) = RoundedDays(Midnight(z, e) - Midnight(z, g)) + 1 + 6 - (e % 7)
  BY <1>1, <1>2 DEF GridLength, GridStart
<1> QED
  BY <1>1, <1>2, <1>3, <1>4

\* In every zone and every calendar the grid of a month is the whole weeks that hold its days,
\* also where a day of it has an hour less or more (GridsAreWhole).
THEOREM MonthsInWholeWeeks == Spec => []GridsAreWhole
<1>1. StripOK => GridsAreWhole
  <2> SUFFICES ASSUME NEW z \in Zones, NEW m \in Months
               PROVE  /\ GridLength(z, m) % 7 = 0
                      /\ MonthDays(m) \subseteq MonthGrid(z, m)
                      /\ GridLength(z, m) - 14 < MonthStart[m + 1] - MonthStart[m]
    BY DEF StripOK, GridsAreWhole
  <2>1. PICK s \in Int, e \in Int : s = MonthStart[m] /\ e = MonthStart[m + 1] - 1 /\ s <= e
    BY MonthFact
  <2>2. PICK g \in Int, l \in Int : g = Sunday(s) /\ l = e - g + 1 + 6 - (e % 7)
    BY DEF Sunday
  <2>3. PICK a \in Int, b \in Int, i \in 0..6, j \in 0..6 :
          i = s % 7 /\ s - i = 7 * a /\ j = e % 7 /\ e - j = 7 * b
    BY WeekOf
  <2>4. g = s - i /\ l = e - g + 7 - j
    BY <2>2, <2>3 DEF Sunday
  <2>5. l = 7 * (b - a + 1)
    BY <2>3, <2>4
  <2>6. l % 7 = 0
    BY <2>5, WeeksDivide
  <2>7. g <= s /\ s < g + 7 /\ e <= g + l - 1 /\ g + l - 1 < e + 7
    BY <2>4
  <2>8. GridLength(z, m) = l
    BY <2>1, <2>2, GridCountsDays
  <2>9. MonthDays(m) = s..e
    BY <2>1, MonthFact DEF MonthDays
  <2>10. MonthGrid(z, m) = g..(g + l - 1)
    BY <2>1, <2>2, <2>8 DEF MonthGrid, GridStart
  <2>11. s..e \subseteq g..(g + l - 1)
    BY <2>7
  <2>12. l - 14 < MonthStart[m + 1] - MonthStart[m]
    BY <2>1, <2>7, MonthFact
  <2> QED
    BY <2>6, <2>8, <2>9, <2>10, <2>11, <2>12
<1> QED
  BY <1>1, StripInvariance, PTL

-----------------------------------------------------------------------------
(* The bookmark button and the card. *)

Hearts  == [kind : {"button", "card"}, on : BOOLEAN, base : {0, 1}, count : Int, busy : BOOLEAN]
Tables  == [text : [Ids -> Texts \cup {None}], next : Nat, marked : BOOLEAN]
Wrongs  == [lost : BOOLEAN, elsewhere : BOOLEAN, crossed : SUBSET Ids]
Toggles == [op : {"toggle"}, id : {None}, text : {None} \cup BOOLEAN, state : {"sent", "done"}]
FlightFields == {"op", "id", "text", "state"}

\* What the heart shows while its toggle is on the way: the button the bookmark as it is, the
\* card its guess of what it will be.
Expected == IF heart.kind = "button" THEN db.marked ELSE ~db.marked

\* Without a heart no toggle is in flight.
NoHeart == heart = None /\ \A f \in flights : DOMAIN f = FlightFields /\ f.op # "toggle"
\* With one nothing else is, and one toggle at most, for which the heart waits.
OneToggle == /\ page = None /\ box = None
             /\ heart \in Hearts /\ db \in Tables /\ wrong \in Wrongs /\ flights \subseteq Toggles
             /\ \A f, g \in flights : f = g
             /\ heart.busy <=> flights # {}
\* Unless the bookmark was toggled elsewhere since, a toggle that is done answers what is stored.
AnswersAreTrue == \A f \in flights : f.state = "done" =>
                    f.text \in BOOLEAN /\ (~wrong.elsewhere => f.text = db.marked)
GuessesAreRight == ~wrong.lost /\ ~wrong.elsewhere =>
                     /\ \A f \in flights : f.state = "sent" => heart.on = Expected
                     /\ ~heart.busy => heart.on = db.marked
CardsCount == heart.kind = "card" =>
                heart.count = IF heart.on THEN heart.base + 1 ELSE heart.base

HeartInv == NoHeart \/ (OneToggle /\ AnswersAreTrue /\ GuessesAreRight /\ CardsCount)

LEMMA HeartInit == Init => HeartInv
BY DEF Init, PostUnmounted, HeartInv, NoHeart

LEMMA HeartMounted == ASSUME HeartMount PROVE HeartInv'
<1>1. PICK kind \in {"button", "card"}, marked \in BOOLEAN, base \in {0, 1} :
        db' = Fresh(None, marked) /\ heart' = Heart(kind, marked, base)
  BY DEF HeartMount
<1>2. /\ page' = None /\ box' = None /\ flights' = {}
      /\ wrong' = [lost |-> FALSE, elsewhere |-> FALSE, crossed |-> {}]
  BY DEF HeartMount, NothingWrong
<1>3. heart' = [kind |-> kind, on |-> marked, base |-> base,
                count |-> IF marked THEN base + 1 ELSE base, busy |-> FALSE]
  BY <1>1 DEF Heart
<1>4. db' = [text |-> [i \in Ids |-> IF i = 1 THEN None ELSE None], next |-> 2, marked |-> marked]
  BY <1>1 DEF Fresh
<1>5. heart' \in Hearts
  BY <1>3 DEF Hearts
<1>6. db' \in Tables
  BY <1>4 DEF Tables
<1>7. wrong' \in Wrongs
  BY <1>2 DEF Wrongs
<1>8. heart'.on = marked /\ heart'.busy = FALSE /\ db'.marked = marked
  BY <1>3, <1>4
<1>9. heart'.kind = "card" => heart'.count = IF heart'.on THEN heart'.base + 1 ELSE heart'.base
  BY <1>3
<1> QED
  BY <1>2, <1>5, <1>6, <1>7, <1>8, <1>9
     DEF HeartInv, OneToggle, AnswersAreTrue, GuessesAreRight, CardsCount

LEMMA NoHeartStays ==
  ASSUME NoHeart, PostNext PROVE HeartInv'
<1> SUFFICES NoHeart'
  BY DEF HeartInv
<1>1. CASE \E c \in page.calls : PageAnswered(c)
  BY <1>1 DEF PageAnswered, NoHeart
<1>2. CASE PageRetry \/ CancelEdit \/ Toggle \/ ToggleElsewhere
  BY <1>2 DEF PageRetry, CancelEdit, Toggle, ToggleElsewhere, NoHeart
<1>4. ASSUME NEW op \in {"create", "save", "delete", "remove"}, NEW id, NEW text,
             Send(Flight(op, id, text)), heart' = heart
      PROVE  NoHeart'
  BY <1>4 DEF Flight, Send, NoHeart, FlightFields
<1>5. ASSUME NEW t \in Texts, Submit(t) \/ Typing(t) PROVE NoHeart'
  BY <1>4, <1>5 DEF Submit, Typing, NoHeart
<1>6. ASSUME NEW i \in Ids, StartEdit(i) \/ SaveEdit(i) \/ Delete(i) PROVE NoHeart'
  BY <1>4, <1>6 DEF StartEdit, SaveEdit, Delete, NoHeart
<1>7. CASE DeletePost
  BY <1>4, <1>7 DEF DeletePost
<1>8. ASSUME NEW f \in flights, Serve(f) PROVE NoHeart'
  <2>1. DOMAIN Reply(f) = FlightFields /\ Reply(f).op = f.op
    BY DEF NoHeart, Reply, FlightFields
  <2> QED
    BY <1>8, <2>1 DEF Serve, NoHeart
<1>9. ASSUME NEW f \in flights, OwnAnswered(f) \/ Removed(f) \/ Refused(f) \/ Lost(f)
      PROVE  NoHeart'
  BY <1>9 DEF OwnAnswered, Removed, PostUnmount, Refused, Lost, GivenUp, NoHeart
<1> QED
  BY <1>1, <1>2, <1>5, <1>6, <1>7, <1>8, <1>9 DEF PostNext

\* The toggle in flight is a record, and so is what is left of it when it was served.
LEMMA ToggleServed ==
  ASSUME NEW f \in Toggles, db \in Tables
  PROVE  /\ Reply(f) \in Toggles /\ Reply(f).state = "done" /\ Reply(f).text = ~db.marked
         /\ Effect(f) \in Tables /\ Effect(f).marked = ~db.marked
<1>1. f.op = "toggle" /\ db.marked \in BOOLEAN
  BY DEF Toggles, Tables
<1>2. Reply(f) = [f EXCEPT !.state = "done", !.text = ~db.marked]
  BY <1>1 DEF Reply
<1>3. Effect(f) = [db EXCEPT !.marked = ~db.marked]
  BY <1>1 DEF Effect
<1>4. [db EXCEPT !.marked = ~db.marked] \in Tables
  BY <1>1, Zenon DEF Tables
<1>5. PICK n \in BOOLEAN : n = ~db.marked
  OBVIOUS
<1>6. [f EXCEPT !.state = "done", !.text = n] \in Toggles
  BY <1>5 DEF Toggles
<1>7. [f EXCEPT !.state = "done", !.text = n].state = "done" /\ [f EXCEPT !.state = "done", !.text = n].text = n
  BY DEF Toggles
<1>8. [db EXCEPT !.marked = n].marked = n
  BY DEF Tables
<1> QED
  BY <1>2, <1>3, <1>4, <1>5, <1>6, <1>7, <1>8

\* A heart turned over with its count.
LEMMA TurnedOver ==
  ASSUME NEW on \in BOOLEAN, NEW count \in Int, NEW base \in Int
  PROVE  \E to \in BOOLEAN, n \in Int :
           /\ to = ~on /\ n = IF on THEN count - 1 ELSE count + 1
           /\ count = (IF on THEN base + 1 ELSE base) => n = IF to THEN base + 1 ELSE base
<1>1. CASE on
  <2>1. FALSE = ~on /\ count - 1 \in Int /\ (count = base + 1 => count - 1 = base)
    BY <1>1
  <2> QED
    BY <1>1, <2>1
<1>2. CASE ~on
  <2>1. TRUE = ~on /\ count + 1 \in Int /\ (count = base => count + 1 = base + 1)
    BY <1>2
  <2> QED
    BY <1>2, <2>1
<1> QED
  BY <1>1, <1>2

LEMMA Clicked ==
  ASSUME OneToggle, GuessesAreRight, CardsCount, Toggle
  PROVE  (OneToggle /\ AnswersAreTrue /\ GuessesAreRight /\ CardsCount)'
<1> USE DEF OneToggle
<1>1. PICK f : f = Flight("toggle", None, None)
  OBVIOUS
<1>2. f \in Toggles /\ f.state = "sent"
  BY <1>1 DEF Flight, Toggles
<1>3. ~heart.busy /\ flights' = {f} /\ db' = db /\ page' = page /\ box' = box /\ wrong' = wrong
  BY <1>1 DEF Toggle, Send
<1>4. heart.on \in BOOLEAN /\ heart.count \in Int /\ heart.base \in Int /\ db.marked \in BOOLEAN
  BY DEF Hearts, Tables
<1>5. CASE heart.kind = "button"
  <2>1. heart' = [heart EXCEPT !.busy = TRUE]
    BY <1>5 DEF Toggle
  <2>2. heart' \in Hearts
    BY <2>1, Zenon DEF Hearts
  <2>3. heart'.busy = TRUE /\ heart'.on = heart.on /\ heart'.kind = "button"
    BY <1>5, <2>1 DEF Hearts
  <2> QED
    BY <1>2, <1>3, <1>4, <1>5, <2>2, <2>3
       DEF AnswersAreTrue, GuessesAreRight, CardsCount, Expected
<1>6. CASE heart.kind = "card"
  <2>1. PICK on \in BOOLEAN, count \in Int :
          /\ on = ~heart.on /\ count = IF heart.on THEN heart.count - 1 ELSE heart.count + 1
          /\ CardsCount /\ heart.kind = "card" => count = IF on THEN heart.base + 1 ELSE heart.base
    BY <1>4, TurnedOver DEF CardsCount
  <2>2. heart' = [heart EXCEPT !.busy = TRUE, !.on = on, !.count = count]
    BY <1>6, <2>1 DEF Toggle
  <2>3. heart' \in Hearts
    BY <2>2, Zenon DEF Hearts
  <2>4. /\ heart'.busy = TRUE /\ heart'.on = on /\ heart'.kind = "card" /\ heart'.count = count
        /\ heart'.base = heart.base
    BY <1>6, <2>2 DEF Hearts
  <2>5. CardsCount'
    BY <1>4, <1>6, <2>1, <2>4 DEF CardsCount
  <2>6. GuessesAreRight'
    BY <1>3, <1>4, <1>6, <2>1, <2>4 DEF GuessesAreRight, Expected
  <2> QED
    BY <1>2, <1>3, <2>3, <2>4, <2>5, <2>6 DEF AnswersAreTrue
<1> QED
  BY <1>5, <1>6 DEF Hearts

LEMMA ToggledElsewhere ==
  ASSUME OneToggle, AnswersAreTrue, CardsCount, ToggleElsewhere
  PROVE  (OneToggle /\ AnswersAreTrue /\ GuessesAreRight /\ CardsCount)'
<1>1. /\ page' = page /\ box' = box /\ heart' = heart /\ flights' = flights
      /\ db' = [db EXCEPT !.marked = ~@] /\ wrong' = [wrong EXCEPT !.elsewhere = TRUE]
  BY DEF ToggleElsewhere
<1>2. db' \in Tables
  BY <1>1, Zenon DEF OneToggle, Tables
<1>3. wrong' \in Wrongs
  BY <1>1, Zenon DEF OneToggle, Wrongs
<1>4. wrong'.elsewhere = TRUE
  BY <1>1 DEF OneToggle, Wrongs
<1> QED
  BY <1>1, <1>2, <1>3, <1>4 DEF OneToggle, AnswersAreTrue, GuessesAreRight, CardsCount

LEMMA ToggleDone ==
  ASSUME OneToggle, AnswersAreTrue, GuessesAreRight, CardsCount, NEW f \in flights, Serve(f)
  PROVE  (OneToggle /\ AnswersAreTrue /\ GuessesAreRight /\ CardsCount)'
<1>1. f \in Toggles /\ f.op = "toggle" /\ db \in Tables /\ wrong \in Wrongs /\ flights = {f}
  BY DEF OneToggle, Toggles
<1>2. PICK g : g = Reply(f)
  OBVIOUS
<1>3. g \in Toggles /\ g.state = "done" /\ g.text = ~db.marked
  BY <1>1, <1>2, ToggleServed
<1>4. db' \in Tables /\ db'.marked = ~db.marked
  BY <1>1, ToggleServed DEF Serve
<1>5. /\ flights' = {g} /\ page' = page /\ box' = box /\ heart' = heart
      /\ wrong' = [wrong EXCEPT !.elsewhere = @ /\ f.op # "toggle"]
  BY <1>1, <1>2 DEF Serve
<1>6. wrong' = [wrong EXCEPT !.elsewhere = FALSE]
  BY <1>1, <1>5
<1>7. wrong' \in Wrongs
  BY <1>1, <1>6, Zenon DEF Wrongs
<1>8. heart.busy /\ heart \in Hearts
  BY <1>1 DEF OneToggle
<1> QED
  BY <1>1, <1>3, <1>4, <1>5, <1>7, <1>8
     DEF OneToggle, AnswersAreTrue, GuessesAreRight, CardsCount, Tables

LEMMA AnswerTaken ==
  ASSUME OneToggle, AnswersAreTrue, CardsCount, NEW f \in flights, OwnAnswered(f)
  PROVE  (OneToggle /\ AnswersAreTrue /\ GuessesAreRight /\ CardsCount)'
<1>1. f \in Toggles /\ f.op = "toggle" /\ f.state = "done" /\ flights = {f} /\ heart \in Hearts
  BY DEF OneToggle, Toggles, OwnAnswered
<1>2. PICK on \in BOOLEAN : on = f.text /\ (~wrong.elsewhere => on = db.marked)
  BY <1>1 DEF AnswersAreTrue
<1>3. heart.count \in Int /\ heart.base \in Int /\ heart.on \in BOOLEAN
  BY <1>1 DEF Hearts
<1>4. PICK count \in Int : count = IF heart.kind = "button" \/ on = heart.on THEN heart.count
                                   ELSE IF on THEN heart.count + 1 ELSE heart.count - 1
  BY <1>3
<1>5. heart' = [heart EXCEPT !.busy = FALSE, !.on = on, !.count = count]
  BY <1>1, <1>2, <1>4 DEF OwnAnswered, HeartDone
<1>6. heart' \in Hearts
  BY <1>1, <1>5, Zenon DEF Hearts
<1>7. /\ heart'.busy = FALSE /\ heart'.on = on /\ heart'.count = count
      /\ heart'.kind = heart.kind /\ heart'.base = heart.base
  BY <1>1, <1>5 DEF Hearts
<1>8. flights' = {} /\ db' = db /\ page' = page /\ wrong' = wrong /\ box' = None
  BY <1>1 DEF OwnAnswered, OneToggle
<1>9. CardsCount'
  BY <1>3, <1>4, <1>7 DEF CardsCount
<1> QED
  BY <1>2, <1>6, <1>7, <1>8, <1>9 DEF OneToggle, AnswersAreTrue, GuessesAreRight

\* A toggle given up puts the heart back.
LEMMA PutBack ==
  ASSUME OneToggle, CardsCount, NEW f \in flights, GivenUp(f)
  PROVE  /\ heart' \in Hearts /\ CardsCount' /\ flights' = {} /\ page' = None /\ box' = None
         /\ heart'.busy = FALSE
         /\ f.state = "sent" /\ GuessesAreRight /\ ~wrong.lost /\ ~wrong.elsewhere =>
              heart'.on = db.marked
<1>1. f.op = "toggle" /\ flights = {f} /\ heart \in Hearts /\ db \in Tables /\ page = None /\ box = None
  BY DEF OneToggle, Toggles
<1>2. flights' = {} /\ page' = None /\ box' = None
  BY <1>1 DEF GivenUp
<1>3. heart.on \in BOOLEAN /\ heart.count \in Int /\ heart.base \in Int /\ db.marked \in BOOLEAN
  BY <1>1 DEF Hearts, Tables
<1>4. CASE heart.kind = "button"
  <2>1. heart' = [heart EXCEPT !.busy = FALSE]
    BY <1>1, <1>4 DEF GivenUp, HeartFailed
  <2>2. heart' \in Hearts
    BY <1>1, <2>1, Zenon DEF Hearts
  <2>3. heart'.busy = FALSE /\ heart'.on = heart.on /\ heart'.kind = "button"
    BY <1>1, <1>4, <2>1 DEF Hearts
  <2> QED
    BY <1>1, <1>2, <1>4, <2>2, <2>3 DEF CardsCount, GuessesAreRight, Expected
<1>5. CASE heart.kind = "card"
  <2>1. PICK on \in BOOLEAN, count \in Int :
          /\ on = ~heart.on /\ count = IF heart.on THEN heart.count - 1 ELSE heart.count + 1
          /\ CardsCount /\ heart.kind = "card" => count = IF on THEN heart.base + 1 ELSE heart.base
    BY <1>3, TurnedOver DEF CardsCount
  <2>2. heart' = [heart EXCEPT !.busy = FALSE, !.on = on, !.count = count]
    BY <1>1, <1>5, <2>1 DEF GivenUp, HeartFailed
  <2>3. heart' \in Hearts
    BY <1>1, <2>2, Zenon DEF Hearts
  <2>4. /\ heart'.busy = FALSE /\ heart'.on = on /\ heart'.kind = "card"
        /\ heart'.count = count /\ heart'.base = heart.base
    BY <1>1, <1>5, <2>2 DEF Hearts
  <2>5. CardsCount'
    BY <1>3, <1>5, <2>1, <2>4 DEF CardsCount
  <2>6. f.state = "sent" /\ GuessesAreRight /\ ~wrong.lost /\ ~wrong.elsewhere =>
          heart'.on = db.marked
    BY <1>1, <1>3, <1>5, <2>1, <2>4 DEF GuessesAreRight, Expected
  <2> QED
    BY <1>2, <2>3, <2>4, <2>5, <2>6
<1> QED
  BY <1>1, <1>4, <1>5 DEF Hearts

LEMMA ToggleRefused ==
  ASSUME OneToggle, GuessesAreRight, CardsCount, NEW f \in flights, Refused(f)
  PROVE  (OneToggle /\ AnswersAreTrue /\ GuessesAreRight /\ CardsCount)'
<1>1. GivenUp(f) /\ f.state = "sent" /\ db' = db /\ wrong' = wrong
  BY DEF Refused
<1> QED
  BY <1>1, PutBack DEF OneToggle, AnswersAreTrue, GuessesAreRight

LEMMA ToggleLost ==
  ASSUME OneToggle, CardsCount, NEW f \in flights, Lost(f)
  PROVE  (OneToggle /\ AnswersAreTrue /\ GuessesAreRight /\ CardsCount)'
<1>1. GivenUp(f) /\ wrong' = [wrong EXCEPT !.lost = TRUE]
  BY DEF Lost
<1>2. wrong' \in Wrongs
  BY <1>1, Zenon DEF OneToggle, Wrongs
<1>3. wrong'.lost = TRUE
  BY <1>1 DEF OneToggle, Wrongs
<1>4. db' \in Tables
  BY ToggleServed DEF Lost, OneToggle
<1> QED
  BY <1>1, <1>2, <1>3, <1>4, PutBack DEF OneToggle, AnswersAreTrue, GuessesAreRight

LEMMA OneToggleStays ==
  ASSUME OneToggle, AnswersAreTrue, GuessesAreRight, CardsCount, PostNext
  PROVE  HeartInv'
<1>1. CASE Toggle
  BY <1>1, Clicked DEF HeartInv
<1>2. CASE ToggleElsewhere
  BY <1>2, ToggledElsewhere DEF HeartInv
<1>3. ASSUME NEW f \in flights, Serve(f) PROVE HeartInv'
  BY <1>3, ToggleDone DEF HeartInv
<1>4. ASSUME NEW f \in flights, OwnAnswered(f) PROVE HeartInv'
  BY <1>4, AnswerTaken DEF HeartInv
<1>5. ASSUME NEW f \in flights, Removed(f) PROVE HeartInv'
  BY <1>5 DEF Removed, OneToggle, Toggles
<1>6. ASSUME NEW f \in flights, Refused(f) PROVE HeartInv'
  BY <1>6, ToggleRefused DEF HeartInv
<1>7. ASSUME NEW f \in flights, Lost(f) PROVE HeartInv'
  BY <1>7, ToggleLost DEF HeartInv
\* Nothing else happens: neither a page nor comments are open.
<1>8. page = None /\ box = None
  BY DEF OneToggle
<1> QED
  BY <1>1, <1>2, <1>3, <1>4, <1>5, <1>6, <1>7, <1>8
     DEF PostNext, PageRetry, Submit, Typing, StartEdit, SaveEdit, Delete, CancelEdit, DeletePost

LEMMA HeartInvariance == Spec => []HeartInv
<1>1. HeartInv /\ [Next]_writingVars => HeartInv'
  <2> SUFFICES ASSUME HeartInv, [Next]_writingVars PROVE HeartInv'
    OBVIOUS
  <2>1. CASE UNCHANGED postVars
    BY <2>1 DEF postVars, HeartInv, NoHeart, OneToggle, AnswersAreTrue, GuessesAreRight,
                CardsCount, Expected
  <2>2. CASE HeartMount
    BY <2>2, HeartMounted
  <2>3. CASE PageMount
    BY <2>3 DEF PageMount, HeartInv, NoHeart
  <2>4. CASE PostUnmount
    BY <2>4 DEF PostUnmount, HeartInv, NoHeart
  <2>5. CASE PostNext
    BY <2>5, NoHeartStays, OneToggleStays DEF HeartInv
  <2> QED
    BY <2>1, <2>2, <2>3, <2>4, <2>5
       DEF Next, OpenPost, OpenForm, OpenDates, Leave, writingVars, postVars
<1> QED
  BY <1>1, HeartInit, PTL DEF Spec

\* However clicks, answers, failures and toggles from elsewhere fall, a heart at rest is the
\* bookmark and a card counts its own heart (HeartsAgree).
THEOREM HeartsAreRight == Spec => []HeartsAgree
<1>1. HeartInv => HeartsAgree
  BY DEF HeartInv, NoHeart, HeartsAgree, GuessesAreRight, CardsCount
<1> QED
  BY <1>1, HeartInvariance, PTL

-----------------------------------------------------------------------------
(* The forms behind the e-mail codes. *)

Forms == [kind : {"register", "reset"}, eligible : SUBSET FormEmails,
          email : FormEmails \cup {Blank}, password : FormPasswords \cup {Blank},
          code : (1..LastCode) \cup {Blank}, codeSent : BOOLEAN, verified : BOOLEAN]
FormCalls == [step : Steps, email : FormEmails, outcome : Outcomes \cup {Blank},
              password : FormPasswords \cup {Blank}, code : (1..LastCode) \cup {Blank}]
FormRows == [code : Nat, password : FormPasswords \cup {Blank}, verified : BOOLEAN]

FormTyped == /\ form \in Forms /\ asks \in [Steps -> FormCalls \cup {Blank}]
             /\ rows \in [FormEmails -> FormRows \cup {Blank}] /\ mailed \in Nat
             /\ late \in FormCalls \cup {Blank} /\ touched \in BOOLEAN
             /\ \A s \in Steps : asks[s] # Blank => asks[s].step = s
\* Nothing is asked before an e-mail is entered.
EmailFirst == form.email = Blank =>
                ~form.codeSent /\ ~form.verified /\ \A s \in Steps : asks[s] = Blank
\* An e-mail that is mailed no codes has no row.
OnlyEligible == \A e \in FormEmails : e \notin form.eligible => rows[e] = Blank
\* A call is about the form as it is.
About(a) == a.email = form.email /\ (a.step # "verify" => a.password = form.password)
CallsAboutForm == /\ \A s \in Steps : asks[s] # Blank => About(asks[s])
                  /\ late # Blank => About(late)
\* The form has come so far that its e-mail's row can only be one of its own.
Backed == \/ form.codeSent \/ form.verified
          \/ asks["send"] # Blank /\ asks["send"].outcome = "ok"
          \/ asks["verify"] # Blank \/ asks["submit"] # Blank
RowAsShown == rows[form.email] = Blank \/ rows[form.email].password = form.password
Untouched == form.kind = "register" /\ ~touched => CallsAboutForm /\ (Backed => RowAsShown)

FormInv == FormUnmounted \/ (FormTyped /\ EmailFirst /\ OnlyEligible /\ Untouched)

LEMMA StepsAre == "send" \in Steps /\ "verify" \in Steps /\ "submit" \in Steps
BY DEF Steps

LEMMA FormMounted == ASSUME FormUnmounted, FormMount PROVE FormInv'
<1>1. PICK kind \in {"register", "reset"}, to \in SUBSET FormEmails :
        form' = [kind |-> kind, eligible |-> to, email |-> Blank, password |-> Blank,
                 code |-> Blank, codeSent |-> FALSE, verified |-> FALSE]
  BY DEF FormMount
<1>2. /\ asks' = [s \in Steps |-> Blank] /\ rows' = [e \in FormEmails |-> Blank]
      /\ mailed' = 0 /\ late' = Blank /\ touched' = FALSE
  BY DEF FormMount, FormUnmounted, NoAsks
<1>3. form' \in Forms
  BY <1>1 DEF Forms
<1>4. \A s \in Steps : asks'[s] = Blank
  BY <1>2
<1>5. FormTyped'
  BY <1>2, <1>3, <1>4 DEF FormTyped
<1>6. ~form'.codeSent /\ ~form'.verified
  BY <1>1
<1>7. EmailFirst' /\ OnlyEligible' /\ ~Backed' /\ CallsAboutForm'
  BY <1>2, <1>4, <1>6, StepsAre DEF EmailFirst, OnlyEligible, Backed, CallsAboutForm
<1> QED
  BY <1>5, <1>7 DEF FormInv, Untouched

\* Starting over keeps the e-mail, and a registration its password.
LEMMA StartingOver ==
  ASSUME NEW f \in Forms, NEW x, x = StartOver(f)
  PROVE  /\ x \in Forms /\ ~x.codeSent /\ ~x.verified
         /\ x.kind = f.kind /\ x.eligible = f.eligible /\ x.email = f.email
         /\ x.kind = "register" => x.password = f.password
<1>1. PICK p \in FormPasswords \cup {Blank} : p = IF f.kind = "reset" THEN Blank ELSE f.password
  BY DEF Forms
<1>2. x = [f EXCEPT !.codeSent = FALSE, !.verified = FALSE, !.code = Blank, !.password = p]
  BY <1>1 DEF StartOver
<1>3. x \in Forms
  BY <1>2, Zenon DEF Forms
<1>4. /\ x.codeSent = FALSE /\ x.verified = FALSE /\ x.password = p
      /\ x.kind = f.kind /\ x.eligible = f.eligible /\ x.email = f.email
  BY <1>2 DEF Forms
<1> QED
  BY <1>1, <1>3, <1>4

\* An edit of a registration that changes what a call is about starts it over.
LEMMA EditKeeps ==
  ASSUME FormTyped, EmailFirst, OnlyEligible, Untouched, NEW f \in Forms, Edited(f),
         f.kind = form.kind, f.eligible = form.eligible,
         f.email = Blank => form.email = Blank /\ f.codeSent = form.codeSent
                                               /\ f.verified = form.verified,
         \/ ~f.codeSent /\ ~f.verified
         \/ f.kind = "reset"
         \/ /\ f.email = form.email /\ f.password = form.password
            /\ f.codeSent = form.codeSent /\ f.verified = form.verified
  PROVE  FormInv'
<1>1. /\ form' = f /\ asks' = asks /\ rows' = rows /\ mailed' = mailed /\ late' = late
      /\ touched' = (touched \/ asks # NoAsks \/ late # Blank)
  BY DEF Edited
<1>2. FormTyped' /\ OnlyEligible'
  BY <1>1 DEF FormTyped, OnlyEligible
<1>3. EmailFirst'
  BY <1>1 DEF EmailFirst
<1>4. Untouched'
  <2> SUFFICES ASSUME f.kind = "register", ~touched'
               PROVE  CallsAboutForm' /\ (Backed' => RowAsShown')
    BY <1>1 DEF Untouched
  <2>1. ~touched /\ late = Blank /\ \A s \in Steps : asks[s] = Blank
    BY <1>1 DEF NoAsks
  <2>2. CallsAboutForm'
    BY <1>1, <2>1 DEF CallsAboutForm
  <2>3. Backed' => f.codeSent \/ f.verified
    BY <1>1, <2>1, StepsAre DEF Backed
  <2>4. f.codeSent \/ f.verified => RowAsShown'
    <3> SUFFICES ASSUME f.codeSent \/ f.verified PROVE RowAsShown'
      OBVIOUS
    <3>1. /\ f.email = form.email /\ f.password = form.password
          /\ f.codeSent = form.codeSent /\ f.verified = form.verified
      OBVIOUS
    <3>2. RowAsShown
      BY <2>1, <3>1 DEF Untouched, Backed
    <3> QED
      BY <1>1, <3>1, <3>2 DEF RowAsShown
  <2> QED
    BY <2>2, <2>3, <2>4
<1> QED
  BY <1>2, <1>3, <1>4 DEF FormInv

LEMMA EmailChanged ==
  ASSUME FormTyped, EmailFirst, OnlyEligible, Untouched, NEW e \in FormEmails, ChangeEmail(e)
  PROVE  FormInv'
<1>1. PICK x : x = StartOver(form)
  OBVIOUS
<1>2. /\ x \in Forms /\ ~x.codeSent /\ ~x.verified
      /\ x.kind = form.kind /\ x.eligible = form.eligible
  BY <1>1, StartingOver DEF FormTyped
<1>3. PICK f : f = [x EXCEPT !.email = e]
  OBVIOUS
<1>4. f \in Forms
  BY <1>2, <1>3, Zenon DEF Forms
<1>5. /\ ~f.codeSent /\ ~f.verified /\ f.kind = x.kind /\ f.eligible = x.eligible /\ f.email = e
  BY <1>2, <1>3 DEF Forms
<1>6. Edited(f) /\ f.email # Blank
  BY <1>1, <1>3, <1>5, FormsAssumption DEF ChangeEmail
<1> QED
  BY <1>2, <1>4, <1>5, <1>6, EditKeeps

LEMMA PasswordChanged ==
  ASSUME FormTyped, EmailFirst, OnlyEligible, Untouched, NEW p \in FormPasswords,
         ChangePassword(p)
  PROVE  FormInv'
<1>1. CASE form.kind = "reset"
  <2>1. PICK f : f = [form EXCEPT !.password = p]
    OBVIOUS
  <2>2. f \in Forms
    BY <2>1, Zenon DEF FormTyped, Forms
  <2>3. /\ f.kind = form.kind /\ f.eligible = form.eligible /\ f.email = form.email
        /\ f.codeSent = form.codeSent /\ f.verified = form.verified
    BY <2>1 DEF FormTyped, Forms
  <2>4. Edited(f)
    BY <1>1, <2>1 DEF ChangePassword
  <2> QED
    BY <1>1, <2>2, <2>3, <2>4, EditKeeps
<1>2. CASE form.kind # "reset"
  <2>1. PICK x : x = StartOver(form)
    OBVIOUS
  <2>2. /\ x \in Forms /\ ~x.codeSent /\ ~x.verified
        /\ x.kind = form.kind /\ x.eligible = form.eligible /\ x.email = form.email
    BY <2>1, StartingOver DEF FormTyped
  <2>3. PICK f : f = [x EXCEPT !.password = p]
    OBVIOUS
  <2>4. f \in Forms
    BY <2>2, <2>3, Zenon DEF Forms
  <2>5. /\ ~f.codeSent /\ ~f.verified /\ f.kind = x.kind /\ f.eligible = x.eligible
        /\ f.email = x.email /\ f.codeSent = FALSE /\ f.verified = FALSE
    BY <2>2, <2>3 DEF Forms
  <2>6. Edited(f)
    BY <1>2, <2>1, <2>3 DEF ChangePassword
  <2>7. form.email = Blank => form.codeSent = FALSE /\ form.verified = FALSE
    BY DEF EmailFirst, FormTyped, Forms
  <2> QED
    BY <2>2, <2>4, <2>5, <2>6, <2>7, EditKeeps
<1> QED
  BY <1>1, <1>2

LEMMA CodeTyped ==
  ASSUME FormTyped, EmailFirst, OnlyEligible, Untouched, NEW k \in 1..LastCode, TypeCode(k)
  PROVE  FormInv'
<1>1. PICK f : f = [form EXCEPT !.code = k]
  OBVIOUS
<1>2. f \in Forms
  BY <1>1, Zenon DEF FormTyped, Forms
<1>3. /\ f.kind = form.kind /\ f.eligible = form.eligible /\ f.email = form.email
      /\ f.password = form.password /\ f.codeSent = form.codeSent /\ f.verified = form.verified
  BY <1>1 DEF FormTyped, Forms
<1>4. Edited(f)
  BY <1>1 DEF TypeCode
<1> QED
  BY <1>2, <1>3, <1>4, EditKeeps

\* A call begins with what the form shows; to verify and to submit the form must have come far
\* enough for its row to be its own.
LEMMA CallBegins ==
  ASSUME FormTyped, EmailFirst, OnlyEligible, Untouched, NEW s \in Steps, Asked(s),
         form.email # Blank, s # "send" => Backed
  PROVE  FormInv'
<1>1. PICK a : a = Ask(s)
  OBVIOUS
<1>2. a \in FormCalls /\ a.step = s /\ a.outcome = Blank /\ About(a)
  BY <1>1 DEF Ask, FormCalls, FormTyped, Forms, About
<1>3. /\ asks' = [asks EXCEPT ![s] = a] /\ asks[s] = Blank
      /\ form' = form /\ rows' = rows /\ mailed' = mailed /\ late' = late /\ touched' = touched
  BY <1>1 DEF Asked, Waits
<1>4. /\ asks' \in [Steps -> FormCalls \cup {Blank}]
      /\ asks'[s] = a /\ \A t \in Steps \ {s} : asks'[t] = asks[t]
  BY <1>2, <1>3 DEF FormTyped
<1>5. FormTyped'
  BY <1>2, <1>3, <1>4 DEF FormTyped
<1>6. EmailFirst' /\ OnlyEligible'
  BY <1>3 DEF EmailFirst, OnlyEligible
<1>7. CallsAboutForm => CallsAboutForm'
  BY <1>2, <1>3, <1>4 DEF CallsAboutForm, About
<1>8. Backed' => Backed
  <2>1. asks'["send"] # Blank /\ asks'["send"].outcome = "ok" =>
          asks["send"] # Blank /\ asks["send"].outcome = "ok"
    BY <1>2, <1>4, StepsAre, FormsAssumption DEF Outcomes
  <2>2. CASE s = "send"
    BY <1>3, <1>4, <2>1, <2>2, StepsAre DEF Backed
  <2>3. CASE s # "send"
    BY <2>3
  <2> QED
    BY <2>2, <2>3
<1>9. RowAsShown => RowAsShown'
  BY <1>3 DEF RowAsShown
<1> QED
  BY <1>3, <1>5, <1>6, <1>7, <1>8, <1>9 DEF FormInv, Untouched

LEMMA ClickedOn ==
  ASSUME FormTyped, EmailFirst, OnlyEligible, Untouched, SendCode \/ VerifyCode \/ SubmitForm
  PROVE  FormInv'
<1>1. CASE SendCode
  BY <1>1, CallBegins, StepsAre DEF SendCode
<1>2. CASE VerifyCode
  BY <1>2, CallBegins, StepsAre DEF VerifyCode, EmailFirst, Backed
<1>3. CASE SubmitForm
  BY <1>3, CallBegins, StepsAre DEF SubmitForm, EmailFirst, Backed
<1> QED
  BY <1>1, <1>2, <1>3

\* What a call may do to the rows: it stores its own password in the row of its e-mail, keeps
\* the passwords there are, and takes rows away.
RowsFollow(a, to) ==
  /\ to \in [FormEmails -> FormRows \cup {Blank}]
  /\ \A e \in FormEmails : e \notin form.eligible => to[e] = Blank
  /\ \A e \in FormEmails : \/ to[e] = Blank
                           \/ rows[e] # Blank /\ to[e].password = rows[e].password
                           \/ a.step = "send" /\ e = a.email /\ to[e].password = a.password
  /\ a.step = "send" => to[a.email] = Blank \/ to[a.email].password = a.password

LEMMA RowsKept ==
  ASSUME FormTyped, OnlyEligible, NEW a \in FormCalls,
         a.step = "send" => a.email \notin form.eligible
  PROVE  RowsFollow(a, rows) /\ RowsFollow(a, Without(a.email))
<1>1. a.email \in FormEmails /\ rows \in [FormEmails -> FormRows \cup {Blank}]
  BY DEF FormCalls, FormTyped
<1>2. /\ Without(a.email) \in [FormEmails -> FormRows \cup {Blank}]
      /\ \A e \in FormEmails : Without(a.email)[e] = IF e = a.email THEN Blank ELSE rows[e]
  BY <1>1 DEF Without
<1> QED
  BY <1>1, <1>2 DEF RowsFollow, OnlyEligible

LEMMA SendFollows ==
  ASSUME FormTyped, OnlyEligible, NEW a \in FormCalls, a.step = "send", NEW d \in SendServed(a)
  PROVE  d.outcome \in Outcomes /\ d.mailed \in Nat /\ RowsFollow(a, d.rows)
<1>1. CASE a.email \notin form.eligible
  <2>1. d = [outcome |-> "ok", rows |-> rows, mailed |-> mailed]
    BY <1>1 DEF SendServed, Served
  <2>2. d.outcome = "ok" /\ d.rows = rows /\ d.mailed = mailed
    BY <2>1
  <2> QED
    BY <1>1, <2>2, RowsKept DEF FormTyped, Outcomes
<1>2. CASE a.email \in form.eligible
  <2>1. PICK r : r = [code |-> mailed + 1, password |-> a.password, verified |-> FALSE]
    OBVIOUS
  <2>2. r \in FormRows /\ r.password = a.password
    BY <2>1 DEF FormRows, FormTyped, FormCalls
  <2>3. PICK to : to = [rows EXCEPT ![a.email] = r]
    OBVIOUS
  <2>4. d = [outcome |-> "ok", rows |-> to, mailed |-> mailed + 1]
    BY <1>2, <2>1, <2>3 DEF SendServed, Served
  <2>5. d.outcome = "ok" /\ d.rows = to /\ d.mailed = mailed + 1
    BY <2>4
  <2>6. /\ to \in [FormEmails -> FormRows \cup {Blank}]
        /\ \A e \in FormEmails : to[e] = IF e = a.email THEN r ELSE rows[e]
    BY <2>2, <2>3 DEF FormTyped
  <2>7. a.email \in FormEmails
    BY DEF FormCalls
  <2>8. RowsFollow(a, to)
    BY <1>2, <2>2, <2>6, <2>7 DEF RowsFollow, OnlyEligible
  <2> QED
    BY <2>5, <2>8 DEF FormTyped, Outcomes
<1> QED
  BY <1>1, <1>2

LEMMA VerifyFollows ==
  ASSUME FormTyped, OnlyEligible, NEW a \in FormCalls, a.step = "verify", NEW d \in VerifyServed(a)
  PROVE  d.outcome \in Outcomes /\ d.mailed \in Nat /\ RowsFollow(a, d.rows)
<1>1. ASSUME NEW o \in Outcomes, NEW to, RowsFollow(a, to), d = Served(o, to, mailed)
      PROVE  d.outcome \in Outcomes /\ d.mailed \in Nat /\ RowsFollow(a, d.rows)
  BY <1>1 DEF Served, FormTyped
<1>2. CASE \E o \in Outcomes : d = Served(o, rows, mailed)
  BY <1>1, <1>2, RowsKept
<1>3. CASE d = Served("wrong", Without(a.email), mailed)
  BY <1>1, <1>3, RowsKept DEF Outcomes
<1>4. CASE /\ rows[a.email] # Blank
           /\ d = Served("ok", [rows EXCEPT ![a.email].verified = TRUE], mailed)
  <2>1. a.email \in FormEmails /\ rows[a.email] \in FormRows
    BY <1>4 DEF FormCalls, FormTyped
  <2>2. PICK r : r = [rows[a.email] EXCEPT !.verified = TRUE]
    OBVIOUS
  <2>3. r \in FormRows
    BY <2>1, <2>2, Zenon DEF FormRows
  <2>4. r.password = rows[a.email].password
    BY <2>1, <2>2 DEF FormRows
  <2>5. PICK to : to = [rows EXCEPT ![a.email] = r]
    OBVIOUS
  <2>6. /\ to \in [FormEmails -> FormRows \cup {Blank}]
        /\ \A e \in FormEmails : to[e] = IF e = a.email THEN r ELSE rows[e]
    BY <2>3, <2>5 DEF FormTyped
  <2>7. RowsFollow(a, to)
    BY <1>4, <2>1, <2>4, <2>6 DEF RowsFollow, OnlyEligible
  <2>8. d = Served("ok", to, mailed)
    BY <1>4, <2>2, <2>5
  <2> QED
    BY <1>1, <2>7, <2>8 DEF Outcomes
<1> QED
  BY <1>2, <1>3, <1>4 DEF VerifyServed, Outcomes

LEMMA SubmitFollows ==
  ASSUME FormTyped, OnlyEligible, NEW a \in FormCalls, a.step = "submit", NEW d \in SubmitServed(a)
  PROVE  d.outcome \in Outcomes /\ d.mailed \in Nat /\ RowsFollow(a, d.rows)
<1>1. ASSUME NEW o \in Outcomes, NEW to, RowsFollow(a, to), d = Served(o, to, mailed)
      PROVE  d.outcome \in Outcomes /\ d.mailed \in Nat /\ RowsFollow(a, d.rows)
  BY <1>1 DEF Served, FormTyped
<1>2. d = Served("ok", Without(a.email), mailed) \/ d = Served("expired", rows, mailed)
  BY DEF SubmitServed
<1> QED
  BY <1>1, <1>2, RowsKept DEF Outcomes

LEMMA EffectsFollow ==
  ASSUME FormTyped, OnlyEligible, NEW a \in FormCalls, NEW d \in Effects(a)
  PROVE  d.outcome \in Outcomes /\ d.mailed \in Nat /\ RowsFollow(a, d.rows)
<1>1. a.step \in {"send", "verify", "submit"}
  BY DEF FormCalls, Steps
<1> QED
  BY <1>1, SendFollows, VerifyFollows, SubmitFollows DEF Effects

\* A call about the form leaves the form a row of its own.
LEMMA RowStaysOwn ==
  ASSUME FormTyped, NEW a \in FormCalls, About(a), NEW to, RowsFollow(a, to),
         form.email \in FormEmails
  PROVE  /\ RowAsShown => to[form.email] = Blank \/ to[form.email].password = form.password
         /\ a.step = "send" => to[form.email] = Blank \/ to[form.email].password = form.password
BY DEF About, RowsFollow, RowAsShown

LEMMA CallServed ==
  ASSUME FormTyped, EmailFirst, OnlyEligible, Untouched, NEW s \in Steps, ServeCall(s)
  PROVE  FormInv'
<1>0. PICK a : a = asks[s]
  OBVIOUS
<1>1. PICK d \in Effects(a) :
        /\ a = asks[s] /\ a # Blank /\ rows' = d.rows /\ mailed' = d.mailed
        /\ asks' = [asks EXCEPT ![s].outcome = d.outcome]
  BY <1>0 DEF ServeCall, Pending, Waits
<1>2. form' = form /\ late' = late /\ touched' = touched
  BY DEF ServeCall
<1>3. a \in FormCalls /\ a.step = s
  BY <1>1 DEF FormTyped
<1>4. d.outcome \in Outcomes /\ d.mailed \in Nat /\ RowsFollow(a, d.rows)
  BY <1>1, <1>3, EffectsFollow
<1>5. PICK b : b = [a EXCEPT !.outcome = d.outcome]
  OBVIOUS
<1>6. b \in FormCalls
  BY <1>3, <1>4, <1>5, Zenon DEF FormCalls
<1>7. /\ b.step = a.step /\ b.email = a.email /\ b.password = a.password
  BY <1>3, <1>5 DEF FormCalls
<1>8. asks' = [asks EXCEPT ![s] = b]
  BY <1>1, <1>5
<1>9. /\ asks' \in [Steps -> FormCalls \cup {Blank}]
      /\ asks'[s] = b /\ \A t \in Steps \ {s} : asks'[t] = asks[t]
  BY <1>6, <1>8 DEF FormTyped
<1>10. FormTyped' /\ OnlyEligible'
  BY <1>1, <1>2, <1>3, <1>4, <1>7, <1>9 DEF FormTyped, OnlyEligible, RowsFollow
<1>11. form.email # Blank /\ form.email \in FormEmails
  BY <1>1 DEF EmailFirst, FormTyped, Forms
<1>12. EmailFirst'
  BY <1>2, <1>11 DEF EmailFirst
<1>13. Untouched'
  <2> SUFFICES ASSUME form.kind = "register", ~touched
               PROVE  CallsAboutForm' /\ (Backed' => RowAsShown')
    BY <1>2 DEF Untouched
  <2>1. CallsAboutForm /\ (Backed => RowAsShown) /\ About(a)
    BY <1>1 DEF Untouched, CallsAboutForm
  <2>2. CallsAboutForm'
    BY <1>2, <1>7, <1>9, <2>1 DEF CallsAboutForm, About
  <2>3. CASE s = "send"
    BY <1>1, <1>2, <1>3, <1>4, <1>11, <2>1, <2>2, <2>3, RowStaysOwn DEF RowAsShown
  <2>4. CASE s # "send"
    <3>1. Backed
      BY <1>1, <2>4 DEF Backed, Steps
    <3>2. RowAsShown'
      BY <1>1, <1>2, <1>3, <1>4, <1>11, <2>1, <3>1, RowStaysOwn DEF RowAsShown
    <3> QED
      BY <2>2, <3>2
  <2> QED
    BY <2>3, <2>4
<1> QED
  BY <1>10, <1>12, <1>13 DEF FormInv

LEMMA LateServed ==
  ASSUME FormTyped, EmailFirst, OnlyEligible, Untouched, ServeLate
  PROVE  FormInv'
<1>0. PICK a : a = late
  OBVIOUS
<1>1. PICK d \in Effects(a) :
        a = late /\ a # Blank /\ rows' = d.rows /\ mailed' = d.mailed
  BY <1>0 DEF ServeLate
<1>2. form' = form /\ asks' = asks /\ late' = Blank /\ touched' = touched
  BY DEF ServeLate
<1>3. a \in FormCalls
  BY <1>1 DEF FormTyped
<1>4. d.mailed \in Nat /\ RowsFollow(a, d.rows)
  BY <1>1, <1>3, EffectsFollow
<1>5. FormTyped' /\ OnlyEligible' /\ EmailFirst'
  BY <1>1, <1>2, <1>4 DEF FormTyped, OnlyEligible, EmailFirst, RowsFollow
<1>6. Untouched'
  <2> SUFFICES ASSUME form.kind = "register", ~touched
               PROVE  CallsAboutForm' /\ (Backed' => RowAsShown')
    BY <1>2 DEF Untouched
  <2>1. CallsAboutForm /\ (Backed => RowAsShown) /\ About(a)
    BY <1>1 DEF Untouched, CallsAboutForm
  <2>2. CallsAboutForm'
    BY <1>2, <2>1 DEF CallsAboutForm, About
  <2>3. Backed' <=> Backed
    BY <1>2 DEF Backed
  <2>4. form.email \in FormEmails
    BY <1>3, <2>1 DEF About, FormCalls
  <2>5. RowAsShown => RowAsShown'
    BY <1>1, <1>2, <1>3, <1>4, <2>1, <2>4, RowStaysOwn DEF RowAsShown
  <2> QED
    BY <2>1, <2>2, <2>3, <2>5
<1> QED
  BY <1>5, <1>6 DEF FormInv

LEMMA RowExpired ==
  ASSUME FormTyped, EmailFirst, OnlyEligible, Untouched, NEW e \in FormEmails, RowExpires(e)
  PROVE  FormInv'
<1>1. /\ rows' = [rows EXCEPT ![e] = Blank]
      /\ form' = form /\ asks' = asks /\ mailed' = mailed /\ late' = late /\ touched' = touched
  BY DEF RowExpires, Without
<1>2. /\ rows' \in [FormEmails -> FormRows \cup {Blank}]
      /\ \A g \in FormEmails : rows'[g] = IF g = e THEN Blank ELSE rows[g]
  BY <1>1 DEF FormTyped
<1>3. FormTyped' /\ EmailFirst' /\ OnlyEligible'
  BY <1>1, <1>2 DEF FormTyped, EmailFirst, OnlyEligible
<1>4. CallsAboutForm => CallsAboutForm'
  BY <1>1 DEF CallsAboutForm, About
<1>5. Backed' => Backed /\ form.email \in FormEmails
  BY <1>1, StepsAre DEF Backed, EmailFirst, FormTyped, Forms
<1>6. RowAsShown /\ form.email \in FormEmails => RowAsShown'
  BY <1>1, <1>2 DEF RowAsShown
<1> QED
  BY <1>1, <1>3, <1>4, <1>5, <1>6 DEF FormInv, Untouched

\* An answer keeps what the form is about, and takes it further only when a call of it does.
LEMMA ReturnKeeps ==
  ASSUME FormTyped, EmailFirst, OnlyEligible, Untouched,
         NEW s \in Steps, asks[s] # Blank, NEW f \in Forms, Returns(s, f),
         f.kind = form.kind, f.eligible = form.eligible, f.email = form.email,
         f.kind = "register" => f.password = form.password,
         f.codeSent \/ f.verified => Backed,
         late' \in {late, asks[s]}
  PROVE  FormInv'
<1>1. /\ form' = f /\ asks' = [asks EXCEPT ![s] = Blank]
      /\ rows' = rows /\ mailed' = mailed /\ touched' = touched
  BY DEF Returns
<1>2. /\ asks' \in [Steps -> FormCalls \cup {Blank}]
      /\ asks'[s] = Blank /\ \A t \in Steps \ {s} : asks'[t] = asks[t]
  BY <1>1 DEF FormTyped
<1>3. late' \in FormCalls \cup {Blank}
  BY DEF FormTyped
<1>4. FormTyped' /\ OnlyEligible'
  BY <1>1, <1>2, <1>3 DEF FormTyped, OnlyEligible
<1>5. EmailFirst'
  BY <1>1 DEF EmailFirst
<1>6. Untouched'
  <2> SUFFICES ASSUME f.kind = "register", ~touched
               PROVE  CallsAboutForm' /\ (Backed' => RowAsShown')
    BY <1>1 DEF Untouched
  <2>1. CallsAboutForm /\ (Backed => RowAsShown)
    BY DEF Untouched
  <2>2. CallsAboutForm'
    BY <1>1, <1>2, <2>1 DEF CallsAboutForm, About
  <2>3. Backed' => Backed
    BY <1>1, <1>2, StepsAre DEF Backed
  <2>4. RowAsShown => RowAsShown'
    BY <1>1 DEF RowAsShown
  <2> QED
    BY <2>1, <2>2, <2>3, <2>4
<1> QED
  BY <1>4, <1>5, <1>6 DEF FormInv

LEMMA SendReturned ==
  ASSUME FormTyped, EmailFirst, OnlyEligible, Untouched, SendReturns
  PROVE  FormInv'
<1>1. PICK x : x = StartOver(form)
  OBVIOUS
<1>2. /\ x \in Forms /\ x.kind = form.kind /\ x.eligible = form.eligible
      /\ x.email = form.email /\ (x.kind = "register" => x.password = form.password)
  BY <1>1, StartingOver DEF FormTyped
<1>3. PICK f : f = [x EXCEPT !.codeSent = TRUE]
  OBVIOUS
<1>4. f \in Forms
  BY <1>2, <1>3, Zenon DEF Forms
<1>5. /\ f.kind = x.kind /\ f.eligible = x.eligible /\ f.email = x.email
      /\ f.password = x.password
  BY <1>2, <1>3 DEF Forms
<1>6. Returns("send", f) /\ late' = late /\ asks["send"] # Blank /\ Backed
  BY <1>1, <1>3 DEF SendReturns, Waits, Backed
<1> QED
  BY <1>2, <1>4, <1>5, <1>6, ReturnKeeps, StepsAre

LEMMA FormKept ==
  ASSUME FormTyped, EmailFirst, OnlyEligible, Untouched, NEW s \in Steps, asks[s] # Blank,
         Returns(s, form), late' \in {late, asks[s]}
  PROVE  FormInv'
<1>1. form \in Forms /\ (form.codeSent \/ form.verified => Backed)
  BY DEF FormTyped, Backed
<1> QED
  BY <1>1, ReturnKeeps

LEMMA StartedOver ==
  ASSUME FormTyped, EmailFirst, OnlyEligible, Untouched, NEW s \in Steps, asks[s] # Blank,
         Returns(s, StartOver(form)), late' = late
  PROVE  FormInv'
<1>1. PICK x : x = StartOver(form)
  OBVIOUS
<1>2. /\ x \in Forms /\ x.kind = form.kind /\ x.eligible = form.eligible
      /\ x.email = form.email /\ (x.kind = "register" => x.password = form.password)
      /\ ~x.codeSent /\ ~x.verified /\ Returns(s, x)
  BY <1>1, StartingOver DEF FormTyped
<1> QED
  BY <1>2, ReturnKeeps

LEMMA VerifyReturned ==
  ASSUME FormTyped, EmailFirst, OnlyEligible, Untouched, VerifyReturns
  PROVE  FormInv'
<1>1. asks["verify"] # Blank /\ late' = late
  BY DEF VerifyReturns, Waits
<1>2. CASE asks["verify"].outcome = "ok"
  <2>1. PICK f : f = [form EXCEPT !.verified = TRUE]
    OBVIOUS
  <2>2. f \in Forms
    BY <2>1, Zenon DEF FormTyped, Forms
  <2>3. /\ f.kind = form.kind /\ f.eligible = form.eligible /\ f.email = form.email
        /\ f.password = form.password
    BY <2>1 DEF FormTyped, Forms
  <2>4. Returns("verify", f) /\ Backed
    BY <1>1, <1>2, <2>1 DEF VerifyReturns, Backed
  <2> QED
    BY <1>1, <2>2, <2>3, <2>4, ReturnKeeps, StepsAre
<1>3. CASE asks["verify"].outcome = "expired"
  BY <1>1, <1>3, StartedOver, StepsAre DEF VerifyReturns
<1>4. CASE asks["verify"].outcome \notin {"ok", "expired"}
  <2>1. Returns("verify", form)
    BY <1>4 DEF VerifyReturns
  <2> QED
    BY <1>1, <2>1, FormKept, StepsAre
<1> QED
  BY <1>2, <1>3, <1>4

LEMMA SubmitReturned ==
  ASSUME FormTyped, EmailFirst, OnlyEligible, Untouched, SubmitReturns
  PROVE  FormInv'
<1>1. CASE FormUnmount
  BY <1>1 DEF FormUnmount, FormInv, FormUnmounted, NoAsks
<1>2. CASE asks["submit"] # Blank /\ Returns("submit", StartOver(form)) /\ late' = late
  BY <1>2, StartedOver, StepsAre
<1> QED
  BY <1>1, <1>2 DEF SubmitReturns, Waits

LEMMA NotAnswered ==
  ASSUME FormTyped, EmailFirst, OnlyEligible, Untouched, NEW s \in Steps, Unanswered(s)
  PROVE  FormInv'
<1>1. asks[s] # Blank /\ Returns(s, form) /\ late' \in {late, asks[s]}
  BY DEF Unanswered, Waits
<1> QED
  BY <1>1, FormKept

LEMMA FormInvariance == Spec => []FormInv
<1>1. Init => FormInv
  BY DEF Init, FormInv
<1>2. FormInv /\ [Next]_writingVars => FormInv'
  <2> SUFFICES ASSUME FormInv, [Next]_writingVars PROVE FormInv'
    OBVIOUS
  <2>1. CASE UNCHANGED formVars
    BY <2>1 DEF formVars, FormInv, FormUnmounted, FormTyped, EmailFirst, OnlyEligible, Untouched,
                CallsAboutForm, About, Backed, RowAsShown, NoAsks
  <2>2. CASE FormUnmounted /\ FormMount
    BY <2>2, FormMounted
  <2>3. CASE FormUnmount
    BY <2>3 DEF FormUnmount, FormInv, FormUnmounted, NoAsks
  <2>4. CASE FormNext
    <3>1. CASE FormUnmounted
      <4>1. form = Blank /\ late = Blank /\ \A s \in Steps : ~Waits(s)
        BY <3>1 DEF FormUnmounted, NoAsks, Waits
      <4> QED
        BY <2>4, <4>1, StepsAre
           DEF FormNext, ChangeEmail, Edited, RowExpires, TypeCode, ServeLate, SendReturns,
               VerifyReturns, SubmitReturns, ServeCall, Pending, Unanswered
    <3>2. CASE FormTyped /\ EmailFirst /\ OnlyEligible /\ Untouched
      BY <2>4, <3>2, EmailChanged, RowExpired, PasswordChanged, CodeTyped, ClickedOn, LateServed,
         SendReturned, VerifyReturned, SubmitReturned, CallServed, NotAnswered DEF FormNext
    <3> QED
      BY <3>1, <3>2 DEF FormInv
  <2> QED
    BY <2>1, <2>2, <2>3, <2>4
       DEF Next, OpenPost, OpenForm, OpenDates, Leave, Elsewhere, writingVars, formVars
<1> QED
  BY <1>1, <1>2, PTL DEF Spec

\* However sends, verifications and submits overlap, get lost or are served late, a registration
\* that is not edited meanwhile is accepted with the password that was in it at the click
\* (AcceptedAsShown).
THEOREM AcceptedIsWhatWasShown == Spec => []AcceptedAsShown
<1>1. FormInv => AcceptedAsShown
  <2> SUFFICES ASSUME FormInv, form # Blank, form.kind = "register", ~touched,
                      Pending("submit"), Accepted(asks["submit"])
               PROVE  rows[asks["submit"].email].password = asks["submit"].password
    BY DEF AcceptedAsShown
  <2>1. asks["submit"] # Blank
    BY DEF Pending, Waits
  <2>2. FormTyped /\ Untouched
    BY DEF FormInv, FormUnmounted
  <2>3. About(asks["submit"]) /\ RowAsShown /\ asks["submit"].step = "submit"
    BY <2>1, <2>2, StepsAre DEF Untouched, CallsAboutForm, Backed, FormTyped
  <2> QED
    BY <2>3 DEF About, RowAsShown, Accepted
<1> QED
  BY <1>1, FormInvariance, PTL
=============================================================================

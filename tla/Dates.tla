-------------------------------- MODULE Dates --------------------------------
(***************************************************************************)
(* Local days: when a popup is on, as the browser shows it, as the API     *)
(* filters it, and as the form stores it; this week; and the month strip.  *)
(*                                                                         *)
(* Time is counted in ticks, Day of them to a day, on a clock that has no  *)
(* zone: what `Date' keeps.  A zone adds its offset, which may change once *)
(* (daylight saving).  Local days are numbered; day 0 is a Sunday.         *)
(***************************************************************************)
EXTENDS Integers, Sequences, FiniteSets, FiniteSetsExt

CONSTANTS Day,          \* ticks of a day
          Zones,        \* [before, after : offsets in ticks, switch : a tick]
          ServerZones,  \* those of them the API may run in: UTC as deployed, for neither
                        \* Dockerfile nor docker-compose.prod.yml sets TZ
          FirstTick, LastTick,    \* from when to when the clock runs (bound)
          MonthStart,   \* the first days of the months of the calendar, in order, and the
                        \* day after the last of them (bound)
          NoDates       \* no page

\* A zone's midnights exist, each once: the change of its offset, of less than half a day, falls
\* within a day before and after it.
ASSUME DatesAssumption ==
  /\ Day \in Nat \ {0} /\ FirstTick \in Nat /\ LastTick \in Nat
  /\ NoDates \notin Int \cup [start : Int, end : Int]
  /\ MonthStart \in Seq(Int)
  /\ \A m \in 1..(Len(MonthStart) - 1) : MonthStart[m] < MonthStart[m + 1]
  /\ Zones \subseteq [before : Int, after : Int, switch : Int] /\ ServerZones \subseteq Zones
  /\ \A z \in Zones :
       /\ 2 * (z.before - z.after) < Day /\ 2 * (z.after - z.before) < Day
       /\ \/ z.before = z.after
          \/ /\ (z.switch + z.before) \div Day = (z.switch + z.after) \div Day
             /\ (z.switch + z.before) % Day # 0 /\ (z.switch + z.after) % Day # 0

VARIABLES popup,    \* startDate and endDate of a post, as stored
          now,      \* the time; NoDates while no page with dates is open
          view      \* the month the strip shows, and in which zone

datesVars == <<popup, now, view>>

DatesUnmounted == popup = NoDates /\ now = NoDates /\ view = NoDates
DatesUnmount   == popup' = NoDates /\ now' = NoDates /\ view' = NoDates

-----------------------------------------------------------------------------
(* Zones and days. *)

LocalDay(z, t) == (t + (IF t < z.switch THEN z.before ELSE z.after)) \div Day
\* new Date(y, m, d), and stripTime.
Midnight(z, d) == LET t == d * Day - z.before
                  IN  IF t < z.switch THEN t ELSE d * Day - z.after
StripTime(z, t) == Midnight(z, LocalDay(z, t))
\* 23:59:59.999
DayEnd(z, d) == Midnight(z, d + 1) - 1
WholeDays(ticks)   == ticks \div Day
RoundedDays(ticks) == (2 * ticks + Day) \div (2 * Day)

-----------------------------------------------------------------------------
(* Status: getPopupStatus in the zone z of the browser, buildStatusWhere in the zone s of the  *)
(* API's process.  The dates were stored at the midnights of the browser that saved the form.  *)

PopupStatus(z, p, t) == IF StripTime(z, t) < StripTime(z, p.start) THEN "UPCOMING"
                        ELSE IF StripTime(z, t) > StripTime(z, p.end) THEN "ENDED"
                        ELSE "ONGOING"
StatusWhereFromNow(s, status, p, t) ==
  CASE status = "ONGOING"  -> p.start <= DayEnd(s, LocalDay(s, t)) /\ p.end >= t
    [] status = "UPCOMING" -> p.start > DayEnd(s, LocalDay(s, t))
    [] status = "ENDED"    -> p.end < t
StatusWhere(s, status, p, t) ==
  CASE status = "ONGOING"  -> /\ p.start <= DayEnd(s, LocalDay(s, t))
                              /\ p.end >= Midnight(s, LocalDay(s, t))
    [] status = "UPCOMING" -> p.start > DayEnd(s, LocalDay(s, t))
    [] status = "ENDED"    -> p.end < Midnight(s, LocalDay(s, t))

\* getClosingSoonLabel: D-0 to D-3, or none.
DaysUntilEnd(z, p, t) == RoundedDays(StripTime(z, p.end) - StripTime(z, t))
ClosingSoon(z, p, t) == PopupStatus(z, p, t) = "ONGOING" /\ DaysUntilEnd(z, p, t) \in 0..3

-----------------------------------------------------------------------------
(* This week, and a day of the strip. *)

Sunday(d) == d - (d % 7)
WeekDays(z, t) == LET d == LocalDay(z, t) IN Sunday(d)..(Sunday(d) + 6)
OverlapsInside(z, p, from, to) == StripTime(z, p.end) > from /\ StripTime(z, p.start) < to
Overlaps(z, p, from, to) == StripTime(z, p.end) >= from /\ StripTime(z, p.start) <= to
InWeek(z, p, t) == LET d == Sunday(LocalDay(z, t))
                   IN  Overlaps(z, p, Midnight(z, d), DayEnd(z, d + 6))
CoversDay(z, p, d) == Overlaps(z, p, Midnight(z, d), DayEnd(z, d))
\* daysWithPosts
Marked(z, p, d) == d >= LocalDay(z, p.start) /\ d <= LocalDay(z, p.end)

-----------------------------------------------------------------------------
(* The form. *)

\* toDateInputValue, and the UTC slice its comment forbids.
DateInputUTC(z, t) == t \div Day
DateInput(z, t) == LocalDay(z, t)

\* handleSubmit of the form, and validateDateRange.
Stores(z, s, e) == /\ e >= s
                   /\ Midnight(z, e) >= Midnight(z, s)
                   /\ popup' = [start |-> Midnight(z, s), end |-> Midnight(z, e)]

FormDays == (FirstTick \div Day)..(LastTick \div Day)
DatesMount == \E z \in Zones, s, e \in FormDays :
                Stores(z, s, e) /\ now' = FirstTick /\ view' = NoDates
DatesOpen == now # NoDates
\* Any client may store times of day.
StoreTimes(s, e) == /\ DatesOpen /\ e >= s
                    /\ popup' = [start |-> s, end |-> e] /\ UNCHANGED <<now, view>>
SaveForm(z, s, e) == DatesOpen /\ Stores(z, s, e) /\ UNCHANGED <<now, view>>
\* The edit form, saved as it came up.  Saved in two zones by turns it moves the dates by a day
\* each time, so that they need the bound.
ResubmitForm(z) == /\ DatesOpen
                   /\ {DateInput(z, popup.start), DateInput(z, popup.end)} \subseteq FormDays
                   /\ Stores(z, DateInput(z, popup.start), DateInput(z, popup.end))
                   /\ UNCHANGED <<now, view>>
Passes == DatesOpen /\ now < LastTick /\ now' = now + 1 /\ UNCHANGED <<popup, view>>

-----------------------------------------------------------------------------
(* The month strip of the explore page. *)

Months == 1..(Len(MonthStart) - 1)
MonthDays(m) == MonthStart[m]..(MonthStart[m + 1] - 1)

StripMount == /\ popup' = NoDates /\ now' = NoDates
              /\ view' \in [month : Months, zone : Zones]
PrevMonth == /\ view # NoDates /\ view.month - 1 \in Months
             /\ view' = [view EXCEPT !.month = @ - 1] /\ UNCHANGED <<popup, now>>
NextMonth == /\ view # NoDates /\ view.month + 1 \in Months
             /\ view' = [view EXCEPT !.month = @ + 1] /\ UNCHANGED <<popup, now>>

\* getMonthGridDays: from the Sunday on or before the first of the month.
GridStart(m) == Sunday(MonthStart[m])
GridLength(z, m) == LET last == MonthStart[m + 1] - 1
                    IN  RoundedDays(Midnight(z, last) - Midnight(z, GridStart(m))) + 1
                          + 6 - (last % 7)
MonthGrid(z, m) == GridStart(m)..(GridStart(m) + GridLength(z, m) - 1)

DatesNext == \/ \E s, e \in FirstTick..LastTick : StoreTimes(s, e)
             \/ \E z \in Zones : ResubmitForm(z)
             \/ \E z \in Zones, s, e \in FormDays : SaveForm(z, s, e)
             \/ Passes \/ PrevMonth \/ NextMonth

-----------------------------------------------------------------------------
(* Properties. *)

Statuses == {"ONGOING", "UPCOMING", "ENDED"}

\* z lies east of s all along, or west of it, and by less than a day.
OneSideOf(s, z) == LET gaps == {z.before - s.before, z.before - s.after,
                                z.after - s.before, z.after - s.after}
                   IN  gaps \subseteq 0..(Day - 1) \/ gaps \subseteq (1 - Day)..0

\* The API's status filter finds a post under the badge it has in the zone of the API, and no
\* other, at any time of day and through a change of the clocks.  In a browser elsewhere, to one
\* side and less than a day away, it finds the post under the badge shown on every day but the
\* first, the last and the two next to them: there the API goes by its own day, and with the API
\* in UTC and the browser in Korea a post is filed under ENDED from nine o'clock of its last day
\* on.  The days left on a closing badge are those of the browser's calendar
\* (utils/popupStatus.ts:4-30, lib/popupStatus.ts:17-59).
FilterIsADayOutAtMost ==
  DatesOpen =>
    /\ \A s \in ServerZones, status \in Statuses :
         StatusWhere(s, status, popup, now) = (PopupStatus(s, popup, now) = status)
    /\ \A s \in ServerZones, z \in Zones : OneSideOf(s, z) =>
         LET first == LocalDay(z, popup.start)
             last  == LocalDay(z, popup.end)
         IN  LocalDay(z, now) \notin {first - 1, first, last, last + 1} =>
               \A status \in Statuses :
                 StatusWhere(s, status, popup, now) = (PopupStatus(z, popup, now) = status)
    /\ \A z \in Zones : ClosingSoon(z, popup, now) =>
         DaysUntilEnd(z, popup, now) = LocalDay(z, popup.end) - LocalDay(z, now)

\* A form saved unchanged leaves the days of the post, as they are in the zone of who saves
\* it (PopupPostForm.tsx:13-21,65-76).
EditKeepsDays ==
  [][\A z \in Zones : ResubmitForm(z) =>
       /\ LocalDay(z, popup'.start) = LocalDay(z, popup.start)
       /\ LocalDay(z, popup'.end) = LocalDay(z, popup.end)]_datesVars

\* What is listed, what is marked and what a click on a day finds are the same: a post is one
\* of this week just when a day of the strip is marked for it, and a day is marked just when
\* its filter keeps the post (weekRange.ts:9-49, PopupTimeline.tsx:187-199).
CalendarsAgree ==
  DatesOpen => \A z \in Zones :
    /\ InWeek(z, popup, now) = (\E d \in WeekDays(z, now) : Marked(z, popup, d))
    /\ \A d \in WeekDays(z, now) : Marked(z, popup, d) = CoversDay(z, popup, d)

\* The grid of a month is whole weeks that hold all its days and no week without one, also
\* when the clocks change in it (PopupTimeline.tsx:50-74).
GridsAreWhole ==
  view # NoDates =>
    /\ GridLength(view.zone, view.month) % 7 = 0
    /\ MonthDays(view.month) \subseteq MonthGrid(view.zone, view.month)
    /\ GridLength(view.zone, view.month) - 14 < MonthStart[view.month + 1] - MonthStart[view.month]
=============================================================================

-------------------------------- MODULE Home --------------------------------
(***************************************************************************)
(* The sections of the home page that fetch posts: this week's popups with *)
(* their timeline, and the popups picked for the user.                     *)
(*                                                                         *)
(* The timeline begins with a call of its own, because its parent has no   *)
(* posts to seed it with yet; seeded, it gives that call up.  The personal *)
(* feed follows the user of the auth store, who may change at any time: by *)
(* the answer of checkAuth or a login, by a logout, by a 401.              *)
(***************************************************************************)
EXTENDS Fetching, Lists, SequencesExt

CONSTANTS HomeUsers,
          HomePosts,     \* [created, which tells them apart; area; category; bookmarks]
          HomeTables,    \* what the table of posts may be, each newest first
          PoolLimit,     \* posts fetched to choose from, 40
          FeedLimit,     \* posts of the feed, 6
          SeoulCluster

\* What the feed asks for, and what it gets; the auth store.
FeedRequests == [user : HomeUsers \cup {None}, pool : Seq(HomePosts) \cup {None}]
Feeds == [user : HomeUsers \cup {None}, pool : Seq(HomePosts), marked : SUBSET HomePosts,
          posts : Seq(HomePosts)]
Auths == [user : HomeUsers \cup {None}, loading : BOOLEAN]

ASSUME HomeAssumption ==
  /\ \A p \in HomePosts : p.created \in Int /\ p.bookmarks \in Nat
  /\ \A p, q \in HomePosts : p.created = q.created => p = q
  /\ IsFiniteSet(HomePosts)
  /\ \A table \in HomeTables : table \in Seq(HomePosts) /\ IsInjective(table)
  /\ FeedLimit \in Nat /\ PoolLimit \in Nat /\ FeedLimit < PoolLimit
  /\ None \notin HomeUsers \cup HomeTables
  /\ None \notin Fetches(HomeTables, {None}) /\ None \notin Fetches(Feeds, FeedRequests)
  /\ None \notin Auths

VARIABLES week,    \* the fetch of ThisWeekSection; None while the page is not mounted
          line,    \* the fetch of its PopupTimeline; None while that is not shown
          auth,    \* the auth store: user and loading
          feed     \* the fetch of PersonalizedFeed

homeVars == <<week, line, auth, feed>>

HomeUnmounted == week = None /\ line = None /\ feed = None /\ auth = None
HomeUnmount   == week' = None /\ line' = None /\ feed' = None /\ auth' = None

-----------------------------------------------------------------------------
(* This week, and the timeline. *)

WeekMount == /\ week' = Mounted(None) /\ line' = Mounted(None)
             /\ feed' = None /\ auth' = None

\* The posts of the answer seed the timeline, whose effect then runs again, without a call.
\* With an error the section shows neither.
WeekAnswered(c) ==
  /\ \/ /\ \E table \in HomeTables : week' = Answered(week, c, table)
        /\ line' = IF line = None THEN None ELSE [line EXCEPT !.calls = Cancelled(line)]
     \/ /\ week' = Failed(week, c)
        /\ line' = None
  /\ UNCHANGED <<auth, feed>>

LineAnswered(c) ==
  /\ \/ \E table \in HomeTables : line' = Answered(line, c, table)
     \/ line' = Failed(line, c)
  /\ UNCHANGED <<week, auth, feed>>

WeekRetry == /\ week # None /\ week.error
             /\ week' = Refetched(Waiting(week), None)
             /\ line' = Mounted(None)
             /\ UNCHANGED <<auth, feed>>

\* The timeline's own button; seeded, its effect makes no call.
LineRetry == /\ line # None /\ line.error
             /\ line' = IF week.loading THEN Refetched(Waiting(line), None) ELSE Waiting(line)
             /\ UNCHANGED <<week, auth, feed>>

WeekHeard == week # None /\ \E c \in week.calls : c.live /\ WeekAnswered(c)
WeekNext == \/ week # None /\ \E c \in week.calls : WeekAnswered(c)
            \/ line # None /\ \E c \in line.calls : LineAnswered(c)
            \/ WeekRetry
            \/ LineRetry

-----------------------------------------------------------------------------
(* Recommendations. *)

AreasRelated(a, b) == a = b \/ {a, b} \subseteq SeoulCluster

\* preferenceScore over buildPreferenceMaps, ten times as much.
Score(p, marked) == 30 * Cardinality({q \in marked : AreasRelated(p.area, q.area)})
                      + 40 * Cardinality({q \in marked : q.category = p.category})
                      + Min({p.bookmarks, 20})

Popular(table) == Firsts(Sorted(table, LAMBDA p, q : p.bookmarks > q.bookmarks), PoolLimit)
Without(s, ps) == Kept(s, {i \in DOMAIN s : s[i] \notin ps})

\* The popular posts; when they do not fill the feed, the latest, read after them.
Pool(table, later) ==
  IF Len(Popular(table)) < FeedLimit
  THEN Popular(table) \o Without(Firsts(later, PoolLimit), ToSet(Popular(table)))
  ELSE Popular(table)

\* What a user with these bookmarks gets: first posts that are none of them, by score.
RankedRefilled(pool, marked) ==
  LET candidates == Sorted(Without(pool, marked),
                            LAMBDA p, q : \/ Score(p, marked) > Score(q, marked)
                                          \/ /\ Score(p, marked) = Score(q, marked)
                                             /\ p.created > q.created)
  IN  Firsts(candidates \o pool, FeedLimit)
Ranked(pool, marked) ==
  LET candidates == Sorted(Without(pool, marked),
                            LAMBDA p, q : \/ Score(p, marked) > Score(q, marked)
                                          \/ /\ Score(p, marked) = Score(q, marked)
                                             /\ p.created > q.created)
  IN  IF marked = {} THEN Firsts(pool, FeedLimit)
      ELSE Firsts(candidates \o Without(pool, ToSet(candidates)), FeedLimit)

-----------------------------------------------------------------------------
(* The feed.  Its call asks for posts first, and for bookmarks when somebody is shown. *)

Asked(user) == [user |-> user, pool |-> None]
Picked(user, pool, marked) == [user |-> user, pool |-> pool, marked |-> marked,
                               posts |-> Ranked(pool, marked)]

\* On a page load checkAuth has not come back, and there is no call; a link of the site leads
\* here with the user known.
FeedMount ==
  /\ \/ /\ auth' = [user |-> None, loading |-> TRUE]
        /\ feed' = [Mounted(None) EXCEPT !.calls = {}]
     \/ \E user \in HomeUsers \cup {None} :
          /\ auth' = [user |-> user, loading |-> FALSE]
          /\ feed' = Mounted(Asked(user))
  /\ week' = None /\ line' = None

\* The user to show changes, or is known for the first time: the effect runs; loading is
\* switched on when the key, which starts as the guest's, differs.
Shown(user) == /\ auth' = [user |-> user, loading |-> FALSE]
               /\ feed' = IF user = auth.user THEN Refetched(feed, Asked(user))
                          ELSE Refetched(Waiting(feed), Asked(user))
AuthKnown(user)   == /\ auth # None /\ auth.loading
                     /\ Shown(user) /\ UNCHANGED <<week, line>>
AuthChanges(user) == /\ auth # None /\ ~auth.loading /\ user # auth.user /\ CanRefetch(feed)
                     /\ Shown(user) /\ UNCHANGED <<week, line>>

\* The first answers; a guest is done.
PoolAnswered(c) ==
  /\ c.req.pool = None
  /\ \/ \E table \in HomeTables, later \in HomeTables :
          LET pool == Pool(table, later)
          IN  feed' = IF c.req.user = None THEN Answered(feed, c, Picked(None, pool, {}))
                      ELSE [feed EXCEPT !.calls = (@ \ {c}) \cup {[c EXCEPT !.req.pool = pool]}]
     \/ feed' = Failed(feed, c)
  /\ UNCHANGED <<week, line, auth>>

\* The bookmarks, of posts in the pool or not, which the API finds by the cookie; without them
\* the feed is the guests'.
\* A 401 signs the user out as well, which gives this very call up.
BookmarksAnswered(c) ==
  /\ c.req.pool # None
  /\ \/ /\ \E marked \in SUBSET HomePosts :
             feed' = Answered(feed, c, Picked(c.req.user, c.req.pool, marked))
        /\ UNCHANGED auth
     \/ /\ auth' = [auth EXCEPT !.user = None]
        /\ feed' = LET rest == Taken(feed, c)
                   IN  IF auth.user = None THEN rest
                       ELSE Refetched(Waiting(rest), Asked(None))
  /\ UNCHANGED <<week, line>>

FeedHeard == feed # None /\ \E c \in feed.calls :
                              c.live /\ (PoolAnswered(c) \/ BookmarksAnswered(c))
FeedNext == \/ \E user \in HomeUsers \cup {None} : AuthKnown(user) \/ AuthChanges(user)
            \/ feed # None /\ \E c \in feed.calls : PoolAnswered(c) \/ BookmarksAnswered(c)

HomeNext == WeekNext \/ FeedNext

\* Calls that are heard get an answer in the end, and checkAuth does (module Session).
HomeFairness == /\ WF_homeVars(WeekHeard) /\ WF_homeVars(FeedHeard)
                /\ WF_homeVars(\E user \in HomeUsers \cup {None} : AuthKnown(user))

-----------------------------------------------------------------------------
(* Properties. *)

HomeTypeOK == /\ week \in {None} \cup Fetches(HomeTables, {None})
              /\ line \in {None} \cup Fetches(HomeTables, {None})
              /\ auth \in {None} \cup Auths
              /\ feed \in {None} \cup Fetches(Feeds, FeedRequests)
              /\ week # None => Cardinality(week.calls) <= MaxCalls
              /\ line # None => week # None /\ ~week.error
              /\ (auth = None) = (feed = None)

\* Once the section has its posts, the timeline's own call, which may still be under way,
\* cannot replace them by an error (PopupTimeline.tsx:120-145).
SeededTimelineStays ==
  [][week # None /\ line # None /\ line' # None /\ ~week.loading /\ ~line.error
       => ~line'.error]_homeVars

\* The feed shown was fetched for the user shown, however often users came and went while it was
\* fetched, in two calls one after the other (PersonalizedFeed.tsx:15-44).
FeedIsTheUsers == feed # None /\ ~auth.loading /\ ~feed.loading /\ ~feed.error
                    => feed.data.user = auth.user

\* It repeats no post, is as long as the posts fetched allow, and shows a bookmarked post only
\* when those that are not bookmarked are used up (recommendations.ts:42-95).
FeedIsSound ==
  LET got   == feed.data
      fresh == ToSet(got.pool) \ got.marked
  IN  feed # None /\ ~auth.loading /\ ~feed.loading /\ ~feed.error =>
        /\ IsInjective(got.posts)
        /\ Len(got.posts) = Min({FeedLimit, Len(got.pool)})
        /\ got.marked # {} /\ ToSet(got.posts) \cap got.marked # {}
             => fresh \subseteq ToSet(got.posts)

\* Neither section loads for ever, but for a feed whose user keeps changing, which loads anew
\* each time (ThisWeekSection.tsx:18-43, PersonalizedFeed.tsx:15-44).
HomeSettles ==
  /\ []<>(week = None \/ ~week.loading)
  /\ []<>(feed = None \/ ~feed.loading) \/ []<><<auth' # auth>>_homeVars
=============================================================================

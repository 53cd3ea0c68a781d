# POPCAST in TLA+

A verification development kept beside the POPCAST sources: an Express 5 + Prisma 7 (MySQL)
API in `src/`, a Next.js front end in `frontend/`. It models the parts where something can
go wrong that a test would hardly reach, checks them with TLC on small instances, and proves
the central properties with TLAPS for every instance. Paths below are those of the repository.

## Inventory

| Component | State | Operations | What makes it correct | Here |
|---|---|---|---|---|
| E-mail codes (`lib/emailVerificationStore.ts`, `lib/passwordResetStore.ts`, `modules/auth/auth.service.ts`) | table `VerificationCode`, one row per (email, purpose); `User.password` | send, verify, register; forgot, verify-reset, reset | a code is used once, by somebody who presented it; accounts change only through it; attempts are counted per code | `AuthCodes`, `OneTimeGrant` |
| Rate limiter (`middlewares/rate-limit.middleware.ts`) | `Map` key -> (count, resetAt), in memory | one request | exactly `max` requests a window; `Retry-After` suffices | `RateLimit` |
| Posts (`modules/posts`) | table `Post` | create, update, delete | author only; dates in order; KV flag by ADMIN | `Content` |
| Comments (`modules/comments`) | table `Comment` | create, update, delete | author or ADMIN; no comment without post | `Content` |
| Bookmarks (`modules/bookmarks`) | table `Bookmark`, unique (user, post) | toggle | removes what it saw; no bookmark without post | `Content` |
| Post queries (`post.service.ts`, `utils/popupStatus.ts`) | none | list, detail | the status filter agrees with the badge where browser and API share a zone, and elsewhere on all but the days at the ends of a post; pages neither lose nor repeat posts | `ExploreFeed`, `Dates` |
| Session (`auth.middleware.ts`, `csrf.middleware.ts`, `frontend/src/lib/api.ts`, `useAuthStore.ts`), with the profile | cookies shared by tabs; token and store of each tab | load, login, me, logout, any write, profile | a tab writes in the name of the user it shows; loading ends | `Session` |
| Register and forgot-password pages | form, three calls | send, verify, submit, edits | what is accepted is what the form showed | `CodeForms` |
| Explore feed, filters, pagination | filters, URL, page, calls | change, fetch, answer, retry, page | the cards are those of the filters; loading ends | `ExploreFeed` |
| Home: this week, timeline, recommendations | data, calls, user shown | fetch, seed, retry, change of user | a feed is the shown user's; sections settle | `Home` |
| Home: banner and editor's picks | index, timer, pause, ring | tick, pause, select, keys, hover | ring and timer agree; slides move on | `Slides` |
| Detail page, card, comments, bookmark | list, editor, heart, calls | submit, edit, delete, toggle, answer | agrees with the server once calls have ended | `PostPage` |
| Days: status, week, month strip, post form | dates of a post, the month shown | form, clock, months | badge, list, strip and form mean the browser's days; the API means its own | `Dates` |
| Validation and role middlewares, mail transport, layout, configuration | - | - | no behaviour of their own to check | not modelled |

How they interact: all handlers run in one Node process, so a handler runs alone between two
`await`s and anything may run while it waits. They share only the database, in which no
handler opens a transaction, so each Prisma call is atomic and a chain of them is not. The process is
restarted when it dies (`restart: unless-stopped`): tables survive, requests and the
limiter's Map do not. The browser gives up after 15 s and may call again. Tabs of one browser share
its cookies and nothing else; a component of a page hears the answers of its own calls, in whatever
order they come, and applies them to the state it has by then.

Hard behaviours, with their lines, are the `hazards` of `PROJECT.json`: rows read before an
`await` and used after it, writes by id of rows re-issued since, chains that fail half-way,
requests repeated while the first one runs, unique keys and foreign keys as the only arbiters
of races, rounding and boundaries in the limiter and of local days; and in the browser answers that
overtake each other, edits, other tabs or the user, flags that some answer must clear, and timers
that many events restart.

## Modules

* `OneTimeGrant` - the promise of the e-mail codes with no requests, rows or crashes:
  tickets are issued, proved, spent at most once, voided at any time, and an account is opened
  or changed only by using up a spent ticket of its e-mail and purpose. It is a
  specification of what the code is for and translates no code.
* `AuthCodes` - the tables and the requests in flight. A handler is a chain of steps: the first
  (`SendVerificationCode`, `ForgotPassword`, `Verify`, `Register`, `ResetPassword`) does
  everything up to and including the first database read and the decisions made on it; each
  later step (`SetPending`, `SendMail`, `DropRow`, `CountMiss`, `MarkVerified`, `Consume`,
  `CreateUser`, `FindUser`, `UpdatePassword`) is one call. A request keeps what the handler
  keeps in local variables: the id, the attempt count and the password hash it read.
  `DbError` fails any database call, `Crash` loses all requests, `Expire` lets the five
  minutes of a row pass. `verify` and `verifyReset` share `Verify`: the two stores hold the
  same code twice.
  - Abstractions. Time is one bit per row (`expired`), because the code only asks
    `Date.now() > expiresAt`; a comparison of HMACs is equality of codes; a password stands
    for the hash and the name stored with it; `bcrypt.hash` has no effect and is not a step.
    E-mails are normalised (`trim`, `toLowerCase`) before every use, so the members of `Emails` are the
    normalised ones. Error statuses of 500 and above are one (`errorHandler` masks them in
    production); an insert that loses a race for a unique key answers 409, as it does there.
  - The branch `attempts >= MAX_CODE_ATTEMPTS` at the head of `verifyCode` deletes the row and
    answers 429 as the last attempt does. `TypeOK` shows that it is never taken: a stored
    count stays below the limit.
  - `proved`, `matched`, `missed` are ghosts: they enable nothing.
* `RateLimit` - one limiter; time in ticks, `Second` ticks to a second, since milliseconds
  are rounded to seconds in `Retry-After`. A restart empties the Map. The ghost `passed` holds, for every
  instant, how many requests were let through before it, so that any stretch of time can be counted.
* `Content` - posts, comments and bookmarks. `Begin` is `authMiddleware`: the role is read
  there once and used later by the post handlers, while the comment handlers read it again
  (`ReadRole`). Then one step per database call. Unique keys, foreign keys and cascades are those of
  `schema.prisma`. Roles are changed in the database by hand (`ChangeRole`): no endpoint does.
  Titles, texts and images are left out; `dto` holds the dates and `isKv`, where `Absent` is
  undefined and `Null` is null. Users are never deleted by any endpoint, so their cascade is not here.
* `Session` - one browser: the cookie jar, each tab's auth store and CSRF token, and the calls in
  flight. A call carries the cookies of the moment it was sent (`Get`, `Write`); its answer
  changes jar and tab at the moment it arrives. `Unauthorized` is every 401: no access token, or (and then
  both cookies are cleared) a token that fails or a user that was not found, or not looked up
  because the database failed, which `setUserFromToken` does not tell apart. `Load` is a page
  load, `SaveAnswered` the profile's answer, `Lost` an answer that does not come. CSRF tokens are
  random in the code; here they are numbered and an unused number is as good as new. A tab has at most one
  call of each kind in flight, as its buttons and its `isLoading` allow.
  `late` is a ghost: tabs in which a profile answer overtook a change of the user.
* `Fetching` - the effect all pages load data with: a call per key, cancelled but not stopped
  when the key changes, loading switched on by the handler and off by the answer it hears.
  `MaxCalls`, a bound, is positive (`FetchAssumption`). `Fetches` is the type of such a fetch; `None`, which
  stands for null, is none of the values that it is told apart from (the assumptions of `ExploreFeed` and `Home`).
* `Lists` - lists made of lists, as queries (`WHERE`, `ORDER BY`, `LIMIT`) and `filter`, `sort` and `slice` make
  them. An element's place in the new list is the number of those that come before it (`Arranged`), which defines
  filter and stable sort without recursion, so that they can be proved about.
* `ExploreFeed` - the explore page over the query of the API (`FindAll`). A text, an area and a category all
  choose rows on the server, so one filter stands for them (`srv`); tags and day are matched in
  the browser. The status lives in the URL, and a change of it remounts the page. As
  posts do not change while the page is open, an answer is named by its request.
* `Home` - `ThisWeekSection` with its `PopupTimeline` (a call of its own before it is seeded) and
  `PersonalizedFeed` with `fetchPersonalizedPosts`: pool and bookmarks fetched one after
  the other, scores in tenths. Posts and bookmarks, of posts in the pool or not, are chosen anew for every
  answer. `HomePosts` are the posts there may be, told apart by when they were created.
* `Slides` - banner and picks, each with one timer that the effect sets anew when a
  dependency changes (`KvEffect`, `EpBecomes`); time in ticks. The API's posts for the banner are a number of
  slides; `KV_FEATURE_SLIDES` adds none, as none has an image.
* `ReadingPages` - the three above, one open at a time; `Leave` forgets what it held. The
  sections of the home page share no state and are opened one by one, which
  leaves every behaviour of each and spares their product.
* `PostPage` - the detail page with comments and bookmark button, or a card. A call is done by the API
  (`Serve`, `Effect`) at one time and answered at another, refused, or lost before or after. The ghost
  `wrong` records what no page can know: lost answers, a toggle on another device,
  crossed edits of one comment. `Content` has the API's steps one by one; here each call is one. As no two
  comments have one id, `Dropped`, a filter by id in the code, takes out the one place that has it.
* `CodeForms` - the two forms. Each of the three buttons waits for its own call only; the form
  stays open to edits. Calls have an outcome when served (`ServeCall`) and change the form when they return. A call
  given up may still be served (`ServeLate`). Outcomes are those of `AuthCodes` for calls that do not overlap.
* `Dates` - instants in ticks and zones that change their offset once; `LocalDay`, `Midnight`,
  `DayEnd` are what the `Date` methods do. Status in browser and API, days to the end, week,
  marks of the strip, the grid of a month (as the code counts it, by dividing), and the form's dates. A calendar is
  given by the first days of its months (`MonthStart`), of any length.
  `DatesAssumption` asks of a zone that its clocks change by less than half a day, inside a local day and
  not at its midnight: in a zone that skips midnight itself, `new Date(y, m, d)` is no midnight, and neither
  the code nor the model says what the day is then.
  There are two zones in every use of the status filter: `getDayBounds` takes the day of the API's process (`ServerZones`),
  badge, strip and form take the browser's (any of `Zones`), and the dates were stored at the midnights of the browser that
  saved them. The repository sets no zone for the API (`Dockerfile`, `docker-compose.prod.yml`, `ecosystem.config.js`, the
  deploy workflow), so it runs in UTC as deployed. The banner's choice and the order by closing date use the same bounds.
* `WritingPages` - these three, one open at a time.
* `AuthCodesProofs`, `AuthCodesRefinement`, `RateLimitProofs`, `ContentProofs`, `SessionProofs`,
  `ReadingPagesProofs`, `WritingPagesProofs`, `CommentsProofs` - the theorems, see Proofs.
* `MCAuthCodes`, `MCContent`, `MCSession`, `MCReadingPages`, `MCWritingPages` - symmetry sets and
  small tables for TLC.

Operators named after a mistake (`ConsumeIfAny`, `RefusesLate`, ...) stand before the operator
they distort and nothing uses them. Put in its place, each of them makes TLC report the property
it is paired with in `PROJECT.json`, so the property is sensitive to the code.

## Runs

| Run | What is small | What it shows |
|---|---|---|
| `auth_register` | 1 e-mail, 3 requests, 2 codes, 2 passwords, 2 attempts, 2 ids | `SingleUse` and the refinement of `OneTimeGrant` under every interleaving of send, verify, register |
| `auth_reset` | 1 e-mail, 2 requests, 3 attempts, 2 ids | `GrantWasProved`, `ResetHasAccount`, and every request is answered |
| `auth_serial` | 2 e-mails, 1 request, all endpoints | for clients whose calls do not overlap: a fresh code has all its attempts, a verified row was verified with its own code |
| `rate_limit` | 2 keys, 2 requests per window of 3 ticks, 2 ticks a second, 6 instants | exact windows, sufficient `Retry-After`, a window never moves |
| `content_posts` | 1 post, 2 requests, 2 users, roles that change, null dates | banner posts come from an ADMIN; an update of a post not written since it was read keeps the dates in order |
| `content_talk` | 1 post, 1 comment, 2 bookmark ids, 2 requests | no orphans, only owners (or an ADMIN) change, a toggle removes what it saw |
| `session` | 2 tabs, 2 users, 2 calls in flight | a shown user owns the token of the tab, accepted writes are the shown user's, loading ends |
| `reading_pages` | 4 posts, pages of 1, API pages of 3; feeds of 2 out of 3 posts; 3 slides | the answer shown is the one the filters ask for, cards match filters, the pager is sound, feeds are the user's and well ranked, ring and timer agree, everything settles |
| `writing_pages` | 2 comments, 2 calls; 2 passwords, 2 codes; days of 4 ticks, 4 zones, 5 months | list, heart and forms agree with the server, the browser's days agree with one another, the API's filter with the badge of its own zone, and with that of another on all but the days at the ends of a post; a month's grid has its weeks |

Why the bounds are enough. Races here are between two requests about one row; a third request
in `auth_register` lets a re-issue land between two others. One e-mail suffices there: the code
touches no row of another e-mail, and `auth_serial` has two. Two or three attempts distinguish
first, middle and last. Two ids let a row be consumed or dropped and created afresh while an
old request still holds the old id; ids that run out make the insert fail, which a database call
may do anyway. `rate_limit` has a window that is no whole number of seconds and time for two windows
after one another; its run stops when time or counts run out, hence no deadlock check.
In `content_talk` two bookmark ids let a bookmark be removed and made again
between the read and the delete of another toggle. `session` needs a second tab to replace the
cookies and a second call to be overtaken; a token per user and one to replace it. The table of `reading_pages`
has posts with and without each of filter, day, tag and status, in an order that the other sort
changes; the API's page is shorter than the table, so that paging on the server, in the
browser, and truncation all happen; four pages with a pager of two have gaps on both sides. Its `MaxCalls` is the
call heard and one given up. In `writing_pages` two comments let the editor be on another than
the one answered; two calls cross. Five days of four ticks hold two changes of an hour (a tick) in either
direction, off midnight, and a zone either side of UTC; the API runs in UTC or where the clocks change; the months include one of four
weeks exactly, beginning on each of several weekdays.

Runs that must fail (`findings` in `PROJECT.json`):

* `auth_stale_count` - a wrong answer to the old code is counted by id after the re-issue: the
  new code starts with an attempt gone (`emailVerificationStore.ts:46`; likewise
  `passwordResetStore.ts:78`).
* `content_date_race` - two overlapping partial updates are each valid against the row they
  read and leave `endDate` before `startDate`.
* `session_logout` - documented to delete the cookies without authentication, a logout from a tab whose CSRF token
  is older than another tab's login gets a 403 and deletes neither; the tab shows nobody all the
  same, and the next page load shows the user again.

Disagreements met that no run is kept for: a registered e-mail is answered 200, on
purpose, where `auth.routes.ts:73` documents 409, and forgot-password for an unknown e-mail is answered 200, on purpose too, where `auth.routes.ts:159` documents 404; `endDate: null` passes the range check (`??`) and is stored
as 1970 (`post.service.ts:255`; `DatesStayInOrder` excepts null bodies for it); and the status filter, documented to find posts
by popup status at day level (`post.routes.ts:50`), goes by the day of the API (`utils/popupStatus.ts:4-8`) where the badge goes by
the day of the browser. With the API in UTC and the browser in Korea (UTC+9) the last day of a post is stored as 15:00Z of the day
before, so that the API files it under `ENDED` from 09:00 of that day on while its badge says `ONGOING`; likewise it is filed
under `ONGOING` from 09:00 of the day before its first. `FilterIsADayOutAtMost` says what does hold, in one zone and in two.

What the exceptions in the properties say of the code:

* `ExploreSettles` excepts a change of the filters that leaves the request as it was (a second day, or the same
  text again, once its request has been answered): `handleFiltersChange` switches loading on, the effect
  does not run, and the page shows the skeleton until something else changes.
* `ShownUserOwnsToken` and `WritesAreTheShownUsers` except tabs where a profile answer arrived after the
  user had changed: `setUser` shows it whoever is logged in by then.
* `AcceptedAsShown` excepts forms edited while a call was under way: its answer marks the edited form
  as sent or verified. Without edits it holds however the three calls overlap.
* `FilterIsADayOutAtMost` excepts, for a browser in another zone than the API, the first and the last day of a post and the
  days next to these: there the filter is the API's day and the badge the user's. It asks that the browser be to one side of
  the API all year, and less than a day away (`OneSideOf`), as is any zone seen from UTC whose clock change does not
  cross UTC.
* `CommentsAreStored` excepts lost answers and the text of a comment of which two edits crossed (saving a
  second comment enables the first one's button again).
* `CardsMatchFilters` excepts filters with tags or a day that more posts match on the server
  than one answer carries (100).

`FreshCodeStartsClean` and `VerifiedByOwnCode` hold for calls that do not overlap and are
checked there only; the run with overlapping calls that refutes the first is above. What
does hold under all interleavings is `GrantWasProved`: a code mailed for that row was
presented.

Fairness. `AuthCodes` has weak fairness of `Proceed(r)` for every request: a handler that waits for
the database or the mail server gets a result or an error, and the event loop then runs it.
Clients, expiry and crashes are under no fairness; a crash counts as the end of the requests
it loses. `Session` assumes that `GET /me` is answered or given up, which axios does after 15 s. The reading
pages assume the same of a call the page still hears, that the router arrives, and that a timer that is running
ticks and fires. Weak fairness of hearing an answer also says that users stop changing the
filters for long enough some day; without that `ExploreSettles` would be about
the user's patience. No user need do anything. Safety does not depend on any of it.

## Proofs

What the runs show on small instances, the theorems say for every value of the constants within
the named assumptions, which TLC evaluates on the instances. Each proof goes from an inductive
invariant, action by action; what one action can do to one part of the state is a lemma that the cases
cite. The invariants were checked with TLC before they were proved.

**E-mail codes** (`BoundsAssumption`, `OpsAssumption`, `NoneAssumption`: any e-mails, codes,
passwords, requests, a positive limit of attempts, any number of ids).

* `TypeCorrect` (`TypeOK`). Not inductive alone: `Typed` adds `Flight`, what a request
  carries at each step (a counted miss is below the limit, a consuming request has a password,
  ...). This is where the last-attempt rule of `verifyCode` is used.
* `CodesAreUsedOnce` (`SingleUse`). Needs `FreshIds` (ids in the table are below the next
  one) and `UniqueIds` (no two rows share one): a consumed id can then never return, and the
  delete by id that finds its row is the only one that does.
* `GrantsAreProved` (`GrantWasProved`). Inductive with `Typed`: ids only enter requests from rows,
  an upsert resets `verified`, and `proved` never shrinks.
* `ResetsFindTheirAccount` (`ResetHasAccount`). `ResetsHaveAccount` adds the requests still
  on their way to `find`; accounts are never removed. So the 404 of `resetPassword` is
  unreachable.
* `KeepsPromise` (`RefinesPromise`): `AuthCodes` implements `OneTimeGrant`. A ticket is a row's id, and is
  open while a row holds it, spent while a request that consumed it does, void otherwise.
  `TicketShape` says that these exclude one another, which needs the invariant above, that proved ids are
  below `nextId`, and that a request about to consume holds the id of a row of its own e-mail. Then each
  step is matched: a re-issue keeps the id and is no step of the promise, `Verify` proves when the code it was given is that of the row it read (`MarkVerified`, the write of it, is no step),
  `Consume` spends, `CreateUser` and `UpdatePassword` open and change, a crash or a failure voids.
* `CodesStartClean`, `OwnCodeVerifies` (`FreshCodeStartsClean`, `VerifiedByOwnCode`) are about clients that do
  not overlap their calls: `Spec /\ []NoOverlap`. The run `auth_serial` has one slot for requests, in
  which nothing can overlap; without the hypothesis the first is false, which `auth_stale_count` shows.
  Inductive with: a request about to count or mark does so for a row that holds the code it answered.

**Rate limiter** (`LimitAssumption`: positive limit, window and second, any clients and clock).
`TypeCorrect`; `WindowSpent` (`WindowIsSpentExactly`), from `Spending`: the totals are monotone, what the
window has let through is the smaller of counter and limit, and what came less than a window before it was
opened belongs to one earlier window, which gives the bound of twice the limit on any stretch;
`WaitingSuffices` (`RetryAfterSuffices`), from `Telling` and a lemma about rounding up;
`WindowStays` (`WindowIsFixed`).

**Posts, comments, bookmarks** (`RolesAssumption`, `OpsAssumption`, `BoundsAssumption`, `NoneAssumption`).
The invariant says what a request knows at each of its steps of the rows it has read: they are as read where it
matters, or gone for good, since ids are not given again. From it `TypeCorrect`, `NothingOrphaned`
(`NoOrphans`), `BannerIsTheAdmins` (`KvPostsByAdmins`), and the action properties `OwnersOnly`
(`OnlyOwnersChange`), `TogglesRemoveTheirOwn` (`ToggleRemovesWhatItSaw`) and `UpdatesKeepOrder`
(`DatesStayInOrder`: the post's write counter, kept for this, says that it is as the check saw it).

**Session** (`BoundsAssumption`, `NoneAssumption`, `NoCallAssumption`). `TypeCorrect`,
`TokensAreTheShownUsers` (`ShownUserOwnsToken`) and `WritesGoToTheShownUser` (`WritesAreTheShownUsers`) from
one invariant: the two cookies of the jar are one user's, so are those any call carries, and a header is
a token of the user its tab showed unless the call was sent late.

**Pages that read** (`ReadingPagesProofs`). `RingIsInStep` (`RingAgreesWithTimer`): a banner that moves has a timer
set and its ring has run for what is gone of it. `SeededTimelineKeepsItsPosts` (`SeededTimelineStays`): a section that has its
answer has left its timeline no call that is heard. `AnswersFitTheFilters` (`ShowsWhatWasAsked`): a call
that is heard is for the filters as they are, and so was what was answered last, unless the page waits or
failed. `FeedsAreTheUsers` (`FeedIsTheUsers`): no call before `checkAuth` is back, calls heard were made for the user
shown. The last three rest on lemmas about `Fetching` that say what each of its operators leaves of a fetch.

What these pages make of lists, for any posts in any number (`ExploreAssumption`, `HomeAssumption`). Induction over
lists is out of the prover's reach, and `Lists` makes it needless: an order of the positions (`IsOrder`) gives each its
number of predecessors, these numbers are different (`MoreAhead`) and so all of them up to the length are taken
(`PlacesTaken`, a count of finite sets); hence `ArrangedComes`: the new list has each chosen element at its rank. From
this, that filtering twice is filtering by both (`KeptTwice`), that a first page that is long enough
is the list (`WholePage`), and that lists of distinct posts stay so when they are filtered, sorted, joined and
cut (the `EachOnce` lemmas).

* `CardsAreWhatWasAsked` (`CardsMatchFilters`). From `FiltersInv`: the page chosen is one the pager can have led to, on
  the server's pages as long as the browser filters nothing (`LastPage`), and `ListInv` above. The
  hypothesis is that no more posts match than one answer carries.
* `PagersAreSound` (`PagerIsSound`). The page shown is one of the pages there are, by the same invariant; the rest is
  arithmetic of the window around it, piece by piece (`PagerParts`, `PartsJoined`, `NumbersSound`).
* `FeedsAreSound` (`FeedIsSound`). The invariant `FairInv` says that pools are lists of distinct posts and that what was
  picked was picked fairly; `RankedFairly` proves the latter of `Ranked`: candidates by score and the rest of the pool
  after them have each post of the pool once, and the first of them reach the rest only when the candidates are used up.
* `PagesAreTyped` (`ReadingTypeOK`), from all these invariants, and from `WeekShown` (this week has one call at most,
  and shows a timeline just while it has no error), `EpInv` (the picks' timer is set just while they move) and
  `OnePage` (two of the three groups of pages are not mounted).

**Pages that write** (`WritingPagesProofs`). `HeartsAreRight` (`HeartsAgree`): one toggle in flight at
most; the button shows the bookmark and the card its opposite until it is done; a toggle that is done answers what is
stored. `AcceptedIsWhatWasShown` (`AcceptedAsShown`): in a form nobody touched under a call, the e-mail of every
call is the field's, and what is eligible is what is typed. About days, from `DatesAssumption` alone and lemmas that
turn instants into day numbers (`DayBegins`, `MidnightSpan`, `DayOfMidnight`, `DaysInOrder`):
`FilterFollowsTheDays` (`FilterIsADayOutAtMost`: the filter compares the API's days, `FilterByDays`, and two zones to one side of each
other count at most one day more or less from one time to another, `SpansDifferByOne`), `ListsMatchMarks` (`CalendarsAgree`), `ResavingKeepsDays` (`EditKeepsDays`),
and `MonthsInWholeWeeks` (`GridsAreWhole`): two midnights are as far apart as their days, give or take the change
of the clocks, which is less than half a day, so that the rounded quotient counts the days.

**Comments in the browser** (`CommentsProofs`, `PostPageAssumption`: any texts, number of comments and of calls in
flight). `ListsAreStored` (`CommentsAreStored`). The list alone says nothing while calls are on the way; `Agrees`
relates it to the tables through them. What is shown and no longer stored has a deletion on its way
(`Stale`), what is stored and not shown a creation (`Missing`), and a text that differs the answer of its edit, which is still
what is stored unless two edits crossed (`Saved`). The order of the list needs that one comment is created at a time, whose id is
above all that are shown (`Created`), which rests on the button that waits and on ids given out in turn (`Numbered`). Each
operation of API and section is a lemma about `Agrees`; that appending, patching and dropping keep the list in order are
lemmas about sequences, and that a list of just the stored ids is the stored list (`StoredIs`) is a count of places.

Every safety invariant and every action property that a run checks is a theorem. Only model-checked:

* liveness, out of the prover's reach: `EveryRequestAnswered`, `LoadingEnds`, `ExploreSettles`, `HomeSettles`,
  `SlidesMoveOn`;
* that the three disagreements of `findings` happen: these are behaviours that TLC exhibits.

## Not modelled

* The table changing while the explore page is open, so that page and total, read by two queries, disagree; ties
  in the orders, which MySQL may break differently from page to page.
* The popular order of the explore page (one more sort; `Home` has it), the expansion of an area into its
  districts, `findKv`'s choice of posts.
* The switch between the explore page's two views, and text typed but not committed in its search field; the strip, remounted by a change of area, category or
  order, shows the current month again although a day of another month stays selected.
* Loading and guard of the edit page and the bookmark list of the profile page: the effect of `Fetching`
  once more.
* Redirects of `middleware.ts`, which look at the presence of the cookie only.
* Validation of bodies appears as the sets the inputs are taken from. The limiter's Map grows
  for the life of the process; that is no property of its states. Mail transport, styles, editorial articles,
  configuration, migrations and deployment have no behaviour to check.

## Plan

The modules and theorems planned are done. What would be next, should the code grow there: an explore page whose table
changes between its two queries (the hazard at `post.service.ts:112`), and a bound on the limiter's Map once something
evicts entries.

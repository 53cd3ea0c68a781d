---------------------------- MODULE ExploreFeed ----------------------------
(***************************************************************************)
(* The explore page: the filter bar, the benefit tags and days, the pages  *)
(* of cards, and the query of the API behind them.                         *)
(*                                                                         *)
(* The status filter lives in the URL; a change of it remounts the page.   *)
(* The API filters by text, area, category and status (here: one of        *)
(* SrvFilters, and a status) and orders; tags and day are matched in the   *)
(* browser, over one page of the longest length the API gives.  The posts  *)
(* do not change while a page is open, so that the data of an answer are   *)
(* known from its request: `list.data' is the request answered last.       *)
(***************************************************************************)
EXTENDS Fetching, Lists, SequencesExt

CONSTANTS Table,        \* the posts, newest first
          SrvFilters, Days, Tags,
          Statuses,     \* those users filter by (bound)
          PageSize,     \* PAGE_SIZE
          ServerMax,    \* the longest page of the API, 100
          PagerAll, Siblings   \* page numbers the pager shows in full, 7, and around the
                               \* current page, 2

ASSUME ExploreAssumption ==
  /\ Table \in Seq([filters : SUBSET SrvFilters, status : {"UPCOMING", "ONGOING", "ENDED"},
                    days : SUBSET Days, tags : SUBSET Tags, ends : Nat])
  /\ PageSize \in Nat \ {0} /\ ServerMax \in Nat /\ PageSize <= ServerMax
  /\ PagerAll \in Nat \ {0} /\ Siblings \in Nat
  /\ None \notin SrvFilters \cup Statuses \cup Days

VARIABLES url,        \* the status in the URL
          nav,        \* where a router.replace under way leads: <<>> or <<status>>
          filters,    \* the state `filters'
          list,       \* the fetch of the list; None while the page is not mounted
          unchanged   \* ghost: the last change of the filters left the request as it was,
                      \* when it had been answered already

exploreVars == <<url, nav, filters, list, unchanged>>

NoFilters(s) == [srv |-> None, order |-> None, status |-> s, day |-> None, tags |-> {},
                 page |-> 1]

-----------------------------------------------------------------------------
(* The API: GET /api/posts. *)

\* buildWhereClause and buildOrderBy (the order by popularity apart, which is one more sort);
\* ENDING_SOON leaves out what has ended.
Matches(req, p) == /\ req.srv = None \/ req.srv \in p.filters
                   /\ req.status = None \/ req.status = p.status
                   /\ req.order # "endingSoon" \/ p.status # "ENDED"
\* Posts that end at the same time come in an order the database keeps to.
EndingFirst  == Sorted(Table, LAMBDA p, q : p.ends < q.ends)
Ordered(req) == IF req.order = "endingSoon" THEN EndingFirst ELSE Table
Found(req) == Kept(Ordered(req), {i \in DOMAIN Table : Matches(req, Ordered(req)[i])})

CeilDiv(a, b) == (a + b - 1) \div b
Slice(s, page, size) == SubSeq(s, (page - 1) * size + 1, Min({page * size, Len(s)}))
SliceFrom0(s, page, size) == SubSeq(s, page * size + 1, Min({(page + 1) * size, Len(s)}))

\* PostService.findAll, with the limit the controller lets through.
FindAllFrom0(req) ==
  LET limit == Min({ServerMax, req.limit})
  IN  [data |-> SliceFrom0(Found(req), req.page, limit), page |-> req.page,
       totalPages |-> CeilDiv(Len(Found(req)), limit)]
FindAll(req) ==
  LET limit == Min({ServerMax, req.limit})
  IN  [data |-> Slice(Found(req), req.page, limit), page |-> req.page,
       totalPages |-> CeilDiv(Len(Found(req)), limit)]

-----------------------------------------------------------------------------
(* The page. *)

\* activeFilters, and needsClientFilter.
Active == [filters EXCEPT !.status = url]
ByClient(fs) == fs.day # None \/ fs.tags # {}

\* serverFetchKey (its retryKey apart): the request the effect makes.
Request(fs) == [srv |-> fs.srv, status |-> url, order |-> fs.order,
                page |-> IF ByClient(fs) THEN 1 ELSE fs.page,
                limit |-> IF ByClient(fs) THEN ServerMax ELSE PageSize]

\* What the cards and the pager get.
ClientMatch(fs, p) == (fs.day = None \/ fs.day \in p.days) /\ fs.tags \subseteq p.tags
ClientPage(fs, rows) ==
  LET found == Kept(rows, {i \in DOMAIN rows : ClientMatch(fs, rows[i])})
      pages == Max({1, CeilDiv(Len(found), PageSize)})
      page  == Min({fs.page, pages})
  IN  [data |-> Slice(found, page, PageSize), page |-> page, totalPages |-> pages]
PostsShown == IF ByClient(filters) THEN ClientPage(filters, FindAll(list.data).data)
                                   ELSE FindAll(list.data)

Showing == list # None /\ ~list.error /\ ~list.loading /\ list.data # None

ExploreMount(s) == /\ url' = s /\ nav' = <<>>
                   /\ filters' = NoFilters(s)
                   /\ list' = Mounted([srv |-> None, status |-> s, order |-> None,
                                       page |-> 1, limit |-> PageSize])
                   /\ unchanged' = FALSE
ExploreUnmount == /\ url' = None /\ nav' = <<>> /\ filters' = NoFilters(None)
                  /\ list' = None /\ unchanged' = FALSE
ExploreUnmounted == /\ url = None /\ nav = <<>> /\ filters = NoFilters(None)
                    /\ list = None /\ unchanged = FALSE

\* handleFiltersChange: loading at once; the effect runs only when the request differs, and
\* the URL is replaced only when the status does.
FiltersChange(new) ==
  LET same == Request(new) = Request(filters)
  IN  /\ list # None /\ CanRefetch(list)
      /\ filters' = new
      /\ list' = IF same THEN Waiting(list) ELSE Refetched(Waiting(list), Request(new))
      /\ nav' = IF new.status # url THEN <<new.status>> ELSE nav
      /\ unchanged' = (same /\ ~Live(list))
      /\ UNCHANGED url

\* The filter bar, the tags, the days: each passes the active filters on with one changed.
CommitFilter(f) == FiltersChange([Active EXCEPT !.srv = f, !.page = 1])
ChooseOrder(o)  == FiltersChange([Active EXCEPT !.order = o, !.page = 1])
ChooseStatus(s) == FiltersChange([Active EXCEPT !.status = s, !.page = 1])
ChooseDay(d)    == FiltersChange([Active EXCEPT !.day = d, !.page = 1])
ToggleTag(g)    == FiltersChange([Active EXCEPT
                     !.tags = IF g \in @ THEN @ \ {g} ELSE @ \cup {g}, !.page = 1])
ResetFilters    == FiltersChange(NoFilters(None))

RetryKeepingKey == /\ list # None /\ list.error
                   /\ list' = Waiting(list)
                   /\ unchanged' = FALSE /\ UNCHANGED <<url, nav, filters>>
Retry == /\ list # None /\ list.error /\ CanRefetch(list)
         /\ list' = Refetched(Waiting(list), Request(filters))
         /\ unchanged' = FALSE /\ UNCHANGED <<url, nav, filters>>

\* getVisiblePages: 0 stands for an ellipsis.
VisiblePagesUnmarked(page, total) ==
  LET from == Max({2, page - Siblings})
      to   == Min({total - 1, page + Siblings})
  IN  IF total <= PagerAll THEN [i \in 1..total |-> i]
      ELSE <<1>> \o [i \in 1..(to - from + 1) |-> from + i - 1] \o <<total>>
VisiblePages(page, total) ==
  LET from == Max({2, page - Siblings})
      to   == Min({total - 1, page + Siblings})
  IN  IF total <= PagerAll THEN [i \in 1..total |-> i]
      ELSE <<1>> \o (IF from > 2 THEN <<0>> ELSE <<>>)
                 \o [i \in 1..(to - from + 1) |-> from + i - 1]
                 \o (IF to < total - 1 THEN <<0>> ELSE <<>>) \o <<total>>

\* The pager, under cards that are shown: previous, next, or a number.
PageChange(p) ==
  LET shown == PostsShown
  IN  /\ Showing /\ shown.data # <<>> /\ shown.totalPages > 1
      /\ p \in 1..shown.totalPages \ {shown.page}
      /\ p \in {shown.page - 1, shown.page + 1}
           \cup {VisiblePages(shown.page, shown.totalPages)[i] :
                   i \in 1..Len(VisiblePages(shown.page, shown.totalPages))}
      /\ filters' = [filters EXCEPT !.page = p]
      /\ IF ByClient(filters)
         THEN UNCHANGED list
         ELSE CanRefetch(list) /\ list' = Refetched(Waiting(list), Request(filters'))
      /\ unchanged' = FALSE /\ UNCHANGED <<url, nav>>

ListAnswered(c) == /\ list # None /\ c \in list.calls
                   /\ \/ list' = Answered(list, c, c.req)
                      \/ list' = Failed(list, c)
                   /\ UNCHANGED <<url, nav, filters, unchanged>>
ListHeard == list # None /\ \E c \in list.calls : c.live /\ ListAnswered(c)

\* The router arrives at the new URL, or the user follows a link to another status.
Arrive   == list # None /\ nav # <<>> /\ ExploreMount(nav[1])
Visit(s) == list # None /\ s # url /\ ExploreMount(s)

ExploreNext ==
  \/ \E f \in SrvFilters \cup {None} : CommitFilter(f)
  \/ \E o \in {"latest", "endingSoon"} : ChooseOrder(o)
  \/ \E s \in Statuses \cup {None} : ChooseStatus(s) \/ Visit(s)
  \/ \E d \in Days \cup {None} : ChooseDay(d)
  \/ \E g \in Tags : ToggleTag(g)
  \/ ResetFilters
  \/ Retry
  \/ \E p \in 1..Len(Table) : PageChange(p)
  \/ list # None /\ \E c \in list.calls : ListAnswered(c)
  \/ Arrive

\* Calls are answered or time out, and the router arrives.  Users need do nothing, but some
\* day they wait for an answer before they change the filters again.
ExploreFairness == WF_exploreVars(ListHeard) /\ WF_exploreVars(Arrive)

-----------------------------------------------------------------------------
(* Properties. *)

ExploreTypeOK ==
  /\ url \in Statuses \cup {None} /\ nav \in {<<>>} \cup {<<s>> : s \in Statuses \cup {None}}
  /\ filters \in [srv : SrvFilters \cup {None}, order : {None, "latest", "endingSoon"},
                  status : Statuses \cup {None}, day : Days \cup {None}, tags : SUBSET Tags,
                  page : 1..Max({1, Len(Table)})]
  /\ unchanged \in BOOLEAN
  /\ list # None => list.loading \in BOOLEAN /\ list.error \in BOOLEAN

\* What is on show answers what the filters ask for now: no answer to filters, a page or a URL
\* that were left since gets through, in whatever order answers come (ExploreFeed.tsx:67-145).
ShowsWhatWasAsked == Showing => list.data = Request(filters)

\* Of such an answer the page shows the page asked for of just the posts that match all filters
\* chosen, in the order chosen; this as long as no more posts match on the API's side than one
\* answer can carry (ExploreFeed.tsx:104-187).
CardsMatchFilters ==
  LET posts == Ordered(Active)
      all  == Kept(posts, {i \in DOMAIN posts : /\ Matches(Active, posts[i])
                                                /\ ClientMatch(Active, posts[i])})
      last == Max({1, CeilDiv(Len(all), PageSize)})
  IN  Showing /\ Len(Found(Active)) <= ServerMax =>
        /\ PostsShown.data = Slice(all, Min({filters.page, last}), PageSize)
        /\ PostsShown.page <= last

\* The pager names the first, the last and the current page, in order, and marks each gap.
PagerIsSound ==
  LET items == VisiblePages(PostsShown.page, PostsShown.totalPages)
  IN  Showing /\ PostsShown.data # <<>> =>
        /\ {1, PostsShown.page, PostsShown.totalPages} \subseteq ToSet(items)
        /\ \A i \in 1..(Len(items) - 1) :
             /\ items[i] # 0 /\ items[i + 1] # 0 => items[i + 1] = items[i] + 1
             /\ items[i] = 0 => items[i - 1] + 1 < items[i + 1]

\* Loading ends: a call that the page hears is under way, or its remounting, whatever came
\* between.  But for a change of the filters that changes nothing in the request (a second
\* day, the same text again), which switches loading on for good: the effect does not run
\* again, and nothing will answer (ExploreFeed.tsx:65-68,157).
ExploreSettles == (list # None /\ list.loading) ~> (list = None \/ ~list.loading \/ unchanged)
=============================================================================

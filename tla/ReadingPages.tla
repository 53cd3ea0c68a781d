---------------------------- MODULE ReadingPages ----------------------------
(***************************************************************************)
(* The pages that read: the explore page and the sections of the home      *)
(* page.  The router shows one page at a time, and leaving it forgets all  *)
(* it held; the sections of the home page share no state, so that each is  *)
(* opened by itself.                                                       *)
(***************************************************************************)
EXTENDS ExploreFeed, Home, Slides

readingVars == <<exploreVars, homeVars, slidesVars>>

Init == ExploreUnmounted /\ HomeUnmounted /\ SlidesUnmounted

Elsewhere == ExploreUnmounted /\ HomeUnmounted /\ SlidesUnmounted

\* In the browser a page is left for another; here by way of none.
OpenExplore == /\ Elsewhere /\ \E s \in Statuses \cup {None} : ExploreMount(s)
               /\ UNCHANGED <<homeVars, slidesVars>>
OpenHome    == /\ Elsewhere /\ (WeekMount \/ FeedMount)
               /\ UNCHANGED <<exploreVars, slidesVars>>
OpenSlides  == /\ Elsewhere /\ (KvMount \/ EpMount)
               /\ UNCHANGED <<exploreVars, homeVars>>
Leave       == ~Elsewhere /\ ExploreUnmount /\ HomeUnmount /\ SlidesUnmount

Next ==
  \/ OpenExplore \/ OpenHome \/ OpenSlides \/ Leave
  \/ ExploreNext /\ UNCHANGED <<homeVars, slidesVars>>
  \/ HomeNext /\ UNCHANGED <<exploreVars, slidesVars>>
  \/ SlidesNext /\ UNCHANGED <<exploreVars, homeVars>>

FairSpec == Init /\ [][Next]_readingVars /\ ExploreFairness /\ HomeFairness /\ SlidesFairness

\* The types of the pages; only one of them is open.
ReadingTypeOK == /\ ExploreTypeOK /\ HomeTypeOK /\ SlidesTypeOK
                 /\ Cardinality({p \in {"explore", "home", "slides"} :
                                   \/ p = "explore" /\ ~ExploreUnmounted
                                   \/ p = "home"    /\ ~HomeUnmounted
                                   \/ p = "slides"  /\ ~SlidesUnmounted}) <= 1
=============================================================================

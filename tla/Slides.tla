------------------------------- MODULE Slides -------------------------------
(***************************************************************************)
(* The two sections of the home page that move by themselves: the banner   *)
(* of the key-visual posts, with the ring that shows how long the current  *)
(* slide still stays, and the editor's picks.                              *)
(*                                                                         *)
(* Each has one timer, which the effect sets anew whenever one of its      *)
(* dependencies changes.  Time passes in ticks; a slide stays for Autoplay *)
(* of them.                                                                *)
(***************************************************************************)
EXTENDS Integers, FiniteSets

CONSTANTS Autoplay,      \* KV_AUTOPLAY_MS and AUTOPLAY_MS, in ticks
          MaxBanners,    \* posts of GET /api/posts/kv, 5
          Picks,         \* HOME_EDITORIAL_SLIDE_LIMIT, 3
          Off            \* no timer, no page

ASSUME SlidesAssumption == /\ Autoplay \in Nat \ {0} /\ MaxBanners \in Nat
                           /\ Picks \in Nat \ {0} /\ Off \notin Nat

VARIABLES kv,    \* slides (Off while loading), index, paused, reduced motion, ticks left on
                 \* the timer, and progress of the ring in ticks
          ep     \* the picks: index, paused, reduced, timer, and the tab with the focus

slidesVars == <<kv, ep>>

SlidesUnmounted == kv = Off /\ ep = Off
SlidesUnmount   == kv' = Off /\ ep' = Off

-----------------------------------------------------------------------------
(* KvBannerSlider.  No feature slide has an image: the slides are the posts. *)

KvMount == /\ kv' \in [slides : {Off}, index : {0}, paused : {FALSE}, reduced : BOOLEAN,
                       timer : {Off}, ring : {0}]
           /\ ep' = Off

KvLoaded  == kv # Off /\ kv.slides # Off
KvRunning == KvLoaded /\ kv.slides > 1 /\ ~kv.paused /\ ~kv.reduced

\* The effect with the timer, after a change of its dependencies; the circle of the ring is
\* a new one when its key, of index and nonce, changes.
KvEffect(k) == [k EXCEPT !.timer = IF k.slides > 1 /\ ~k.paused /\ ~k.reduced
                                   THEN Autoplay ELSE Off]
KvRestart(k) == KvEffect([k EXCEPT !.ring = 0])

\* The posts of the answer; none after an error.
KvFetched(n) == /\ kv # Off /\ ~KvLoaded
                /\ kv' = KvRestart([kv EXCEPT !.slides = n])
                /\ UNCHANGED ep

KvTick == /\ KvRunning /\ kv.timer > 0
          /\ kv' = [kv EXCEPT !.timer = @ - 1, !.ring = @ + 1]
          /\ UNCHANGED ep
KvTimeout == /\ KvRunning /\ kv.timer = 0
             /\ kv' = KvRestart([kv EXCEPT !.index = (@ + 1) % kv.slides])
             /\ UNCHANGED ep

\* The buttons.  A pause freezes the ring; playing on starts the slide's time over.
KvPauseTogglePlain == /\ KvLoaded /\ kv.slides > 1
                      /\ kv' = KvEffect([kv EXCEPT !.paused = ~@])
                      /\ UNCHANGED ep
KvPauseToggle == /\ KvLoaded /\ kv.slides > 1
                 /\ kv' = IF kv.paused THEN KvRestart([kv EXCEPT !.paused = FALSE])
                          ELSE KvEffect([kv EXCEPT !.paused = TRUE])
                 /\ UNCHANGED ep
KvSelect(i) == /\ KvLoaded /\ kv.slides > 1 /\ i \in 0..(kv.slides - 1)
               /\ kv' = KvRestart([kv EXCEPT !.index = i])
               /\ UNCHANGED ep

\* The system setting.  The ring has no animation while it is on, and a new one after.
KvMotion == /\ kv # Off
            /\ kv' = IF KvLoaded THEN KvRestart([kv EXCEPT !.reduced = ~@])
                     ELSE [kv EXCEPT !.reduced = ~@]
            /\ UNCHANGED ep

KvNext == \/ \E n \in 0..MaxBanners : KvFetched(n)
          \/ KvTick \/ KvTimeout \/ KvPauseToggle \/ KvMotion
          \/ \E i \in 0..(MaxBanners - 1) : KvSelect(i)

-----------------------------------------------------------------------------
(* EditorsPickSection. *)

EpMount == /\ ep' \in [index : {0}, paused : {FALSE}, reduced : BOOLEAN, timer : {Autoplay, Off},
                       focus : {Off}]
           /\ (ep'.timer = Off) = (ep'.reduced \/ Picks = 1)
           /\ kv' = Off

EpRunning == ep # Off /\ Picks > 1 /\ ~ep.paused /\ ~ep.reduced
\* The effect runs again only when something it depends on is different.
EpBecomes(e) ==
  /\ ep' = IF <<e.index, e.paused, e.reduced>> = <<ep.index, ep.paused, ep.reduced>> THEN e
           ELSE [e EXCEPT !.timer = IF Picks > 1 /\ ~e.paused /\ ~e.reduced
                                    THEN Autoplay ELSE Off]
  /\ UNCHANGED kv

EpTick == EpRunning /\ ep.timer > 0 /\ EpBecomes([ep EXCEPT !.timer = @ - 1])
EpTimeoutUnwrapped == /\ EpRunning /\ ep.timer = 0
                      /\ EpBecomes([ep EXCEPT !.index = IF @ + 1 < Picks THEN @ + 1 ELSE @])
EpTimeout == EpRunning /\ ep.timer = 0 /\ EpBecomes([ep EXCEPT !.index = (@ + 1) % Picks])

\* select, for a click on a tab; the click focuses it.  On the tab selected it is a link.
EpClick(i) == /\ ep # Off /\ i # ep.index
              /\ EpBecomes([ep EXCEPT !.index = i, !.paused = TRUE, !.focus = i])

\* Pointer and focus share the flag `paused'; only the selected tab can be tabbed to.
EpHover == ep # Off /\ EpBecomes([ep EXCEPT !.paused = TRUE])
EpLeave == ep # Off /\ EpBecomes([ep EXCEPT !.paused = FALSE])
EpFocus == /\ ep # Off /\ ep.focus = Off
           /\ EpBecomes([ep EXCEPT !.focus = ep.index, !.paused = TRUE])
EpBlur  == /\ ep # Off /\ ep.focus # Off
           /\ EpBecomes([ep EXCEPT !.focus = Off, !.paused = FALSE])

\* onRailKeyDown: where the arrows, Home and End lead from the focused tab.
PrevPickUnwrapped(i) == i - 1
PrevPick(i) == (i - 1 + Picks) % Picks
KeyTarget(key, i) == CASE key = "next" -> (i + 1) % Picks
                       [] key = "prev" -> PrevPick(i)
                       [] key = "home" -> 0
                       [] key = "end"  -> Picks - 1
EpKey(key) ==
  LET next == KeyTarget(key, ep.focus)
  IN  /\ ep # Off /\ ep.focus # Off /\ Picks > 1
      /\ EpBecomes([ep EXCEPT !.index = next, !.focus = next,
                              !.paused = IF next = ep.focus THEN @ ELSE TRUE])

EpMotion == ep # Off /\ EpBecomes([ep EXCEPT !.reduced = ~@])

EpNext == \/ EpTick \/ EpTimeout \/ EpHover \/ EpLeave \/ EpFocus \/ EpBlur \/ EpMotion
          \/ \E i \in 0..(Picks - 1) : EpClick(i)
          \/ \E key \in {"next", "prev", "home", "end"} : EpKey(key)

SlidesNext == KvNext \/ EpNext

\* Time passes, and a timer that has run out fires.
SlidesFairness == /\ WF_slidesVars(KvTick \/ KvTimeout) /\ WF_slidesVars(EpTick \/ EpTimeout)

-----------------------------------------------------------------------------
(* Properties. *)

SlidesTypeOK ==
  /\ kv # Off => kv.timer \in 0..Autoplay \cup {Off} /\ kv.slides \in 0..MaxBanners \cup {Off}
  /\ ep # Off => ep.index \in 0..(Picks - 1) /\ ep.timer \in 0..Autoplay \cup {Off}

\* The ring is full just when the slide changes, after any pauses, selections of any slide
\* and changes of the system setting (KvBannerSlider.tsx:82-112,244).
RingAgreesWithTimer == KvRunning => kv.ring + kv.timer = Autoplay

\* A slide or a pick does not stay while its timer runs, unless somebody selects the same slide
\* again and again, which starts its time over (KvBannerSlider.tsx:82-112,
\* EditorsPickSection.tsx:75-83).
SlidesMoveOn ==
  /\ \/ []<>~KvRunning
     \/ []<><<KvRunning /\ KvRunning' /\ (kv.index # kv'.index \/ KvSelect(kv.index))>>_slidesVars
  /\ \/ []<>~EpRunning
     \/ []<><<EpRunning /\ EpRunning' /\ ep.index # ep'.index>>_slidesVars
=============================================================================

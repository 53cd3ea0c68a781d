---------------------------- MODULE WritingPages ----------------------------
(***************************************************************************)
(* The pages that write: a post with its comments and bookmark, the forms  *)
(* behind the e-mail codes, and the form and the calendars that work with  *)
(* the days of a post.  As in ReadingPages one is open at a time.          *)
(***************************************************************************)
EXTENDS PostPage, CodeForms, Dates

writingVars == <<postVars, formVars, datesVars>>

Init == PostUnmounted /\ FormUnmounted /\ DatesUnmounted

Elsewhere == PostUnmounted /\ FormUnmounted /\ DatesUnmounted

OpenPost  == Elsewhere /\ (PageMount \/ HeartMount) /\ UNCHANGED <<formVars, datesVars>>
OpenForm  == Elsewhere /\ FormMount /\ UNCHANGED <<postVars, datesVars>>
OpenDates == Elsewhere /\ (DatesMount \/ StripMount) /\ UNCHANGED <<postVars, formVars>>
Leave     == ~Elsewhere /\ PostUnmount /\ FormUnmount /\ DatesUnmount

Next ==
  \/ OpenPost \/ OpenForm \/ OpenDates \/ Leave
  \/ PostNext /\ UNCHANGED <<formVars, datesVars>>
  \/ FormNext /\ UNCHANGED <<postVars, datesVars>>
  \/ DatesNext /\ UNCHANGED <<postVars, formVars>>

Spec == Init /\ [][Next]_writingVars
=============================================================================

------------------------------ MODULE PostPage ------------------------------
(***************************************************************************)
(* A post in the browser: the detail page with its bookmark button and the *)
(* comments, and the card of a list.                                       *)
(*                                                                         *)
(* The page is loaded once and afterwards patches what it shows from the   *)
(* answers of its own calls.  A call in flight is first done by the API    *)
(* (module Content has its steps), or refused, and answered later; it may  *)
(* also get lost before or after it is done, or the browser gives up.      *)
(* Everything shown is the user's own: others' comments have no buttons.   *)
(***************************************************************************)
EXTENDS Fetching, Sequences, SequencesExt

CONSTANTS Texts,          \* of a comment
          MaxComments,    \* ids of comments (bound)
          MaxFlights      \* of the page's own calls in flight (bound)

ASSUME PostPageAssumption == MaxComments \in Nat \ {0} /\ MaxFlights \in Nat
                             /\ None \notin Texts \cup (1..MaxComments)

VARIABLES db,         \* the tables: comments by id, the next id, and the user's bookmark
          page,       \* the fetch of the page; None when it is not mounted
          box,        \* the comment section, and whether the post is being deleted
          heart,      \* the bookmark button or the card
          flights,    \* calls in flight
          wrong       \* ghost: what no page could know.  lost: an answer; elsewhere: the
                      \* bookmark was toggled on another device; crossed: comments of which
                      \* two edits were in flight at once

postVars == <<db, page, box, heart, flights, wrong>>

Ids == 1..MaxComments
Stored == [i \in 1..Cardinality({j \in Ids : db.text[j] # None}) |->
             LET id == CHOOSE j \in Ids : /\ db.text[j] # None
                                          /\ Cardinality({k \in 1..j : db.text[k] # None}) = i
             IN  [id |-> id, text |-> db.text[id]]]

Fresh(t, marked) == [text |-> [i \in Ids |-> IF i = 1 THEN t ELSE None], next |-> 2,
                     marked |-> marked]
NothingWrong == [lost |-> FALSE, elsewhere |-> FALSE, crossed |-> {}]

PostUnmounted == /\ db = None /\ page = None /\ box = None /\ heart = None
                 /\ flights = {} /\ wrong = NothingWrong
PostUnmount == /\ db' = None /\ page' = None /\ box' = None /\ heart' = None
               /\ flights' = {} /\ wrong' = NothingWrong

-----------------------------------------------------------------------------
(* Loading. *)

Heart(kind, marked, base) ==
  [kind |-> kind, on |-> marked, base |-> base, count |-> IF marked THEN base + 1 ELSE base,
   busy |-> FALSE]

PageMount == /\ \E t \in Texts : db' = Fresh(t, FALSE)
             /\ page' = Mounted(None) /\ box' = None /\ heart' = None
             /\ flights' = {} /\ wrong' = NothingWrong

\* The post with its comments and bookmark; or an error; or there is no such post.
PageAnswered(c) ==
  /\ \/ /\ page' = Answered(page, c, "post")
        /\ box' = [list |-> Stored, submitting |-> FALSE, editing |-> None, draft |-> None,
                   updating |-> None, deleting |-> None, removing |-> FALSE]
     \/ /\ page' \in {Failed(page, c), Answered(page, c, "missing")}
        /\ UNCHANGED box
  /\ UNCHANGED <<db, heart, flights, wrong>>
PageRetry == /\ page # None /\ page.error
             /\ page' = Refetched(Waiting(page), None)
             /\ UNCHANGED <<db, box, heart, flights, wrong>>

\* The button of a page, or a card of a list, loaded already, with the count of bookmarks.  It
\* shares nothing with the comments and is explored without them.
HeartMount == /\ \E kind \in {"button", "card"}, marked \in BOOLEAN, base \in {0, 1} :
                   /\ db' = Fresh(None, marked)
                   /\ heart' = Heart(kind, marked, base)
              /\ page' = None /\ box' = None /\ flights' = {} /\ wrong' = NothingWrong

-----------------------------------------------------------------------------
(* The user acts. *)

Flight(op, id, text) == [op |-> op, id |-> id, text |-> text, state |-> "sent"]
\* The same call twice in flight would be one; the second is left out.
Send(f) == /\ Cardinality(flights) < MaxFlights /\ f \notin flights
           /\ flights' = flights \cup {f}

HasId(list, i) == \E n \in 1..Len(list) : list[n].id = i
PlaceOf(list, i) == CHOOSE n \in 1..Len(list) : list[n].id = i
Listed(i) == HasId(box.list, i)
TextOf(i) == box.list[PlaceOf(box.list, i)].text

Submit(t) == /\ box # None /\ ~box.submitting
             /\ Send(Flight("create", None, t))
             /\ box' = [box EXCEPT !.submitting = TRUE]
             /\ UNCHANGED <<db, page, heart, wrong>>

StartEdit(i) == /\ box # None /\ Listed(i) /\ box.editing # i
                /\ box' = [box EXCEPT !.editing = i, !.draft = TextOf(i)]
                /\ UNCHANGED <<db, page, heart, flights, wrong>>
\* The editor is shown in the place of its comment, and goes with it.
Typing(t) == /\ box # None /\ Listed(box.editing)
             /\ box' = [box EXCEPT !.draft = t]
             /\ UNCHANGED <<db, page, heart, flights, wrong>>
CancelEdit == /\ box # None /\ Listed(box.editing)
              /\ box' = [box EXCEPT !.editing = None, !.draft = None]
              /\ UNCHANGED <<db, page, heart, flights, wrong>>

\* `updatingId' holds one comment: saving another one enables the first one's button again.
SaveEdit(i) == /\ box # None /\ box.editing = i /\ Listed(i) /\ box.updating # i
               /\ Send(Flight("save", i, box.draft))
               /\ box' = [box EXCEPT !.updating = i]
               /\ wrong' = [wrong EXCEPT !.crossed =
                              IF \E f \in flights : f.op = "save" /\ f.id = i
                              THEN @ \cup {i} ELSE @]
               /\ UNCHANGED <<db, page, heart>>

\* A comment in its editor has no delete button; so the handler, which looks at `editingId' as
\* it was at the click, never closes an editor.
Delete(i) == /\ box # None /\ Listed(i) /\ box.editing # i /\ box.deleting # i
             /\ Send(Flight("delete", i, None))
             /\ box' = [box EXCEPT !.deleting = i]
             /\ UNCHANGED <<db, page, heart, wrong>>

\* The button waits for the answer, the card does not.
Toggle == /\ heart # None /\ ~heart.busy
          /\ Send(Flight("toggle", None, None))
          /\ heart' = IF heart.kind = "button" THEN [heart EXCEPT !.busy = TRUE]
                      ELSE [heart EXCEPT !.busy = TRUE, !.on = ~@,
                                         !.count = IF heart.on THEN @ - 1 ELSE @ + 1]
          /\ UNCHANGED <<db, page, box, wrong>>

DeletePost == /\ box # None /\ ~box.removing
              /\ Send(Flight("remove", None, None))
              /\ box' = [box EXCEPT !.removing = TRUE]
              /\ UNCHANGED <<db, page, heart, wrong>>

-----------------------------------------------------------------------------
(* The API: what a call does, and what it will answer. *)

CanServe(f) == CASE f.op = "create" -> db.next <= MaxComments
                 [] f.op \in {"save", "delete"} -> db.text[f.id] # None
                 [] OTHER -> TRUE
Effect(f) == CASE f.op = "create" -> [db EXCEPT !.text[db.next] = f.text, !.next = @ + 1]
               [] f.op = "save"   -> [db EXCEPT !.text[f.id] = f.text]
               [] f.op = "delete" -> [db EXCEPT !.text[f.id] = None]
               [] f.op = "toggle" -> [db EXCEPT !.marked = ~@]
               [] f.op = "remove" -> db
Reply(f) == CASE f.op = "create" -> [f EXCEPT !.state = "done", !.id = db.next]
              [] f.op = "toggle" -> [f EXCEPT !.state = "done", !.text = ~db.marked]
              [] OTHER -> [f EXCEPT !.state = "done"]

Serve(f) == /\ f.state = "sent" /\ CanServe(f)
            /\ db' = Effect(f)
            /\ flights' = (flights \ {f}) \cup {Reply(f)}
            /\ wrong' = [wrong EXCEPT !.elsewhere = @ /\ f.op # "toggle"]
            /\ UNCHANGED <<page, box, heart>>

\* The user's own bookmark, from another device.
ToggleElsewhere == /\ heart # None
                   /\ db' = [db EXCEPT !.marked = ~@]
                   /\ wrong' = [wrong EXCEPT !.elsewhere = TRUE]
                   /\ UNCHANGED <<page, box, heart, flights>>

-----------------------------------------------------------------------------
(* Answers. *)

\* The `finally' of each handler.
Ended(f) ==
  CASE f.op = "create" -> [box EXCEPT !.submitting = FALSE]
    [] f.op = "save"   -> [box EXCEPT !.updating = None]
    [] f.op = "delete" -> [box EXCEPT !.deleting = None]
    [] f.op = "remove" -> [box EXCEPT !.removing = FALSE]
    [] OTHER -> box

\* The comment of the call, wherever the editor is by now.
PatchedInEditor(list, f) ==
  [n \in 1..Len(list) |-> IF list[n].id = box.editing THEN [list[n] EXCEPT !.text = f.text]
                          ELSE list[n]]
Patched(list, f) ==
  [n \in 1..Len(list) |-> IF list[n].id = f.id THEN [list[n] EXCEPT !.text = f.text]
                          ELSE list[n]]

\* prev.filter(c => c.id !== id): no two comments have one id.
Dropped(list, i) == IF HasId(list, i) THEN RemoveAt(list, PlaceOf(list, i)) ELSE list

\* An answered save closes whatever editor is open.
Done(f) ==
  CASE f.op = "create" -> [Ended(f) EXCEPT !.list = Append(@, [id |-> f.id, text |-> f.text])]
    [] f.op = "save"   -> [Ended(f) EXCEPT !.editing = None, !.draft = None,
                                           !.list = Patched(@, f)]
    [] f.op = "delete" -> [Ended(f) EXCEPT !.list = Dropped(@, f.id)]
    [] OTHER -> Ended(f)

\* The heart becomes what the answer says; the card's count follows where it guessed wrong.
HeartDone(on) == [heart EXCEPT !.busy = FALSE, !.on = on,
                    !.count = IF heart.kind = "button" \/ on = heart.on THEN @
                              ELSE IF on THEN @ + 1 ELSE @ - 1]
HeartFailedHalf == [heart EXCEPT !.busy = FALSE,
                      !.on = IF heart.kind = "button" THEN @ ELSE ~@]
HeartFailed == IF heart.kind = "button" THEN [heart EXCEPT !.busy = FALSE]
               ELSE [heart EXCEPT !.busy = FALSE, !.on = ~@,
                                  !.count = IF heart.on THEN @ - 1 ELSE @ + 1]

OwnAnswered(f) ==
  /\ f.state = "done" /\ f.op # "remove"
  /\ flights' = flights \ {f}
  /\ box' = IF box = None THEN None ELSE Done(f)
  /\ heart' = IF f.op = "toggle" THEN HeartDone(f.text) ELSE heart
  /\ UNCHANGED <<db, page, wrong>>
\* Deleting the post leads away from its page.
Removed(f) == f.state = "done" /\ f.op = "remove" /\ PostUnmount

GivenUp(f) == /\ flights' = flights \ {f}
              /\ box' = IF box = None THEN None ELSE Ended(f)
              /\ heart' = IF f.op = "toggle" THEN HeartFailed ELSE heart
              /\ UNCHANGED page
\* A comment that is gone, an error before anything was done: the tables are as they were.
Refused(f) == f.state = "sent" /\ GivenUp(f) /\ UNCHANGED <<db, wrong>>
\* The answer does not come in time, be the call done or not.
Lost(f) == /\ GivenUp(f)
           /\ db' = IF f.state = "sent" /\ CanServe(f) THEN Effect(f) ELSE db
           /\ wrong' = [wrong EXCEPT !.lost = TRUE]

PostNext ==
  \/ page # None /\ \E c \in page.calls : PageAnswered(c)
  \/ PageRetry
  \/ \E t \in Texts : Submit(t) \/ Typing(t)
  \/ \E i \in Ids : StartEdit(i) \/ SaveEdit(i) \/ Delete(i)
  \/ CancelEdit
  \/ Toggle
  \/ ToggleElsewhere
  \/ DeletePost
  \/ \E f \in flights : Serve(f) \/ OwnAnswered(f) \/ Removed(f) \/ Refused(f) \/ Lost(f)

-----------------------------------------------------------------------------
(* Properties. *)

\* Patched from its answers in whatever order they come, the list ends as the comments that
\* are stored, in their order -- as long as no answer was lost, and but for the text of a
\* comment of which two edits crossed (CommentSection.tsx:57-123).
CommentsAreStored ==
  box # None /\ ~wrong.lost /\ {f \in flights : f.op # "toggle"} = {} =>
    /\ Len(box.list) = Len(Stored)
    /\ \A n \in 1..Len(Stored) : \/ box.list[n] = Stored[n]
                                 \/ /\ Stored[n].id \in wrong.crossed
                                    /\ box.list[n].id = Stored[n].id

\* The heart ends as the bookmark is, even when it was wrong at the click because another
\* device had toggled it, and a card's count always counts its own heart, after guesses that
\* were right, wrong or refused (PostCard.tsx:35-67, BookmarkButton.tsx:22-38).
HeartsAgree ==
  heart # None =>
    /\ ~heart.busy /\ ~wrong.lost /\ ~wrong.elsewhere => heart.on = db.marked
    /\ heart.kind = "card" => heart.count = IF heart.on THEN heart.base + 1 ELSE heart.base
=============================================================================

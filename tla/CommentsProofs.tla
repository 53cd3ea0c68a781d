--------------------------- MODULE CommentsProofs ---------------------------
(***************************************************************************)
(* Proofs about the comments of PostPage, for any number of comments,      *)
(* texts and calls in flight: what the section shows, what is stored, and  *)
(* the calls between them whose answers may come in any order.             *)
(***************************************************************************)
EXTENDS WritingPagesProofs, SequenceTheorems, FiniteSetTheorems

Comments == [id : Ids, text : Texts]
Calls    == [op : {"create", "save", "delete", "remove"}, id : Ids \cup {None},
             text : Texts \cup {None}, state : {"sent", "done"}]
IsEdit(f) == f.op \in {"save", "delete"}

\* What is written is a text, and what is asked of a comment, or answered about one, names it.
Proper(f) == /\ f.op \in {"create", "save"} => f.text \in Texts
             /\ IsEdit(f) \/ (f.op = "create" /\ f.state = "done") => f.id \in Ids

Typed(items, text, next, fl) ==
  /\ items \subseteq Comments /\ text \in [Ids -> Texts \cup {None}] /\ next \in Nat
  /\ fl \subseteq Calls /\ \A f \in fl : Proper(f)
\* Ids are given out in turn, and nobody knows one before.
Numbered(items, text, next, fl) ==
  /\ next > 0 /\ \A i \in Ids : i >= next => text[i] = None
  /\ \A c \in items : c.id < next
  /\ \A f \in fl : IsEdit(f) => f.id < next
\* One comment is created at a time; until its answer it is as it was sent, and the newest.
Created(items, text, next, fl) ==
  /\ \A f, g \in fl : f.op = "create" /\ g.op = "create" => f = g
  /\ \A f \in fl : f.op = "create" /\ f.state = "done" =>
       /\ text[f.id] = f.text /\ f.id < next
       /\ \A c \in items : c.id < f.id
       /\ \A g \in fl : IsEdit(g) => g.id # f.id
Deleted(text, fl) == \A f \in fl : f.op = "delete" /\ f.state = "done" => text[f.id] = None
\* Two edits of a comment cross; a single one that was stored is still what is stored.
Saved(text, fl, crossed) ==
  \A f \in fl : f.op = "save" /\ f.id \notin crossed =>
    /\ f.state = "done" => text[f.id] \in {None, f.text}
    /\ \A g \in fl : g.op = "save" /\ g.id = f.id => g = f
\* What is shown and no longer stored has an answer on its way that drops or patches it.
Stale(items, text, fl, crossed) ==
  \A c \in items :
    /\ text[c.id] = None => \E f \in fl : f.op = "delete" /\ f.id = c.id /\ f.state = "done"
    /\ text[c.id] # None /\ c.id \notin crossed =>
         \/ c.text = text[c.id]
         \/ \E f \in fl : f.op = "save" /\ f.id = c.id /\ f.state = "done"
\* What is stored and not yet shown has an answer on its way that appends it.
Missing(items, text, fl) ==
  \A i \in Ids : text[i] # None =>
    \/ \E c \in items : c.id = i
    \/ \E f \in fl : f.op = "create" /\ f.id = i /\ f.state = "done"

Agrees(items, text, next, fl, crossed) ==
  /\ Typed(items, text, next, fl) /\ Numbered(items, text, next, fl)
  /\ Created(items, text, next, fl) /\ Deleted(text, fl) /\ Saved(text, fl, crossed)
  /\ Stale(items, text, fl, crossed) /\ Missing(items, text, fl)

\* A new call: at most one that creates, and about comments that are shown.
LEMMA CallSent ==
  ASSUME NEW items, NEW text, NEW next, NEW fl, NEW crossed, NEW to,
         Agrees(items, text, next, fl, crossed), crossed \subseteq to,
         NEW f \in Calls, Proper(f), f.state = "sent",
         f.op = "create" => \A g \in fl : g.op # "create",
         IsEdit(f) => \E c \in items : c.id = f.id,
         f.op = "save" => \A g \in fl : g.op = "save" /\ g.id = f.id => f.id \in to
  PROVE  Agrees(items, text, next, fl \cup {f}, to)
<1>1. Typed(items, text, next, fl \cup {f})
  BY DEF Agrees, Typed
<1>2. Numbered(items, text, next, fl \cup {f})
  BY DEF Agrees, Numbered
<1>3. Created(items, text, next, fl \cup {f})
  BY DEF Agrees, Created, Typed, Comments, IsEdit, Ids
<1>4. Deleted(text, fl \cup {f})
  BY DEF Agrees, Deleted
<1>5. Saved(text, fl \cup {f}, to)
  BY DEF Agrees, Saved
<1>6. Stale(items, text, fl \cup {f}, to) /\ Missing(items, text, fl \cup {f})
  BY DEF Agrees, Stale, Missing
<1> QED
  BY <1>1, <1>2, <1>3, <1>4, <1>5, <1>6 DEF Agrees

\* What was not done leaves no trace.
LEMMA CallRefused ==
  ASSUME NEW items, NEW text, NEW next, NEW fl, NEW crossed,
         Agrees(items, text, next, fl, crossed), NEW f \in fl, f.state = "sent"
  PROVE  Agrees(items, text, next, fl \ {f}, crossed)
<1>1. Typed(items, text, next, fl \ {f}) /\ Numbered(items, text, next, fl \ {f})
  BY DEF Agrees, Typed, Numbered
<1>2. Created(items, text, next, fl \ {f}) /\ Deleted(text, fl \ {f})
  BY DEF Agrees, Created, Deleted
<1>3. Saved(text, fl \ {f}, crossed)
  BY DEF Agrees, Saved
<1>4. Stale(items, text, fl \ {f}, crossed) /\ Missing(items, text, fl \ {f})
  BY DEF Agrees, Stale, Missing
<1> QED
  BY <1>1, <1>2, <1>3, <1>4 DEF Agrees

\* A call f that is done becomes its answer g, and the stored texts what they are then.
LEMMA CreateStored ==
  ASSUME NEW items, NEW text, NEW next, NEW fl, NEW crossed, NEW to, NEW fl2,
         Agrees(items, text, next, fl, crossed), next \in Ids,
         NEW f \in fl, f.op = "create", f.state = "sent", NEW g \in Calls,
         g.op = "create", g.state = "done", g.id = next, g.text = f.text,
         to = [text EXCEPT ![next] = f.text], fl2 = (fl \ {f}) \cup {g}
  PROVE  Agrees(items, to, next + 1, fl2, crossed)
<1>1. text \in [Ids -> Texts \cup {None}] /\ next \in Nat /\ f.text \in Texts /\ Proper(g)
  BY DEF Agrees, Typed, Proper, IsEdit
<1>2. to \in [Ids -> Texts \cup {None}] /\ to[next] = f.text
  BY <1>1
<1>3. \A i \in Ids : i # next => to[i] = text[i]
  BY <1>1
<1>4. f.text # None /\ text[next] = None
  BY <1>1, PostPageAssumption DEF Agrees, Numbered, Ids
<1>5. \A h \in fl2 : h = g \/ (h \in fl /\ h # f /\ h.op # "create")
  BY DEF Agrees, Created
<1>6. Typed(items, to, next + 1, fl2)
  BY <1>1, <1>2 DEF Agrees, Typed
<1>7. /\ \A c \in items : c.id \in Ids /\ c.id < next
      /\ \A h \in fl2 : IsEdit(h) => h.id \in Ids /\ h.id < next
  BY <1>5 DEF Agrees, Numbered, Typed, Comments, Proper, IsEdit
<1>8. Numbered(items, to, next + 1, fl2)
  <2>1. \A i \in Ids : i >= next + 1 => to[i] = None
    BY <1>1, <1>3 DEF Agrees, Numbered, Ids
  <2>2. next + 1 > 0 /\ \A j \in Ids : j < next => j < next + 1
    BY <1>1 DEF Ids
  <2> QED
    BY <1>7, <2>1, <2>2 DEF Numbered
<1>9. Created(items, to, next + 1, fl2)
  <2>1. next < next + 1 /\ (\A j \in Ids : j < next => j # next)
    BY <1>1 DEF Ids
  <2> QED
    BY <1>2, <1>5, <1>7, <2>1 DEF Created
<1>10. \A j \in Ids : j < next => to[j] = text[j]
  BY <1>1, <1>3 DEF Ids
<1>11. Deleted(to, fl2)
  BY <1>5, <1>7, <1>10 DEF Agrees, Deleted, IsEdit
<1>12. Saved(to, fl2, crossed)
  BY <1>5, <1>7, <1>10 DEF Agrees, Saved, IsEdit
<1>13. Stale(items, to, fl2, crossed)
  BY <1>7, <1>10 DEF Agrees, Stale
<1>14. Missing(items, to, fl2)
  BY <1>3 DEF Agrees, Missing, Created
<1> QED
  BY <1>6, <1>8, <1>9, <1>11, <1>12, <1>13, <1>14 DEF Agrees

LEMMA SaveStored ==
  ASSUME NEW items, NEW text, NEW next, NEW fl, NEW crossed, NEW to, NEW fl2,
         Agrees(items, text, next, fl, crossed),
         NEW f \in fl, f.op = "save", text[f.id] # None, NEW g \in Calls,
         g.op = "save", g.state = "done", g.id = f.id, g.text = f.text,
         to = [text EXCEPT ![f.id] = f.text], fl2 = (fl \ {f}) \cup {g}
  PROVE  Agrees(items, to, next, fl2, crossed)
<1>1. text \in [Ids -> Texts \cup {None}] /\ f.text \in Texts /\ f.id \in Ids /\ Proper(g)
  BY DEF Agrees, Typed, Proper, IsEdit
<1>2. to \in [Ids -> Texts \cup {None}] /\ to[f.id] = f.text /\ f.text # None
  BY <1>1, PostPageAssumption
<1>3. \A i \in Ids : i # f.id => to[i] = text[i]
  BY <1>1
<1>4. \A h \in fl2 : h = g \/ (h \in fl /\ h # f)
  OBVIOUS
<1>5. \A i \in Ids : to[i] = None <=> text[i] = None
  BY <1>2, <1>3
<1>6. Typed(items, to, next, fl2)
  BY <1>1, <1>2 DEF Agrees, Typed
<1>7. Numbered(items, to, next, fl2)
  BY <1>4, <1>5 DEF Agrees, Numbered, IsEdit
<1>8. Created(items, to, next, fl2)
  <2>1. \A h \in fl2 : h.op = "create" => h \in fl
    BY <1>4
  <2>2. \A h \in fl2 : IsEdit(h) => \E k \in fl : IsEdit(k) /\ k.id = h.id
    BY <1>4 DEF IsEdit
  <2>3. \A h \in fl : h.op = "create" /\ h.state = "done" => h.id \in Ids /\ h.id # f.id
    BY DEF Agrees, Typed, Proper, Created, IsEdit
  <2> QED
    BY <1>3, <2>1, <2>2, <2>3 DEF Agrees, Created
<1>9. Deleted(to, fl2)
  BY <1>4, <1>5 DEF Agrees, Typed, Proper, IsEdit, Deleted
<1>10. Saved(to, fl2, crossed)
  <2>1. \A h \in fl : h.op = "save" => h.id \in Ids
    BY DEF Agrees, Typed, Proper, IsEdit
  <2>2. f.id \notin crossed => \A h \in fl2 : h.op = "save" /\ h.id = f.id => h = g
    BY <1>4 DEF Agrees, Saved
  <2> QED
    BY <1>1, <1>2, <1>3, <1>4, <2>1, <2>2 DEF Agrees, Saved
<1>11. Stale(items, to, fl2, crossed)
  <2>1. \A c \in items : c.id \in Ids
    BY DEF Agrees, Typed, Comments
  <2>2. \A h \in fl : h.op = "delete" => h \in fl2
    OBVIOUS
  <2>3. \A h \in fl : h.op = "save" /\ h.state = "done" =>
           \E k \in fl2 : k.op = "save" /\ k.id = h.id /\ k.state = "done"
    BY <1>4
  <2>4. \A c \in items : c.id # f.id => to[c.id] = text[c.id]
    BY <1>3, <2>1
  <2> QED
    BY <1>5, <2>1, <2>2, <2>3, <2>4 DEF Agrees, Stale
<1>12. Missing(items, to, fl2)
  BY <1>5 DEF Agrees, Missing
<1> QED
  BY <1>6, <1>7, <1>8, <1>9, <1>10, <1>11, <1>12 DEF Agrees

LEMMA DeleteStored ==
  ASSUME NEW items, NEW text, NEW next, NEW fl, NEW crossed, NEW to, NEW fl2,
         Agrees(items, text, next, fl, crossed),
         NEW f \in fl, f.op = "delete", NEW g \in Calls,
         g.op = "delete", g.state = "done", g.id = f.id, g.text = f.text,
         to = [text EXCEPT ![f.id] = None], fl2 = (fl \ {f}) \cup {g}
  PROVE  Agrees(items, to, next, fl2, crossed)
<1>1. text \in [Ids -> Texts \cup {None}] /\ f.id \in Ids /\ Proper(g)
  BY DEF Agrees, Typed, Proper, IsEdit
<1>2. to \in [Ids -> Texts \cup {None}] /\ to[f.id] = None
  BY <1>1
<1>3. \A i \in Ids : i # f.id => to[i] = text[i]
  BY <1>1
<1>4. \A h \in fl2 : h = g \/ (h \in fl /\ h # f)
  OBVIOUS
<1>5. \A h \in fl : h.op # "delete" => h \in fl2
  OBVIOUS
<1>6. Typed(items, to, next, fl2)
  BY <1>1, <1>2 DEF Agrees, Typed
<1>7. Numbered(items, to, next, fl2)
  BY <1>2, <1>3, <1>4 DEF Agrees, Numbered, IsEdit
<1>8. Created(items, to, next, fl2)
  <2>1. \A h \in fl2 : h.op = "create" => h \in fl
    BY <1>4
  <2>2. \A h \in fl2 : IsEdit(h) => \E k \in fl : IsEdit(k) /\ k.id = h.id
    BY <1>4 DEF IsEdit
  <2>3. \A h \in fl : h.op = "create" /\ h.state = "done" => h.id \in Ids /\ h.id # f.id
    BY DEF Agrees, Typed, Proper, Created, IsEdit
  <2> QED
    BY <1>3, <2>1, <2>2, <2>3 DEF Agrees, Created
<1>9. Deleted(to, fl2)
  <2>1. \A h \in fl : h.op = "delete" => h.id \in Ids
    BY DEF Agrees, Typed, Proper, IsEdit
  <2> QED
    BY <1>2, <1>3, <1>4, <2>1 DEF Agrees, Deleted
<1>10. Saved(to, fl2, crossed)
  <2>1. \A h \in fl : h.op = "save" => h.id \in Ids
    BY DEF Agrees, Typed, Proper, IsEdit
  <2> QED
    BY <1>2, <1>3, <1>4, <2>1 DEF Agrees, Saved
<1>11. Stale(items, to, fl2, crossed)
  <2>1. \A c \in items : c.id \in Ids
    BY DEF Agrees, Typed, Comments
  <2>2. \A h \in fl : h.op = "delete" /\ h.state = "done" =>
           \E k \in fl2 : k.op = "delete" /\ k.id = h.id /\ k.state = "done"
    BY <1>4
  <2>3. g \in fl2
    OBVIOUS
  <2> QED
    BY <1>2, <1>3, <1>5, <2>1, <2>2, <2>3 DEF Agrees, Stale
<1>12. Missing(items, to, fl2)
  BY <1>2, <1>3, <1>5 DEF Agrees, Missing
<1> QED
  BY <1>6, <1>7, <1>8, <1>9, <1>10, <1>11, <1>12 DEF Agrees

LEMMA RemovalServed ==
  ASSUME NEW items, NEW text, NEW next, NEW fl, NEW crossed, NEW fl2,
         Agrees(items, text, next, fl, crossed), NEW f \in fl, f.op = "remove",
         NEW g \in Calls, g.op = "remove", fl2 = (fl \ {f}) \cup {g}
  PROVE  Agrees(items, text, next, fl2, crossed)
<1>1. \A h \in fl2 : h.op # "remove" => h \in fl
  OBVIOUS
<1>2. \A h \in fl : h.op # "remove" => h \in fl2
  OBVIOUS
<1>3. Typed(items, text, next, fl2)
  BY DEF Agrees, Typed, Proper, IsEdit
<1>4. Numbered(items, text, next, fl2) /\ Deleted(text, fl2)
  BY <1>1 DEF Agrees, Numbered, Deleted, IsEdit
<1>5. Created(items, text, next, fl2)
  BY <1>1 DEF Agrees, Created, IsEdit
<1>6. Saved(text, fl2, crossed)
  BY <1>1 DEF Agrees, Saved
<1>7. Stale(items, text, fl2, crossed) /\ Missing(items, text, fl2)
  BY <1>2 DEF Agrees, Stale, Missing
<1> QED
  BY <1>3, <1>4, <1>5, <1>6, <1>7 DEF Agrees

\* The answers, and what they do to the comments shown.
LEMMA CreateShown ==
  ASSUME NEW items, NEW text, NEW next, NEW fl, NEW crossed,
         Agrees(items, text, next, fl, crossed),
         NEW f \in fl, f.op = "create", f.state = "done",
         NEW c \in Comments, c.id = f.id, c.text = f.text
  PROVE  Agrees(items \cup {c}, text, next, fl \ {f}, crossed)
<1>1. f.id \in Ids /\ f.text \in Texts /\ f.text # None
  BY PostPageAssumption DEF Agrees, Typed, Proper
<1>2. text[f.id] = f.text /\ f.id < next /\ \A g \in fl : g.op = "create" => g = f
  BY DEF Agrees, Created
<1>3. Typed(items \cup {c}, text, next, fl \ {f})
  BY DEF Agrees, Typed
<1>4. Numbered(items \cup {c}, text, next, fl \ {f}) /\ Deleted(text, fl \ {f})
  BY <1>2 DEF Agrees, Numbered, Deleted
<1>5. Created(items \cup {c}, text, next, fl \ {f})
  BY <1>2 DEF Created
<1>6. Saved(text, fl \ {f}, crossed)
  BY DEF Agrees, Saved
<1>7. Stale(items \cup {c}, text, fl \ {f}, crossed)
  BY <1>1, <1>2 DEF Agrees, Stale
<1>8. Missing(items \cup {c}, text, fl \ {f})
  BY <1>2 DEF Agrees, Missing
<1> QED
  BY <1>3, <1>4, <1>5, <1>6, <1>7, <1>8 DEF Agrees

\* Each item is one of before, patched if it is the one that was saved.
LEMMA SaveShown ==
  ASSUME NEW items, NEW text, NEW next, NEW fl, NEW crossed, NEW items2 \in SUBSET Comments,
         Agrees(items, text, next, fl, crossed),
         NEW f \in fl, f.op = "save", f.state = "done",
         \A c \in items : \E d \in items2 : d.id = c.id,
         \A d \in items2 : \E c \in items :
           d.id = c.id /\ d.text = IF c.id = f.id THEN f.text ELSE c.text
  PROVE  Agrees(items2, text, next, fl \ {f}, crossed)
<1>1. Typed(items2, text, next, fl \ {f})
  BY DEF Agrees, Typed
<1>2. Numbered(items2, text, next, fl \ {f}) /\ Deleted(text, fl \ {f})
  BY DEF Agrees, Numbered, Deleted
<1>3. Created(items2, text, next, fl \ {f})
  BY DEF Agrees, Created
<1>4. Saved(text, fl \ {f}, crossed)
  BY DEF Agrees, Saved
<1>5. Stale(items2, text, fl \ {f}, crossed)
  <2>1. f.id \notin crossed => /\ text[f.id] \in {None, f.text}
                               /\ \A g \in fl : g.op = "save" /\ g.id = f.id => g = f
    BY DEF Agrees, Saved
  <2>2. \A g \in fl : g.op = "delete" => g \in fl \ {f}
    OBVIOUS
  <2>3. \A g \in fl : g.id # f.id => g \in fl \ {f}
    OBVIOUS
  <2> SUFFICES ASSUME NEW d \in items2
               PROVE  /\ text[d.id] = None =>
                           \E g \in fl \ {f} : g.op = "delete" /\ g.id = d.id /\ g.state = "done"
                      /\ text[d.id] # None /\ d.id \notin crossed =>
                           \/ d.text = text[d.id]
                           \/ \E g \in fl \ {f} : g.op = "save" /\ g.id = d.id /\ g.state = "done"
    BY DEF Stale
  <2>4. PICK c \in items : d.id = c.id /\ d.text = IF c.id = f.id THEN f.text ELSE c.text
    OBVIOUS
  <2>5. text[d.id] = None => \E g \in fl \ {f} : g.op = "delete" /\ g.id = d.id /\ g.state = "done"
    BY <2>2, <2>4 DEF Agrees, Stale
  <2>6. CASE c.id = f.id
    BY <2>1, <2>4, <2>5, <2>6
  <2>7. CASE c.id # f.id
    BY <2>3, <2>4, <2>5, <2>7 DEF Agrees, Stale
  <2> QED
    BY <2>6, <2>7
<1>6. Missing(items2, text, fl \ {f})
  BY DEF Agrees, Missing
<1> QED
  BY <1>1, <1>2, <1>3, <1>4, <1>5, <1>6 DEF Agrees

LEMMA DeleteShown ==
  ASSUME NEW items, NEW text, NEW next, NEW fl, NEW crossed, NEW items2,
         Agrees(items, text, next, fl, crossed),
         NEW f \in fl, f.op = "delete", f.state = "done",
         items2 = {c \in items : c.id # f.id}
  PROVE  Agrees(items2, text, next, fl \ {f}, crossed)
<1>1. Typed(items2, text, next, fl \ {f})
  BY DEF Agrees, Typed
<1>2. Numbered(items2, text, next, fl \ {f}) /\ Deleted(text, fl \ {f})
  BY DEF Agrees, Numbered, Deleted
<1>3. Created(items2, text, next, fl \ {f})
  BY DEF Agrees, Created
<1>4. Saved(text, fl \ {f}, crossed)
  BY DEF Agrees, Saved
<1>5. Stale(items2, text, fl \ {f}, crossed)
  BY DEF Agrees, Stale
<1>6. Missing(items2, text, fl \ {f})
  BY DEF Agrees, Missing, Deleted
<1> QED
  BY <1>1, <1>2, <1>3, <1>4, <1>5, <1>6 DEF Agrees

-----------------------------------------------------------------------------
(* Lists of comments, and the stored ones. *)

Lists == {l \in Seq(Comments) : \A m, n \in 1..Len(l) : m < n => l[m].id < l[n].id}

\* In the order of their ids; so no two have one id.
LEMMA ListFact ==
  ASSUME NEW l \in Lists
  PROVE  /\ l \in Seq(Comments) /\ Len(l) \in Nat /\ DOMAIN l = 1..Len(l)
         /\ \A n \in 1..Len(l) : l[n] \in Comments /\ l[n].id \in Ids /\ l[n].id \in Int
         /\ \A m, n \in 1..Len(l) : m < n => l[m].id < l[n].id
         /\ \A m, n \in 1..Len(l) : l[m].id = l[n].id => m = n
<1>1. l \in Seq(Comments) /\ Len(l) \in Nat /\ DOMAIN l = 1..Len(l)
  BY LenProperties DEF Lists
<1>2. \A n \in 1..Len(l) : l[n] \in Comments /\ l[n].id \in Ids /\ l[n].id \in Int
  <2>1. \A c \in Comments : c.id \in Ids /\ c.id \in Int
    BY DEF Comments, Ids
  <2>2. \A n \in 1..Len(l) : l[n] \in Comments
    BY <1>1, ElementOfSeq
  <2> QED
    BY <2>1, <2>2
<1>3. \A m, n \in 1..Len(l) : m < n => l[m].id < l[n].id
  BY DEF Lists
<1>4. \A m, n \in 1..Len(l) : l[m].id = l[n].id => m = n
  <2> SUFFICES ASSUME NEW m \in 1..Len(l), NEW n \in 1..Len(l), m < n PROVE l[m].id # l[n].id
    BY <1>1
  <2> QED
    BY <1>2, <1>3
<1> QED
  BY <1>1, <1>2, <1>3, <1>4

LEMMA Shown ==
  ASSUME NEW l \in Lists
  PROVE  ToSet(l) = {l[n] : n \in 1..Len(l)} /\ ToSet(l) \subseteq Comments
BY ListFact DEF ToSet

LEMMA Appended ==
  ASSUME NEW l \in Lists, NEW c \in Comments, \A d \in ToSet(l) : d.id < c.id
  PROVE  Append(l, c) \in Lists /\ ToSet(Append(l, c)) = ToSet(l) \cup {c}
<1>1. PICK k \in Nat : k = Len(l)
  BY ListFact
<1>2. PICK a \in Seq(Comments) : a = Append(l, c)
  BY ListFact, AppendProperties
<1>3. Len(a) = k + 1 /\ (\A n \in 1..k : a[n] = l[n]) /\ a[k + 1] = c
  BY <1>1, <1>2, ListFact, AppendProperties
<1>4. \A n \in 1..(k + 1) : n \in 1..k \/ n = k + 1
  OBVIOUS
<1>5. \A n \in 1..k : l[n].id < c.id
  BY <1>1, Shown
<1>6. \A m, n \in 1..(k + 1) : m < n => a[m].id < a[n].id
  <2> SUFFICES ASSUME NEW m \in 1..(k + 1), NEW n \in 1..(k + 1), m < n PROVE a[m].id < a[n].id
    OBVIOUS
  <2>1. m \in 1..k
    OBVIOUS
  <2> QED
    BY <1>1, <1>3, <1>4, <1>5, <2>1, ListFact
<1>7. a \in Lists
  BY <1>3, <1>6 DEF Lists
<1>8. k + 1 \in 1..(k + 1) /\ 1..k \subseteq 1..(k + 1)
  OBVIOUS
<1>9. ToSet(a) = ToSet(l) \cup {c}
  BY <1>1, <1>3, <1>4, <1>7, <1>8, Shown
<1> QED
  BY <1>2, <1>7, <1>9

LEMMA PatchedFits ==
  ASSUME NEW l \in Lists, NEW f, f.text \in Texts
  PROVE  /\ Patched(l, f) \in Lists
         /\ \A c \in ToSet(l) : \E d \in ToSet(Patched(l, f)) : d.id = c.id
         /\ \A d \in ToSet(Patched(l, f)) : \E c \in ToSet(l) :
              d.id = c.id /\ d.text = IF c.id = f.id THEN f.text ELSE c.text
<1>1. PICK k \in Nat : k = Len(l)
  BY ListFact
<1>2. PICK p : p = Patched(l, f)
  OBVIOUS
<1>3. DOMAIN p = 1..k /\ p = [n \in 1..k |-> p[n]]
  BY <1>1, <1>2 DEF Patched
<1>4. ASSUME NEW n \in 1..k
      PROVE  /\ p[n] \in Comments /\ p[n].id = l[n].id
             /\ p[n].text = IF l[n].id = f.id THEN f.text ELSE l[n].text
  <2>1. l[n] \in Comments
    BY <1>1, ListFact
  <2>2. p[n] = IF l[n].id = f.id THEN [l[n] EXCEPT !.text = f.text] ELSE l[n]
    BY <1>1, <1>2 DEF Patched
  <2> QED
    BY <2>1, <2>2 DEF Comments
<1>5. p \in [1..k -> Comments]
  BY <1>3, <1>4
<1>6. p \in Seq(Comments)
  BY <1>5, SeqDef
<1>7. Len(p) = k
  BY <1>3, <1>6, LenProperties
<1>8. p \in Lists
  BY <1>1, <1>4, <1>6, <1>7, ListFact DEF Lists
<1> QED
  BY <1>1, <1>2, <1>4, <1>7, <1>8, Shown

\* The list without one comment is the list before and after it.
LEMMA DroppedFits ==
  ASSUME NEW l \in Lists, NEW i \in Ids
  PROVE  Dropped(l, i) \in Lists /\ ToSet(Dropped(l, i)) = {c \in ToSet(l) : c.id # i}
<1>1. PICK k \in Nat : k = Len(l)
  BY ListFact
<1>2. CASE ~HasId(l, i)
  <2>1. Dropped(l, i) = l /\ \A n \in 1..k : l[n].id # i
    BY <1>1, <1>2 DEF Dropped, HasId
  <2> QED
    BY <1>1, <2>1, Shown
<1>3. CASE HasId(l, i)
  <2>1. PICK p \in 1..k : p = PlaceOf(l, i) /\ l[p].id = i
    BY <1>1, <1>3 DEF HasId, PlaceOf
  <2>2. PICK s, t : s = SubSeq(l, 1, p - 1) /\ t = SubSeq(l, p + 1, k)
    OBVIOUS
  <2>3. s \in Seq(Comments) /\ Len(s) = p - 1 /\ \A n \in 1..(p - 1) : s[n] = l[n]
    <3>1. 1 \in Int /\ p - 1 \in Int /\ \A n \in 1..(p - 1) : l[n] \in Comments
      BY <1>1, ListFact
    <3>2. /\ SubSeq(l, 1, p - 1) \in Seq(Comments)
          /\ Len(SubSeq(l, 1, p - 1)) = IF 1 <= p - 1 THEN p - 1 - 1 + 1 ELSE 0
          /\ \A n \in 1..(p - 1 - 1 + 1) : SubSeq(l, 1, p - 1)[n] = l[1 + n - 1]
      BY <3>1, SubSeqProperties
    <3> QED
      BY <2>2, <3>2
  <2>4. t \in Seq(Comments) /\ Len(t) = k - p /\ \A n \in 1..(k - p) : t[n] = l[p + n]
    <3>1. p + 1 \in Int /\ k \in Int /\ \A n \in (p + 1)..k : l[n] \in Comments
      BY <1>1, ListFact
    <3>2. /\ SubSeq(l, p + 1, k) \in Seq(Comments)
          /\ Len(SubSeq(l, p + 1, k)) = IF p + 1 <= k THEN k - (p + 1) + 1 ELSE 0
          /\ \A n \in 1..(k - (p + 1) + 1) : SubSeq(l, p + 1, k)[n] = l[p + 1 + n - 1]
      BY <3>1, SubSeqProperties
    <3>3. /\ k - (p + 1) + 1 = k - p
          /\ IF p + 1 <= k THEN k - (p + 1) + 1 = k - p ELSE k - p = 0
      OBVIOUS
    <3>4. \A n \in 1..(k - p) : p + 1 + n - 1 = p + n
      OBVIOUS
    <3> QED
      BY <2>2, <3>2, <3>3, <3>4
  <2>5. PICK d : d = s \o t
    OBVIOUS
  <2>6. Dropped(l, i) = d
    BY <1>1, <1>3, <2>1, <2>2, <2>5 DEF Dropped, RemoveAt
  <2>7. /\ d \in Seq(Comments) /\ Len(d) = k - 1
        /\ \A n \in 1..(k - 1) : d[n] = IF n <= p - 1 THEN s[n] ELSE t[n - (p - 1)]
    <3>1. s \in Seq(Comments) /\ t \in Seq(Comments)
      BY <2>3, <2>4
    <3>2. /\ s \o t \in Seq(Comments) /\ Len(s \o t) = Len(s) + Len(t)
          /\ \A n \in 1..(Len(s) + Len(t)) :
               (s \o t)[n] = IF n <= Len(s) THEN s[n] ELSE t[n - Len(s)]
      BY <3>1, ConcatProperties
    <3>3. Len(s) = p - 1 /\ Len(s) + Len(t) = k - 1
      <4>1. p - 1 + (k - p) = k - 1
        OBVIOUS
      <4> QED
        BY <2>3, <2>4, <4>1
    <3> QED
      BY <2>5, <3>2, <3>3
  <2>8. \A n \in 1..(k - 1) : d[n] = IF n < p THEN l[n] ELSE l[n + 1]
    <3> SUFFICES ASSUME NEW n \in 1..(k - 1) PROVE d[n] = IF n < p THEN l[n] ELSE l[n + 1]
      OBVIOUS
    <3>1. CASE n < p
      BY <2>3, <2>7, <3>1
    <3>2. CASE ~(n < p)
      <4>1. n - (p - 1) \in 1..(k - p) /\ p + (n - (p - 1)) = n + 1
        BY <3>2
      <4> QED
        BY <2>4, <2>7, <3>2, <4>1
    <3> QED
      BY <3>1, <3>2
  <2>9. d \in Lists
    <3> SUFFICES ASSUME NEW m \in 1..(k - 1), NEW n \in 1..(k - 1), m < n PROVE d[m].id < d[n].id
      BY <2>7 DEF Lists
    <3>1. m + 1 \in 1..k /\ n + 1 \in 1..k /\ m \in 1..k /\ n \in 1..k /\ m < n + 1 /\ m + 1 < n + 1
      OBVIOUS
    <3>2. \A a, b \in 1..k : a < b => l[a].id < l[b].id
      BY <1>1, ListFact
    <3>3. l[m].id < l[n].id /\ l[m].id < l[n + 1].id /\ l[m + 1].id < l[n + 1].id
      BY <3>1, <3>2
    <3>4. m < p \/ ~(n < p)
      OBVIOUS
    <3> QED
      BY <2>8, <3>3, <3>4
  <2>10. ASSUME NEW n \in 1..k, l[n].id # i PROVE \E m \in 1..(k - 1) : d[m] = l[n]
    <3>1. n # p
      BY <2>1, <2>10
    <3>2. CASE n < p
      <4>1. n \in 1..(k - 1)
        BY <3>2
      <4> QED
        BY <2>8, <3>2, <4>1
    <3>3. CASE n > p
      <4>1. n - 1 \in 1..(k - 1) /\ ~(n - 1 < p) /\ n - 1 + 1 = n
        BY <3>3
      <4> QED
        BY <2>8, <4>1
    <3> QED
      BY <3>1, <3>2, <3>3
  <2>11. ASSUME NEW m \in 1..(k - 1) PROVE \E n \in 1..k : d[m] = l[n] /\ l[n].id # i
    <3>1. PICK n \in 1..k : d[m] = l[n] /\ n # p
      <4>1. m \in 1..k /\ m + 1 \in 1..k
        OBVIOUS
      <4> QED
        BY <2>8, <4>1
    <3> QED
      BY <1>1, <2>1, <3>1, ListFact
  <2>12. ToSet(d) = {d[n] : n \in 1..(k - 1)} /\ ToSet(l) = {l[n] : n \in 1..k}
    BY <1>1, <2>7, <2>9, Shown
  <2>13. \A c \in ToSet(l) : c.id # i => c \in ToSet(d)
    BY <2>10, <2>12
  <2>14. \A c \in ToSet(d) : c \in ToSet(l) /\ c.id # i
    BY <2>11, <2>12
  <2> QED
    BY <2>6, <2>9, <2>13, <2>14
<1> QED
  BY <1>2, <1>3

\* As many ids as places, for they ascend.
LEMMA PlacesCounted ==
  ASSUME NEW l \in Lists, NEW k \in 0..Len(l), NEW S, S = {l[n].id : n \in 1..k}
  PROVE  Cardinality(S) = k
<1>1. k \in Nat /\ 1..k \subseteq 1..Len(l)
  BY ListFact
<1>2. PICK h : h = [n \in 1..k |-> l[n].id]
  OBVIOUS
<1>3. h \in [1..k -> S] /\ (\A n \in 1..k : h[n] = l[n].id) /\ DOMAIN h = 1..k
  BY <1>2
<1>4. \A m, n \in 1..k : h[m] = h[n] => m = n
  BY <1>1, <1>3, ListFact
<1>5. \A s \in S : \E n \in 1..k : h[n] = s
  BY <1>3
<1>6. h \in Bijection(1..k, S)
  BY <1>3, <1>4, <1>5 DEF Bijection, Injection, Surjection, IsInjective
<1> QED
  BY <1>1, <1>6, FS_CountingElements DEF ExistsBijection

\* A list of just the stored ids is in the order of the stored comments.
LEMMA StoredIs ==
  ASSUME NEW l \in Lists, \A i \in Ids : db.text[i] # None <=> HasId(l, i)
  PROVE  Stored = [n \in 1..Len(l) |-> [id |-> l[n].id, text |-> db.text[l[n].id]]]
<1>1. PICK k \in Nat : k = Len(l)
  BY ListFact
<1>2. {j \in Ids : db.text[j] # None} = {l[n].id : n \in 1..k}
  BY <1>1, ListFact DEF HasId
<1>3. Cardinality({j \in Ids : db.text[j] # None}) = k
  <2>1. k \in 0..Len(l)
    BY <1>1
  <2> QED
    BY <1>2, <2>1, PlacesCounted
<1>4. ASSUME NEW n \in 1..k PROVE Cardinality({j \in 1..l[n].id : db.text[j] # None}) = n
  <2>1. \A m \in 1..k : l[m].id <= l[n].id <=> m <= n
    <3>1. \A m \in 1..k : m < n \/ m = n \/ n < m
      OBVIOUS
    <3> QED
      BY <1>1, <3>1, ListFact
  <2>2. l[n].id \in Ids /\ 1..l[n].id \subseteq Ids
    BY <1>1, ListFact, PostPageAssumption DEF Ids
  <2>3. \A j \in 1..l[n].id : db.text[j] # None => \E m \in 1..n : j = l[m].id
    <3> SUFFICES ASSUME NEW j \in 1..l[n].id, db.text[j] # None PROVE \E m \in 1..n : j = l[m].id
      OBVIOUS
    <3>1. PICK m \in 1..k : j = l[m].id
      BY <1>1, <2>2 DEF HasId
    <3>2. m <= n
      BY <2>1, <3>1
    <3> QED
      BY <3>1, <3>2
  <2>4. \A m \in 1..n : l[m].id \in 1..l[n].id /\ db.text[l[m].id] # None
    <3> SUFFICES ASSUME NEW m \in 1..n PROVE l[m].id \in 1..l[n].id /\ db.text[l[m].id] # None
      OBVIOUS
    <3>1. m \in 1..k /\ l[m].id \in Ids
      BY <1>1, ListFact
    <3>2. l[m].id <= l[n].id
      BY <2>1, <3>1
    <3> QED
      BY <1>1, <2>2, <3>1, <3>2 DEF HasId, Ids
  <2>5. {j \in 1..l[n].id : db.text[j] # None} = {l[m].id : m \in 1..n}
    BY <2>3, <2>4
  <2>6. n \in 0..Len(l)
    BY <1>1
  <2> QED
    BY <2>5, <2>6, PlacesCounted
<1>5. ASSUME NEW n \in 1..k
      PROVE  (CHOOSE j \in Ids : /\ db.text[j] # None
                                 /\ Cardinality({m \in 1..j : db.text[m] # None}) = n) = l[n].id
  <2> DEFINE Place(j) == db.text[j] # None /\ Cardinality({m \in 1..j : db.text[m] # None}) = n
  <2>1. l[n].id \in Ids /\ Place(l[n].id)
    BY <1>1, <1>4, ListFact DEF HasId
  <2>2. ASSUME NEW j \in Ids, Place(j) PROVE j = l[n].id
    <3>1. PICK m \in 1..k : j = l[m].id
      BY <1>1, <2>2 DEF HasId
    <3>2. m = n
      BY <1>4, <2>2, <3>1
    <3> QED
      BY <3>1, <3>2
  <2> HIDE DEF Place
  <2>3. (CHOOSE j \in Ids : Place(j)) = l[n].id
    BY <2>1, <2>2
  <2> QED
    BY <2>3 DEF Place
<1>6. Stored = [n \in 1..k |-> [id |-> l[n].id, text |-> db.text[l[n].id]]]
  BY <1>3, <1>5, Zenon DEF Stored
<1> QED
  BY <1>1, <1>6

-----------------------------------------------------------------------------
(* The section and its page. *)

Pages == [data : {None, "post", "missing"}, loading : BOOLEAN, error : BOOLEAN,
          calls : SUBSET {Call(None)}]
Boxes == [list : Lists, submitting : BOOLEAN, editing : Ids \cup {None},
          draft : Texts \cup {None}, updating : Ids \cup {None}, deleting : Ids \cup {None},
          removing : BOOLEAN]

\* Until the page is loaded, or while it shows an error, nothing has happened to its post.
Loading == /\ \/ page.calls = {Call(None)} /\ page.error = FALSE
              \/ page.calls = {} /\ page.error = TRUE
           /\ box = None /\ flights = {} /\ wrong = NothingWrong
           /\ \E t \in Texts : db = Fresh(t, FALSE)
PageInv == \/ page = None /\ box = None
           \/ /\ page \in Pages
              /\ Loading \/ (page.calls = {} /\ page.error = FALSE)

\* While a comment is created no other can be; what an open editor holds is a text.
Sound == /\ box \in Boxes /\ (box.editing # None => box.draft \in Texts)
         /\ (\E f \in flights : f.op = "create") => box.submitting
         /\ db \in Tables
         /\ Agrees(ToSet(box.list), db.text, db.next, flights, wrong.crossed)

CommentInv == PageInv /\ (box # None => wrong \in Wrongs /\ (wrong.lost \/ Sound))

LEMMA SoundFact ==
  ASSUME Sound
  PROVE  /\ box.list \in Lists /\ box.draft \in Texts \cup {None} /\ box.editing \in Ids \cup {None}
         /\ ToSet(box.list) \subseteq Comments
         /\ db.text \in [Ids -> Texts \cup {None}] /\ db.next \in Nat
         /\ flights \subseteq Calls /\ \A f \in flights : Proper(f)
BY Shown DEF Sound, Boxes, Tables, Agrees, Typed

LEMMA ListedIsShown ==
  ASSUME Sound, NEW i
  PROVE  /\ Listed(i) <=> \E c \in ToSet(box.list) : c.id = i
         /\ Listed(i) => i \in Ids /\ i # None /\ TextOf(i) \in Texts
<1>1. PICK l \in Lists : l = box.list
  BY SoundFact
<1>2. \A n \in 1..Len(l) : l[n] \in Comments
  BY ListFact
<1>3. Listed(i) <=> \E n \in 1..Len(l) : l[n].id = i
  BY <1>1 DEF Listed, HasId
<1>4. ASSUME Listed(i) PROVE i \in Ids /\ i # None /\ TextOf(i) \in Texts
  <2>1. PICK n \in 1..Len(l) : n = PlaceOf(l, i) /\ l[n].id = i
    BY <1>3, <1>4 DEF PlaceOf
  <2> QED
    BY <1>1, <1>2, <2>1, PostPageAssumption DEF TextOf, Comments, Ids
<1> QED
  BY <1>1, <1>3, <1>4, Shown

LEMMA WrongKept ==
  ASSUME wrong \in Wrongs, PostNext, \A f \in flights : ~Removed(f)
  PROVE  wrong' \in Wrongs /\ (wrong.lost => wrong'.lost)
<1>1. wrong' = wrong => wrong' \in Wrongs /\ (wrong.lost => wrong'.lost)
  OBVIOUS
<1>2. ASSUME NEW i \in Ids, SaveEdit(i) PROVE wrong' \in Wrongs /\ (wrong.lost => wrong'.lost)
  <2>1. PICK to \in SUBSET Ids : wrong' = [wrong EXCEPT !.crossed = to]
    BY <1>2, Zenon DEF SaveEdit, Wrongs
  <2> QED
    BY <2>1 DEF Wrongs
<1>3. ASSUME NEW f \in flights, Serve(f) PROVE wrong' \in Wrongs /\ (wrong.lost => wrong'.lost)
  <2>1. PICK to \in BOOLEAN : wrong' = [wrong EXCEPT !.elsewhere = to]
    BY <1>3, Zenon DEF Serve
  <2> QED
    BY <2>1 DEF Wrongs
<1>4. ASSUME NEW f \in flights, Lost(f) PROVE wrong' \in Wrongs /\ (wrong.lost => wrong'.lost)
  <2>1. wrong' = [wrong EXCEPT !.lost = TRUE]
    BY <1>4 DEF Lost
  <2> QED
    BY <2>1 DEF Wrongs
<1>5. CASE ToggleElsewhere
  <2>1. wrong' = [wrong EXCEPT !.elsewhere = TRUE]
    BY <1>5 DEF ToggleElsewhere
  <2> QED
    BY <2>1 DEF Wrongs
<1>6. ASSUME NEW f \in flights, OwnAnswered(f) \/ Refused(f) PROVE wrong' = wrong
  BY <1>6 DEF OwnAnswered, Refused
<1>7. ASSUME NEW t \in Texts, Submit(t) \/ Typing(t) PROVE wrong' = wrong
  BY <1>7 DEF Submit, Typing
<1>8. ASSUME NEW i \in Ids, StartEdit(i) \/ Delete(i) PROVE wrong' = wrong
  BY <1>8 DEF StartEdit, Delete
<1>9. ASSUME NEW c, PageAnswered(c) PROVE wrong' = wrong
  BY <1>9 DEF PageAnswered
<1>10. CancelEdit \/ Toggle \/ DeletePost \/ PageRetry => wrong' = wrong
  BY DEF CancelEdit, Toggle, DeletePost, PageRetry
<1> QED
  BY <1>1, <1>2, <1>3, <1>4, <1>5, <1>6, <1>7, <1>8, <1>9, <1>10 DEF PostNext

\* What the user does.
LEMMA Editing ==
  ASSUME Sound, \/ \E i \in Ids : StartEdit(i)
                \/ \E t \in Texts : Typing(t)
                \/ CancelEdit
  PROVE  Sound'
<1>1. PICK e \in Ids \cup {None}, d \in Texts \cup {None} :
        box' = [box EXCEPT !.editing = e, !.draft = d] /\ (e # None => d \in Texts)
  <2>1. CASE \E i \in Ids : StartEdit(i)
    BY <2>1, ListedIsShown DEF StartEdit
  <2>2. CASE \E t \in Texts : Typing(t)
    <3> PICK t \in Texts : Typing(t)
      BY <2>2
    <3>1. box' = [box EXCEPT !.editing = box.editing, !.draft = t]
      BY DEF Typing, Sound, Boxes
    <3> QED
      BY <3>1, SoundFact
  <2>3. CASE CancelEdit
    BY <2>3 DEF CancelEdit
  <2> QED
    BY <2>1, <2>2, <2>3
<1>2. box' \in Boxes
  BY <1>1, Zenon DEF Sound, Boxes
<1>3. box'.list = box.list /\ box'.editing = e /\ box'.draft = d /\ box'.submitting = box.submitting
  BY <1>1 DEF Sound, Boxes
<1>4. db' = db /\ flights' = flights /\ wrong' = wrong
  BY DEF StartEdit, Typing, CancelEdit
<1> QED
  BY <1>1, <1>2, <1>3, <1>4 DEF Sound

LEMMA Submitted == ASSUME Sound, NEW t \in Texts, Submit(t) PROVE Sound'
<1>1. PICK f : f = Flight("create", None, t)
  OBVIOUS
<1>2. f \in Calls /\ Proper(f) /\ f.op = "create" /\ f.state = "sent" /\ ~IsEdit(f)
  BY <1>1 DEF Flight, Calls, Proper, IsEdit
<1>3. box' = [box EXCEPT !.submitting = TRUE] /\ ~box.submitting
  BY DEF Submit
<1>4. flights' = flights \cup {f} /\ db' = db /\ wrong' = wrong
  BY <1>1 DEF Submit, Send
<1>5. box' \in Boxes
  BY <1>3, Zenon DEF Sound, Boxes
<1>6. /\ box'.list = box.list /\ box'.editing = box.editing /\ box'.draft = box.draft
      /\ box'.submitting = TRUE
  BY <1>3 DEF Sound, Boxes
<1>7. Agrees(ToSet(box.list), db.text, db.next, flights \cup {f}, wrong.crossed)
  BY <1>2, <1>3, CallSent DEF Sound
<1> QED
  BY <1>4, <1>5, <1>6, <1>7 DEF Sound

LEMMA EditSent == ASSUME Sound, wrong \in Wrongs, NEW i \in Ids, SaveEdit(i) PROVE Sound'
<1>1. PICK f : f = Flight("save", i, box.draft)
  OBVIOUS
<1>2. box.editing = i /\ Listed(i) /\ i # None /\ box.draft \in Texts
  BY ListedIsShown DEF SaveEdit, Sound
<1>3. f \in Calls /\ Proper(f) /\ f.op = "save" /\ f.id = i /\ f.state = "sent" /\ IsEdit(f)
  BY <1>1, <1>2 DEF Flight, Calls, Proper, IsEdit
<1>4. box' = [box EXCEPT !.updating = i]
  BY DEF SaveEdit
<1>5. flights' = flights \cup {f} /\ db' = db
  BY <1>1 DEF SaveEdit, Send
<1>6. PICK to : to = IF \E g \in flights : g.op = "save" /\ g.id = i
                     THEN wrong.crossed \cup {i} ELSE wrong.crossed
  OBVIOUS
<1>7. wrong' = [wrong EXCEPT !.crossed = to]
  BY <1>6, Zenon DEF SaveEdit
<1>8. wrong'.crossed = to
  BY <1>7 DEF Wrongs
<1>9. box' \in Boxes
  BY <1>4, Zenon DEF Sound, Boxes
<1>10. /\ box'.list = box.list /\ box'.editing = box.editing /\ box'.draft = box.draft
       /\ box'.submitting = box.submitting
  BY <1>4 DEF Sound, Boxes
<1>11. /\ wrong.crossed \subseteq to
       /\ \A g \in flights : g.op = "save" /\ g.id = f.id => f.id \in to
  BY <1>3, <1>6
<1>12. \E c \in ToSet(box.list) : c.id = f.id
  BY <1>2, <1>3, ListedIsShown
<1>13. Agrees(ToSet(box.list), db.text, db.next, flights \cup {f}, to)
  BY <1>3, <1>11, <1>12, CallSent DEF Sound
<1> QED
  BY <1>3, <1>5, <1>8, <1>9, <1>10, <1>13 DEF Sound

LEMMA DeleteSent == ASSUME Sound, NEW i \in Ids, Delete(i) PROVE Sound'
<1>1. PICK f : f = Flight("delete", i, None)
  OBVIOUS
<1>2. f \in Calls /\ Proper(f) /\ f.op = "delete" /\ f.id = i /\ f.state = "sent"
  BY <1>1 DEF Flight, Calls, Proper, IsEdit
<1>3. box' = [box EXCEPT !.deleting = i]
  BY DEF Delete
<1>4. flights' = flights \cup {f} /\ db' = db /\ wrong' = wrong
  BY <1>1 DEF Delete, Send
<1>5. box' \in Boxes
  BY <1>3, Zenon DEF Sound, Boxes
<1>6. /\ box'.list = box.list /\ box'.editing = box.editing /\ box'.draft = box.draft
      /\ box'.submitting = box.submitting
  BY <1>3 DEF Sound, Boxes
<1>7. \E c \in ToSet(box.list) : c.id = f.id
  BY <1>2, ListedIsShown DEF Delete
<1>8. Agrees(ToSet(box.list), db.text, db.next, flights \cup {f}, wrong.crossed)
  BY <1>2, <1>7, CallSent DEF Sound
<1> QED
  BY <1>2, <1>4, <1>5, <1>6, <1>8 DEF Sound

LEMMA RemovalSent == ASSUME Sound, DeletePost PROVE Sound'
<1>1. PICK f : f = Flight("remove", None, None)
  OBVIOUS
<1>2. f \in Calls /\ Proper(f) /\ f.op = "remove" /\ f.state = "sent" /\ ~IsEdit(f)
  BY <1>1 DEF Flight, Calls, Proper, IsEdit
<1>3. box' = [box EXCEPT !.removing = TRUE]
  BY DEF DeletePost
<1>4. flights' = flights \cup {f} /\ db' = db /\ wrong' = wrong
  BY <1>1 DEF DeletePost, Send
<1>5. box' \in Boxes
  BY <1>3, Zenon DEF Sound, Boxes
<1>6. /\ box'.list = box.list /\ box'.editing = box.editing /\ box'.draft = box.draft
      /\ box'.submitting = box.submitting
  BY <1>3 DEF Sound, Boxes
<1>7. Agrees(ToSet(box.list), db.text, db.next, flights \cup {f}, wrong.crossed)
  BY <1>2, CallSent DEF Sound
<1> QED
  BY <1>2, <1>4, <1>5, <1>6, <1>7 DEF Sound

\* What the API does with a call.
LEMMA ServedSound ==
  ASSUME Sound, wrong \in Wrongs, NEW f \in flights, Serve(f)
  PROVE  Sound'
<1>1. /\ f \in Calls /\ Proper(f) /\ f.state = "sent"
      /\ db \in Tables /\ db.text \in [Ids -> Texts \cup {None}]
  BY SoundFact DEF Serve, Sound
<1>2. PICK g : g = Reply(f)
  OBVIOUS
<1>3. flights' = (flights \ {f}) \cup {g} /\ box' = box /\ CanServe(f) /\ db' = Effect(f)
  BY <1>2 DEF Serve
<1>4. wrong'.crossed = wrong.crossed
  BY DEF Serve, Wrongs
<1>5. ASSUME db' \in Tables, g.op = f.op,
             Agrees(ToSet(box.list), db'.text, db'.next, (flights \ {f}) \cup {g}, wrong.crossed)
      PROVE  Sound'
  BY <1>3, <1>4, <1>5 DEF Sound
<1>6. CASE f.op = "create"
  <2>1. db.next \in Ids
    BY <1>3, <1>6, SoundFact, PostPageAssumption DEF CanServe, Sound, Agrees, Numbered, Ids
  <2>2. g = [f EXCEPT !.state = "done", !.id = db.next]
    BY <1>2, <1>6 DEF Reply
  <2>3. g \in Calls
    BY <1>1, <2>1, <2>2, Zenon DEF Calls
  <2>4. g.op = "create" /\ g.state = "done" /\ g.id = db.next /\ g.text = f.text
    BY <1>1, <1>6, <2>2 DEF Calls
  <2>5. PICK text, next : text = [db.text EXCEPT ![db.next] = f.text] /\ next = db.next + 1
    OBVIOUS
  <2>6. db' = [db EXCEPT !.text = text, !.next = next]
    BY <1>3, <1>6, <2>5 DEF Effect
  <2>7. text \in [Ids -> Texts \cup {None}] /\ next \in Nat
    BY <1>1, <1>6, <2>1, <2>5, SoundFact DEF Proper
  <2>8. db' \in Tables /\ db'.text = text /\ db'.next = next
    BY <1>1, <2>6, <2>7 DEF Tables
  <2>9. Agrees(ToSet(box.list), text, next, (flights \ {f}) \cup {g}, wrong.crossed)
    BY <1>1, <1>6, <2>1, <2>3, <2>4, <2>5, CreateStored DEF Sound
  <2> QED
    BY <1>5, <1>6, <2>4, <2>8, <2>9
<1>7. CASE f.op = "save"
  <2>1. g = [f EXCEPT !.state = "done"] /\ db.text[f.id] # None
    BY <1>2, <1>3, <1>7 DEF Reply, CanServe
  <2>2. g \in Calls
    BY <1>1, <2>1, Zenon DEF Calls
  <2>3. g.op = "save" /\ g.state = "done" /\ g.id = f.id /\ g.text = f.text
    BY <1>1, <1>7, <2>1 DEF Calls
  <2>4. PICK text : text = [db.text EXCEPT ![f.id] = f.text]
    OBVIOUS
  <2>5. db' = [db EXCEPT !.text = text]
    BY <1>3, <1>7, <2>4 DEF Effect
  <2>6. text \in [Ids -> Texts \cup {None}]
    BY <1>1, <1>7, <2>4 DEF Proper
  <2>7. db' \in Tables /\ db'.text = text /\ db'.next = db.next
    BY <1>1, <2>5, <2>6 DEF Tables
  <2>8. Agrees(ToSet(box.list), text, db.next, (flights \ {f}) \cup {g}, wrong.crossed)
    BY <1>7, <2>1, <2>2, <2>3, <2>4, SaveStored DEF Sound
  <2> QED
    BY <1>5, <1>7, <2>3, <2>7, <2>8
<1>8. CASE f.op = "delete"
  <2>1. g = [f EXCEPT !.state = "done"] /\ db.text[f.id] # None
    BY <1>2, <1>3, <1>8 DEF Reply, CanServe
  <2>2. g \in Calls
    BY <1>1, <2>1, Zenon DEF Calls
  <2>3. g.op = "delete" /\ g.state = "done" /\ g.id = f.id /\ g.text = f.text
    BY <1>1, <1>8, <2>1 DEF Calls
  <2>4. PICK text : text = [db.text EXCEPT ![f.id] = None]
    OBVIOUS
  <2>5. db' = [db EXCEPT !.text = text]
    BY <1>3, <1>8, <2>4 DEF Effect
  <2>6. text \in [Ids -> Texts \cup {None}]
    BY <1>1, <1>8, <2>4 DEF Proper
  <2>7. db' \in Tables /\ db'.text = text /\ db'.next = db.next
    BY <1>1, <2>5, <2>6 DEF Tables
  <2>8. Agrees(ToSet(box.list), text, db.next, (flights \ {f}) \cup {g}, wrong.crossed)
    BY <1>8, <2>1, <2>2, <2>3, <2>4, DeleteStored DEF Sound
  <2> QED
    BY <1>5, <1>8, <2>3, <2>7, <2>8
<1>9. CASE f.op = "remove"
  <2>1. g = [f EXCEPT !.state = "done"] /\ db' = db
    BY <1>2, <1>3, <1>9 DEF Reply, Effect
  <2>2. g \in Calls /\ g.op = "remove"
    BY <1>1, <1>9, <2>1 DEF Calls
  <2>3. Agrees(ToSet(box.list), db.text, db.next, (flights \ {f}) \cup {g}, wrong.crossed)
    BY <1>9, <2>2, RemovalServed DEF Sound
  <2> QED
    BY <1>1, <1>5, <1>9, <2>1, <2>2, <2>3
<1> QED
  BY <1>1, <1>6, <1>7, <1>8, <1>9 DEF Calls

\* Answers, and calls given up.
LEMMA AnsweredSound ==
  ASSUME Sound, box # None, NEW f \in flights, OwnAnswered(f)
  PROVE  Sound'
<1>1. f \in Calls /\ Proper(f) /\ f.state = "done" /\ f.op \in {"create", "save", "delete"}
  BY SoundFact DEF OwnAnswered, Calls
<1>2. flights' = flights \ {f} /\ db' = db /\ wrong' = wrong /\ box' = Done(f)
  BY DEF OwnAnswered
<1>3. PICK l \in Lists : l = box.list
  BY SoundFact
<1>4. CASE f.op = "create"
  <2>1. PICK c : c = [id |-> f.id, text |-> f.text]
    OBVIOUS
  <2>2. c \in Comments /\ c.id = f.id /\ c.text = f.text
    BY <1>1, <1>4, <2>1 DEF Comments, Proper
  <2>3. \A d \in ToSet(l) : d.id < c.id
    BY <1>1, <1>3, <1>4, <2>2 DEF Sound, Agrees, Created
  <2>4. PICK to \in Lists : to = Append(l, c) /\ ToSet(to) = ToSet(l) \cup {c}
    BY <2>2, <2>3, Appended
  <2>5. Ended(f) = [box EXCEPT !.submitting = FALSE]
    BY <1>4 DEF Ended
  <2>6. box' = [box EXCEPT !.submitting = FALSE, !.list = to]
    BY <1>2, <1>3, <1>4, <2>1, <2>4, <2>5 DEF Done, Sound, Boxes
  <2>7. box' \in Boxes
    BY <2>6, Zenon DEF Sound, Boxes
  <2>8. box'.list = to /\ box'.editing = box.editing /\ box'.draft = box.draft
    BY <2>6 DEF Sound, Boxes
  <2>9. \A g \in flights : g.op = "create" => g = f
    BY <1>4 DEF Sound, Agrees, Created
  <2>10. Agrees(ToSet(to), db.text, db.next, flights \ {f}, wrong.crossed)
    BY <1>1, <1>3, <1>4, <2>2, <2>4, CreateShown DEF Sound
  <2> QED
    BY <1>2, <2>7, <2>8, <2>9, <2>10 DEF Sound
<1>5. CASE f.op = "save"
  <2>1. PICK to \in Lists :
          /\ to = Patched(l, f)
          /\ \A c \in ToSet(l) : \E d \in ToSet(to) : d.id = c.id
          /\ \A d \in ToSet(to) : \E c \in ToSet(l) :
               d.id = c.id /\ d.text = IF c.id = f.id THEN f.text ELSE c.text
    BY <1>1, <1>5, PatchedFits DEF Proper
  <2>2. Ended(f) = [box EXCEPT !.updating = None]
    BY <1>5 DEF Ended
  <2>3. box' = [box EXCEPT !.updating = None, !.editing = None, !.draft = None, !.list = to]
    BY <1>2, <1>3, <1>5, <2>1, <2>2 DEF Done, Sound, Boxes
  <2>4. box' \in Boxes
    BY <2>3, Zenon DEF Sound, Boxes
  <2>5. box'.list = to /\ box'.editing = None /\ box'.submitting = box.submitting
    BY <2>3 DEF Sound, Boxes
  <2>6. ToSet(to) \in SUBSET Comments
    BY Shown
  <2>7. Agrees(ToSet(to), db.text, db.next, flights \ {f}, wrong.crossed)
    BY <1>1, <1>3, <1>5, <2>1, <2>6, SaveShown DEF Sound
  <2> QED
    BY <1>2, <2>4, <2>5, <2>7 DEF Sound
<1>6. CASE f.op = "delete"
  <2>1. f.id \in Ids
    BY <1>1, <1>6 DEF Proper, IsEdit
  <2>2. PICK to \in Lists : to = Dropped(l, f.id) /\ ToSet(to) = {c \in ToSet(l) : c.id # f.id}
    BY <2>1, DroppedFits
  <2>3. Ended(f) = [box EXCEPT !.deleting = None]
    BY <1>6 DEF Ended
  <2>4. box' = [box EXCEPT !.deleting = None, !.list = to]
    BY <1>2, <1>3, <1>6, <2>2, <2>3 DEF Done, Sound, Boxes
  <2>5. box' \in Boxes
    BY <2>4, Zenon DEF Sound, Boxes
  <2>6. /\ box'.list = to /\ box'.editing = box.editing /\ box'.draft = box.draft
        /\ box'.submitting = box.submitting
    BY <2>4 DEF Sound, Boxes
  <2>7. Agrees(ToSet(to), db.text, db.next, flights \ {f}, wrong.crossed)
    BY <1>1, <1>3, <1>6, <2>2, DeleteShown DEF Sound
  <2> QED
    BY <1>2, <2>5, <2>6, <2>7 DEF Sound
<1> QED
  BY <1>1, <1>4, <1>5, <1>6

LEMMA RefusedSound ==
  ASSUME Sound, box # None, NEW f \in flights, Refused(f)
  PROVE  Sound'
<1>1. f \in Calls /\ f.state = "sent"
  BY SoundFact DEF Refused
<1>2. flights' = flights \ {f} /\ db' = db /\ wrong' = wrong /\ box' = Ended(f)
  BY DEF Refused, GivenUp
<1>3. box \in Boxes
  BY DEF Sound
<1>4. box' \in Boxes
  <2>1. CASE f.op = "create"
    <3>1. box' = [box EXCEPT !.submitting = FALSE]
      BY <1>2, <2>1 DEF Ended
    <3> QED
      BY <1>3, <3>1, Zenon DEF Boxes
  <2>2. CASE f.op = "save"
    <3>1. box' = [box EXCEPT !.updating = None]
      BY <1>2, <2>2 DEF Ended
    <3> QED
      BY <1>3, <3>1, Zenon DEF Boxes
  <2>3. CASE f.op = "delete"
    <3>1. box' = [box EXCEPT !.deleting = None]
      BY <1>2, <2>3 DEF Ended
    <3> QED
      BY <1>3, <3>1, Zenon DEF Boxes
  <2>4. CASE f.op = "remove"
    <3>1. box' = [box EXCEPT !.removing = FALSE]
      BY <1>2, <2>4 DEF Ended
    <3> QED
      BY <1>3, <3>1, Zenon DEF Boxes
  <2> QED
    BY <1>1, <2>1, <2>2, <2>3, <2>4 DEF Calls
<1>5. /\ box'.list = box.list /\ box'.editing = box.editing /\ box'.draft = box.draft
      /\ f.op # "create" => box'.submitting = box.submitting
  BY <1>1, <1>2, <1>3 DEF Ended, Boxes, Calls
<1>6. \A g \in flights : g.op = "create" /\ f.op = "create" => g = f
  BY DEF Sound, Agrees, Created
<1>7. Agrees(ToSet(box.list), db.text, db.next, flights \ {f}, wrong.crossed)
  BY <1>1, CallRefused DEF Sound
<1> QED
  BY <1>2, <1>4, <1>5, <1>6, <1>7 DEF Sound

\* A page just loaded shows what is stored.
LEMMA LoadedSound ==
  ASSUME PageInv, NEW c \in page.calls, page # None, PageAnswered(c)
  PROVE  CommentInv'
<1>1. page \in Pages /\ Loading /\ page.calls = {Call(None)} /\ page.error = FALSE
  BY DEF PageInv, Loading
<1>2. PICK t \in Texts : db = Fresh(t, FALSE)
  BY <1>1 DEF Loading
<1>3. db' = db /\ flights' = {} /\ wrong' = NothingWrong
  BY <1>1 DEF PageAnswered, Loading
<1>4. PICK data \in {None, "post", "missing"}, error \in BOOLEAN :
        /\ page' = [page EXCEPT !.calls = {}, !.data = data, !.error = error, !.loading = FALSE]
        /\ error => box' = box
  <2>1. c = Call(None) /\ c.live = TRUE
    BY <1>1 DEF Call
  <2>2. page.data \in {None, "post", "missing"}
    BY <1>1 DEF Pages
  <2>3. Taken(page, c) = [page EXCEPT !.calls = {}]
    BY <1>1, <2>1 DEF Taken
  <2>4. \A d : Answered(page, c, d) =
                 [page EXCEPT !.calls = {}, !.data = d, !.error = FALSE, !.loading = FALSE]
    BY <1>1, <2>1, <2>3 DEF Answered, Heard, Pages
  <2>5. Failed(page, c) =
          [page EXCEPT !.calls = {}, !.data = page.data, !.error = TRUE, !.loading = FALSE]
    BY <1>1, <2>1, <2>3 DEF Failed, Heard, Pages
  <2>6. CASE page' = Failed(page, c) /\ box' = box
    BY <2>2, <2>5, <2>6
  <2>7. ASSUME NEW d \in {"post", "missing"}, page' = Answered(page, c, d)
        PROVE  page' = [page EXCEPT !.calls = {}, !.data = d, !.error = FALSE, !.loading = FALSE]
    BY <2>4, <2>7
  <2>8. \/ page' = Failed(page, c) /\ box' = box
        \/ page' = Answered(page, c, "post") \/ page' = Answered(page, c, "missing")
    BY DEF PageAnswered
  <2> QED
    BY <2>6, <2>7, <2>8
<1>5. page' \in Pages
  BY <1>1, <1>4, Zenon DEF Pages
<1>6. page'.calls = {} /\ page'.error = error
  BY <1>1, <1>4 DEF Pages
<1>7. PageInv'
  BY <1>1, <1>2, <1>3, <1>4, <1>5, <1>6 DEF PageInv, Loading
<1>8. ASSUME box' # None PROVE wrong' \in Wrongs /\ Sound'
  <2>1. box' = [list |-> Stored, submitting |-> FALSE, editing |-> None, draft |-> None,
                updating |-> None, deleting |-> None, removing |-> FALSE]
    BY <1>1, <1>8 DEF PageAnswered, Loading
  <2>2. PICK text : text = [i \in Ids |-> IF i = 1 THEN t ELSE None]
    OBVIOUS
  <2>3. db = [text |-> text, next |-> 2, marked |-> FALSE]
    BY <1>2, <2>2 DEF Fresh
  <2>4. 1 \in Ids /\ t # None
    BY PostPageAssumption DEF Ids
  <2>5. text \in [Ids -> Texts \cup {None}] /\ \A i \in Ids : text[i] = IF i = 1 THEN t ELSE None
    BY <2>2
  <2>6. db \in Tables /\ db.text = text /\ db.next = 2
    BY <2>3, <2>5 DEF Tables
  <2>7. PICK one : one = [id |-> 1, text |-> t]
    OBVIOUS
  <2>8. one \in Comments /\ one.id = 1 /\ one.text = t
    BY <2>4, <2>7 DEF Comments
  <2>9. PICK l : l = <<one>>
    OBVIOUS
  <2>10. l \in Seq(Comments) /\ Len(l) = 1 /\ l[1] = one
    BY <2>8, <2>9
  <2>11. l \in Lists /\ ToSet(l) = {one}
    <3>1. \A m, n \in 1..1 : n = 1 /\ ~(m < n)
      OBVIOUS
    <3>2. l \in Lists
      BY <2>10, <3>1 DEF Lists
    <3> QED
      BY <2>10, <3>1, <3>2, Shown
  <2>12. \A i \in Ids : db.text[i] # None <=> HasId(l, i)
    BY <2>4, <2>5, <2>6, <2>8, <2>10 DEF HasId
  <2>13. Stored = [n \in 1..Len(l) |-> [id |-> l[n].id, text |-> db.text[l[n].id]]]
    BY <2>11, <2>12, StoredIs
  <2>14. Stored = l
    <3>1. \A n \in 1..1 : [id |-> l[n].id, text |-> db.text[l[n].id]] = one
      BY <2>4, <2>5, <2>6, <2>7, <2>8, <2>10
    <3>2. l = [n \in 1..1 |-> one]
      BY <2>9
    <3> QED
      BY <2>10, <2>13, <3>1, <3>2
  <2>15. Agrees({one}, text, 2, {}, {})
    BY <2>4, <2>5, <2>8 DEF Agrees, Typed, Numbered, Created, Deleted, Saved, Stale, Missing, Ids
  <2>16. box' \in Boxes /\ box'.list = l /\ box'.editing = None /\ box'.submitting = FALSE
    BY <2>1, <2>11, <2>14 DEF Boxes
  <2>17. wrong' \in Wrongs /\ wrong'.crossed = {}
    BY <1>3 DEF NothingWrong, Wrongs
  <2> QED
    BY <1>3, <2>6, <2>11, <2>15, <2>16, <2>17 DEF Sound
<1> QED
  BY <1>7, <1>8 DEF CommentInv

\* Only the fetch changes the page, and nothing else happens until it was answered.
LEMMA PageInvStays ==
  ASSUME HeartInv, PageInv, PostNext, ~(page # None /\ \E c \in page.calls : PageAnswered(c))
  PROVE  PageInv'
<1>1. heart # None => page = None /\ box = None
  BY DEF HeartInv, NoHeart, OneToggle
<1>2. CASE PageRetry
  <2>1. page \in Pages /\ Loading /\ page.calls = {} /\ page' = Refetched(Waiting(page), None)
    BY <1>2 DEF PageRetry, PageInv, Loading
  <2>2. PICK w : w = Waiting(page)
    OBVIOUS
  <2>3. w \in Pages /\ w.calls = {} /\ w.error = FALSE
    BY <2>1, <2>2 DEF Waiting, Pages
  <2>4. Cancelled(w) \cup {Call(None)} = {Call(None)}
    BY <2>3 DEF Cancelled
  <2>5. page' = [w EXCEPT !.calls = {Call(None)}]
    BY <2>1, <2>2, <2>4 DEF Refetched
  <2>6. page' \in Pages
    BY <2>3, <2>5, Zenon DEF Pages
  <2>7. page'.calls = {Call(None)} /\ page'.error = FALSE
    BY <2>3, <2>5 DEF Pages
  <2> QED
    BY <1>2, <2>1, <2>6, <2>7 DEF PageRetry, PageInv, Loading
<1>3. ASSUME NEW f \in flights, Removed(f) PROVE PageInv'
  BY <1>3 DEF Removed, PostUnmount, PageInv
<1>4. ASSUME NEW f \in flights, Serve(f) \/ OwnAnswered(f) \/ Refused(f) \/ Lost(f) PROVE PageInv'
  <2>1. page' = page /\ (box = None => box' = None) /\ ~Loading
    BY <1>4 DEF Serve, OwnAnswered, Refused, Lost, GivenUp, Loading
  <2> QED
    BY <2>1 DEF PageInv
<1>5. CASE Toggle \/ ToggleElsewhere
  BY <1>1, <1>5 DEF Toggle, ToggleElsewhere, PageInv
<1>6. ASSUME page' = page, box # None PROVE PageInv'
  BY <1>6 DEF PageInv, Loading
<1>7. ASSUME NEW t \in Texts, Submit(t) \/ Typing(t) PROVE PageInv'
  BY <1>6, <1>7 DEF Submit, Typing
<1>8. ASSUME NEW i \in Ids, StartEdit(i) \/ SaveEdit(i) \/ Delete(i) PROVE PageInv'
  BY <1>6, <1>8 DEF StartEdit, SaveEdit, Delete
<1>9. CASE CancelEdit \/ DeletePost
  BY <1>6, <1>9 DEF CancelEdit, DeletePost
<1> QED
  BY <1>2, <1>3, <1>4, <1>5, <1>7, <1>8, <1>9 DEF PostNext

LEMMA CommentInvStays ==
  ASSUME HeartInv, CommentInv, PostNext
  PROVE  CommentInv'
<1>1. CASE page # None /\ \E c \in page.calls : PageAnswered(c)
  BY <1>1, LoadedSound DEF CommentInv
<1>2. CASE ~(page # None /\ \E c \in page.calls : PageAnswered(c))
  <2>1. PageInv'
    BY <1>2, PageInvStays DEF CommentInv
  <2>2. ASSUME NEW f \in flights, Removed(f) PROVE CommentInv'
    BY <2>1, <2>2 DEF Removed, PostUnmount, CommentInv
  <2>3. CASE box = None
    <3>1. ASSUME NEW f \in flights, Serve(f) \/ OwnAnswered(f) \/ Refused(f) \/ Lost(f)
          PROVE  box' = None
      BY <2>3, <3>1 DEF Serve, OwnAnswered, Refused, Lost, GivenUp
    <3>2. PageRetry \/ Toggle \/ ToggleElsewhere => box' = None
      BY <2>3 DEF PageRetry, Toggle, ToggleElsewhere
    <3>3. \A t \in Texts : ~Submit(t) /\ ~Typing(t)
      BY <2>3 DEF Submit, Typing
    <3>4. \A i \in Ids : ~StartEdit(i) /\ ~SaveEdit(i) /\ ~Delete(i)
      BY <2>3 DEF StartEdit, SaveEdit, Delete
    <3>5. ~CancelEdit /\ ~DeletePost
      BY <2>3 DEF CancelEdit, DeletePost
    <3>6. \/ box' = None \/ \E f \in flights : Removed(f)
      BY <1>2, <3>1, <3>2, <3>3, <3>4, <3>5 DEF PostNext
    <3> QED
      BY <2>1, <2>2, <3>6 DEF CommentInv
  <2>4. ASSUME box # None, \A f \in flights : ~Removed(f) PROVE CommentInv'
    <3>1. wrong' \in Wrongs /\ (wrong.lost => wrong'.lost)
      BY <2>4, WrongKept DEF CommentInv
    <3>2. CASE wrong.lost
      BY <2>1, <3>1, <3>2 DEF CommentInv
    <3>3. CASE Sound
      <4>1. heart = None
        BY <2>4 DEF HeartInv, NoHeart, OneToggle
      <4>2. ~PageRetry
        BY <2>4 DEF PageRetry, CommentInv, PageInv, Loading
      <4>3. ~Toggle /\ ~ToggleElsewhere
        BY <4>1 DEF Toggle, ToggleElsewhere
      <4>4. ASSUME NEW f \in flights, Lost(f) PROVE wrong'.lost
        <5>1. wrong' = [wrong EXCEPT !.lost = TRUE]
          BY <4>4 DEF Lost
        <5> QED
          BY <2>4, <5>1 DEF CommentInv, Wrongs
      <4>5. ASSUME NEW f \in flights, Serve(f) \/ OwnAnswered(f) \/ Refused(f) PROVE Sound'
        BY <2>4, <3>3, <4>5, ServedSound, AnsweredSound, RefusedSound DEF CommentInv
      <4>6. ASSUME NEW t \in Texts, Submit(t) PROVE Sound'
        BY <3>3, <4>6, Submitted
      <4>7. ASSUME NEW i \in Ids, SaveEdit(i) \/ Delete(i) PROVE Sound'
        BY <2>4, <3>3, <4>7, EditSent, DeleteSent DEF CommentInv
      <4>8. (\E i \in Ids : StartEdit(i)) \/ (\E t \in Texts : Typing(t)) \/ CancelEdit => Sound'
        BY <3>3, Editing
      <4>9. DeletePost => Sound'
        BY <3>3, RemovalSent
      <4>10. wrong'.lost \/ Sound'
        BY <1>2, <2>4, <4>2, <4>3, <4>4, <4>5, <4>6, <4>7, <4>8, <4>9 DEF PostNext
      <4> QED
        BY <2>1, <3>1, <4>10 DEF CommentInv
    <3> QED
      BY <2>4, <3>2, <3>3 DEF CommentInv
  <2> QED
    BY <2>2, <2>3, <2>4
<1> QED
  BY <1>1, <1>2

LEMMA PageOpened == ASSUME PageMount PROVE CommentInv'
<1>1. /\ page' = [data |-> None, loading |-> TRUE, error |-> FALSE, calls |-> {Call(None)}]
      /\ box' = None /\ flights' = {} /\ wrong' = NothingWrong
      /\ \E t \in Texts : db' = Fresh(t, FALSE)
  BY DEF PageMount, Mounted
<1>2. page' \in Pages /\ page'.calls = {Call(None)} /\ page'.error = FALSE
  BY <1>1 DEF Pages
<1> QED
  BY <1>1, <1>2 DEF CommentInv, PageInv, Loading

LEMMA CommentInvariance == Spec => []CommentInv
<1>1. Init => CommentInv
  BY DEF Init, PostUnmounted, CommentInv, PageInv
<1>2. HeartInv /\ CommentInv /\ [Next]_writingVars => CommentInv'
  <2> SUFFICES ASSUME HeartInv, CommentInv, [Next]_writingVars PROVE CommentInv'
    OBVIOUS
  <2>1. CASE UNCHANGED postVars
    BY <2>1 DEF postVars, CommentInv, PageInv, Loading, Sound
  <2>2. CASE HeartMount
    BY <2>2 DEF HeartMount, CommentInv, PageInv
  <2>3. CASE PageMount
    BY <2>3, PageOpened
  <2>4. CASE PostUnmount
    BY <2>4 DEF PostUnmount, CommentInv, PageInv
  <2>5. CASE PostNext
    BY <2>5, CommentInvStays
  <2> QED
    BY <2>1, <2>2, <2>3, <2>4, <2>5
       DEF Next, OpenPost, OpenForm, OpenDates, Leave, writingVars, postVars
<1> QED
  BY <1>1, <1>2, HeartInvariance, PTL DEF Spec

\* With no call of its own on the way, and no answer lost, the section lists just the comments
\* that are stored, in their order, whatever the order the answers came in (CommentsAreStored).
THEOREM ListsAreStored == Spec => []CommentsAreStored
<1>1. HeartInv /\ CommentInv => CommentsAreStored
  <2> SUFFICES ASSUME HeartInv, CommentInv, box # None, ~wrong.lost,
                      {f \in flights : f.op # "toggle"} = {}
               PROVE  /\ Len(box.list) = Len(Stored)
                      /\ \A n \in 1..Len(Stored) : \/ box.list[n] = Stored[n]
                                                   \/ /\ Stored[n].id \in wrong.crossed
                                                      /\ box.list[n].id = Stored[n].id
    BY DEF CommentsAreStored
  <2>1. Sound /\ flights = {}
    BY DEF CommentInv, HeartInv, NoHeart, OneToggle
  <2>2. PICK l \in Lists : l = box.list
    BY <2>1, SoundFact
  <2>3. \A i \in Ids : db.text[i] # None <=> HasId(l, i)
    BY <2>1, <2>2, ListedIsShown DEF Sound, Agrees, Stale, Missing, Listed
  <2>4. Stored = [n \in 1..Len(l) |-> [id |-> l[n].id, text |-> db.text[l[n].id]]]
    BY <2>3, StoredIs
  <2>5. ASSUME NEW n \in 1..Len(l)
        PROVE  /\ Stored[n] \in Comments /\ Stored[n].id = l[n].id
               /\ l[n] = Stored[n] \/ l[n].id \in wrong.crossed
    <3>1. l[n] \in Comments /\ l[n] \in ToSet(l) /\ l[n].id \in Ids
      BY ListFact, Shown
    <3>2. HasId(l, l[n].id)
      BY DEF HasId
    <3>3. db.text[l[n].id] \in Texts
      BY <2>1, <2>3, <3>1, <3>2, SoundFact
    <3>4. l[n].text = db.text[l[n].id] \/ l[n].id \in wrong.crossed
      BY <2>1, <2>2, <2>3, <3>1, <3>2 DEF Sound, Agrees, Stale
    <3>5. Stored[n] = [id |-> l[n].id, text |-> db.text[l[n].id]]
      BY <2>4
    <3>6. l[n] = [id |-> l[n].id, text |-> l[n].text]
      BY <3>1 DEF Comments
    <3> QED
      BY <3>1, <3>3, <3>4, <3>5, <3>6 DEF Comments
  <2>6. Len(Stored) = Len(l)
    <3>1. Len(l) \in Nat
      BY ListFact
    <3>2. Stored \in [1..Len(l) -> Comments]
      BY <2>4, <2>5
    <3>3. Stored \in Seq(Comments) /\ DOMAIN Stored = 1..Len(l)
      BY <3>1, <3>2, SeqDef
    <3> QED
      BY <3>1, <3>3, LenProperties
  <2> QED
    BY <2>2, <2>5, <2>6
<1> QED
  BY <1>1, HeartInvariance, CommentInvariance, PTL
=============================================================================

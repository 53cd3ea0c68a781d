--------------------------- MODULE MCReadingPages ---------------------------
(* Small instances of the pages that read. *)
EXTENDS ReadingPages, TLC

\* Four posts: with and without the filter, the day and the tag, one of them ended.
P(f, s, d, g, e) == [filters |-> f, status |-> s, days |-> d, tags |-> g, ends |-> e]
MCTable == << P({"f1"}, "ONGOING", {"d1"}, {"g1"}, 4), P({"f1"}, "ENDED", {}, {"g1"}, 1),
              P({}, "ONGOING", {"d1"}, {"g1"}, 3), P({"f1"}, "ONGOING", {"d1"}, {}, 2) >>

\* Posts of one cluster and of another area, of two categories; a short table and a full one.
Q(id, a, k, n) == [created |-> id, area |-> a, category |-> k, bookmarks |-> n]
q1 == Q(1, "SEONGSU", "FOOD", 3)
q2 == Q(2, "BUSAN", "ART", 1)
q3 == Q(3, "HONGDAE", "ART", 0)
MCHomePosts == {q1, q2, q3}
MCHomeTables == {<<q1>>, <<q3, q2, q1>>}
=============================================================================

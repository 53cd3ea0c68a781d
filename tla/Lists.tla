------------------------------- MODULE Lists -------------------------------
(***************************************************************************)
(* Lists made of other lists: the WHERE, ORDER BY and LIMIT of a query,    *)
(* and filter, sort and slice of the browser.  Both keep and order the     *)
(* elements by their positions, so that equal elements stay apart and a    *)
(* sort is stable, as Array.prototype.sort is.                             *)
(***************************************************************************)
EXTENDS Integers, Sequences, FiniteSets, FiniteSetsExt

\* The elements of s at the positions in the domain of `ahead', each after those at the
\* positions ahead of it.
Arranged(s, ahead) ==
  [i \in 1..Cardinality(DOMAIN ahead) |->
     s[CHOOSE p \in DOMAIN ahead : Cardinality(ahead[p]) = i - 1]]

Kept(s, K) == Arranged(s, [p \in K |-> {q \in K : q < p}])
Sorted(s, Above(_, _)) ==
  Arranged(s, [p \in DOMAIN s |->
                 {q \in DOMAIN s : \/ Above(s[q], s[p])
                                   \/ ~Above(s[p], s[q]) /\ q < p}])

Firsts(s, n) == SubSeq(s, 1, Min({n, Len(s)}))
=============================================================================

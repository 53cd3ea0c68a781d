----------------------------- MODULE MCContent -----------------------------
(* Content on small instances: requests are interchangeable, users too (their *)
(* roles are part of the state).                                              *)
EXTENDS Content, TLC

Symmetric == Permutations(Users) \cup Permutations(Reqs)
=============================================================================

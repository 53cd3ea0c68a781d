----------------------------- MODULE MCSession -----------------------------
(* Session on small instances. *)
EXTENDS Session, TLC

\* Tabs and users are interchangeable (for runs without liveness).
Symmetric == Permutations(Tabs) \cup Permutations(Users)
=============================================================================

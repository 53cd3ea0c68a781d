---------------------------- MODULE MCAuthCodes ----------------------------
(* Instances of AuthCodes for TLC. *)
EXTENDS AuthCodes, TLC

\* Codes, passwords and request slots are interchangeable.
Symmetric == Permutations(Codes) \cup Permutations(Passwords) \cup Permutations(Reqs)
=============================================================================

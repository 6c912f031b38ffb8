----------------------------- MODULE MCFriends -----------------------------
(* Instances of Friends for TLC: interchangeable handlers and users. *)
EXTENDS Friends, TLC

Symmetry == Permutations(Handlers) \cup Permutations(Users)
=============================================================================

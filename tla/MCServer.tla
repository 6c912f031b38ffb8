------------------------------ MODULE MCServer ------------------------------
(* Instances of Server for TLC: interchangeable connections and users. *)
EXTENDS Server, TLC

Symmetry == Permutations(Conns) \cup Permutations(Users)
=============================================================================

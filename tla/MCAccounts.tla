----------------------------- MODULE MCAccounts -----------------------------
(* An instance of Accounts for TLC: two spellings of one name, and another name. *)
EXTENDS Accounts, TLC

CONSTANTS ann, Ann, bob

MCNames == {ann, Ann, bob}

MCKey == [n \in Names |-> IF n = Ann THEN ann ELSE n]

Symmetry == Permutations(Handlers) \cup Permutations(Passwords)
=============================================================================

----------------------------- MODULE MCAccounts -----------------------------
(* Instances of Accounts for TLC. *)
EXTENDS AccountsProperties, TLC

Symmetry == Permutations(Sessions) \union Permutations(Passwords)
=============================================================================

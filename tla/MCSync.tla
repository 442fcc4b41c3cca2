------------------------------- MODULE MCSync --------------------------------
(***************************************************************************)
(* Small instances of SyncOutbox.                                          *)
(***************************************************************************)
EXTENDS SyncProperties, TLC

AllCommit == {"batch", "job"}

Symmetry == Permutations(Sessions) \union Permutations(Tenants) \union Permutations(Keys)
=============================================================================

---------------------------- MODULE MCDocuments -----------------------------
(* Instances of Documents for TLC. *)
EXTENDS DocumentsProperties, TLC

AllOps == Ops

\* A route beyond SACU.
OneRoute == {<<"ZA", "ZW">>}

InvoiceOnly == {"commercial_invoice"}

Symmetry == Permutations(Sessions) \union Permutations(Docs) \union Permutations(Contents)
=============================================================================

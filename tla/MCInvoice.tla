----------------------------- MODULE MCInvoice ------------------------------
(* Instances of InvoiceMilestones for TLC. *)
EXTENDS InvoiceProperties, TLC

AllOps == Ops

Symmetry == Permutations(Sessions)
=============================================================================

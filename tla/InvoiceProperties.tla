------------------------- MODULE InvoiceProperties -------------------------
(***************************************************************************)
(* What InvoiceMilestones guarantees, and a statement of the repository    *)
(* that it does not.                                                       *)
(***************************************************************************)
EXTENDS InvoiceMilestones

Brief(row) ==
    IF row = None THEN None
    ELSE [status |-> row.status, total |-> row.total,
          upfront |-> row.upfront, balance |-> row.balance]

\* NULL is not an abridged row either.
ASSUME NullBriefAssumption ==
    None \notin [status : InvoiceStatus, total : Nat,
                 upfront : Nat \union {None}, balance : Nat \union {None}]

Promise == INSTANCE InvoicePromise WITH invoice <- [i \in Invoices |-> Brief(invoice[i])]

Overtaken(s) ==
    sess[s] # Idle /\ sess[s].op # "create" /\ invoice[sess[s].invoice] # sess[s].row

(***************************************************************************)
(* Nothing guards an invoice against two handlers that loaded the same     *)
(* status.  Each step on the committed tables is one operation of the      *)
(* promise applied to the current row, with the milestone rows it calls    *)
(* for, unless it ends a session that another one has overtaken.           *)
(***************************************************************************)
AtomicUnlessOvertaken ==
    [][db # db' => \/ \E s \in Sessions : Overtaken(s) /\ Respond(s)
                  \/ Promise!Next]_db

(***************************************************************************)
(* The append-only log ends at the status of the invoice, even after       *)
(* stale sessions have duplicated or reverted transitions: status and      *)
(* milestone row commit together (state_machines/invoice.py:65-104).       *)
(***************************************************************************)
LogEndsAtStatus ==
    \A i \in Invoices :
        IF log[i] = << >>
        THEN invoice[i] = None \/ invoice[i].status = "draft"
        ELSE invoice[i] # None /\ log[i][Len(log[i])].to = invoice[i].status

Logged(i, status) == \E k \in DOMAIN log[i] : log[i][k].to = status

(***************************************************************************)
(* The money columns agree with the log whatever overlaps: an invoice has  *)
(* its two shares and its issued_at exactly when the log says it was       *)
(* issued, and a payment is stamped exactly when the log has it.           *)
(***************************************************************************)
MoneyIsLogged ==
    \A i \in Invoices : invoice[i] # None =>
        /\ Logged(i, "issued") <=> invoice[i].issued_at
        /\ invoice[i].issued_at <=> invoice[i].upfront # None
        /\ invoice[i].issued_at <=> invoice[i].balance # None
        /\ Logged(i, "upfront_paid") <=> invoice[i].upfront_paid_at
        /\ Logged(i, "fully_paid") <=> invoice[i].balance_paid_at

(***************************************************************************)
(* "computed at issued state and frozen" (PLAN.md:704): no later session,  *)
(* stale or not, changes the shares or the total they are shares of.       *)
(***************************************************************************)
FrozenAmounts ==
    [][\A i \in Invoices :
        invoice[i] # None =>
            /\ invoice'[i] # None
            /\ invoice'[i].total = invoice[i].total
            /\ invoice[i].upfront # None => invoice'[i].upfront = invoice[i].upfront
            /\ invoice[i].balance # None => invoice'[i].balance = invoice[i].balance]_invoice

(***************************************************************************)
(* The two shares are rounded separately.  Together they are the total,    *)
(* or one cent more, and that exactly for totals whose last digit is 5.    *)
(***************************************************************************)
SplitExcess ==
    \A i \in Invoices : invoice[i] # None /\ invoice[i].issued_at =>
        invoice[i].upfront + invoice[i].balance =
            invoice[i].total + (IF invoice[i].total % 10 = 5 THEN 1 ELSE 0)

-----------------------------------------------------------------------------
(***************************************************************************)
(* "Issue invoice — calculates 70/30 split." (services/invoice.py:102):    *)
(* the two shares split the total.                                         *)
(***************************************************************************)
SharesSplitTotal ==
    \A i \in Invoices : invoice[i] # None /\ invoice[i].issued_at =>
        invoice[i].upfront + invoice[i].balance = invoice[i].total
=============================================================================

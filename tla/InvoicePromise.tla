--------------------------- MODULE InvoicePromise ---------------------------
(***************************************************************************)
(* What PLAN.md 4.1 promises of an invoice when calls are served one at a  *)
(* time: it moves along the milestones in their order, may be cancelled    *)
(* before anything is paid, logs every move, and its shares are those of   *)
(* a 70/30 split, computed when it is issued and never again.              *)
(***************************************************************************)
EXTENDS Integers, Sequences

CONSTANTS Invoices, None

VARIABLES invoice, log

Milestones ==
    <<"draft", "issued", "upfront_requested", "upfront_paid", "in_transit",
      "pod_captured", "pod_verified", "balance_released", "fully_paid">>

Unpaid == {Milestones[n] : n \in 1 .. 3}

\* a cents are pct percent of total, to the nearest cent.
NearestShare(a, total, pct) == 100 * a - pct * total \in -50 .. 50

Record(i, moves) == log' = [log EXCEPT ![i] = @ \o moves]
Step(from, to) == [from |-> from, to |-> to]

Create(i) ==
    /\ invoice[i] = None
    /\ invoice'[i] # None
    /\ invoice' = [invoice EXCEPT ![i] =
           [status |-> "draft", total |-> invoice'[i].total, upfront |-> None, balance |-> None]]
    /\ UNCHANGED log

Issue(i) ==
    /\ invoice[i] # None
    /\ invoice[i].status = "draft"
    /\ invoice' = [invoice EXCEPT ![i] =
           [@ EXCEPT !.status = "issued",
                     !.upfront = invoice'[i].upfront, !.balance = invoice'[i].balance]]
    /\ NearestShare(invoice'[i].upfront, invoice[i].total, 70)
    /\ NearestShare(invoice'[i].balance, invoice[i].total, 30)
    /\ Record(i, <<Step("draft", "issued")>>)

Advance(i) ==
    \E n \in 2 .. Len(Milestones) - 1 :
        /\ invoice[i] # None
        /\ invoice[i].status = Milestones[n]
        /\ invoice' = [invoice EXCEPT ![i].status = Milestones[n + 1]]
        /\ Record(i, <<Step(Milestones[n], Milestones[n + 1])>>)

\* The human check of the proof of delivery: captured and verified at once.
VerifyPod(i) ==
    /\ invoice[i] # None
    /\ invoice[i].status = "in_transit"
    /\ invoice' = [invoice EXCEPT ![i].status = "pod_verified"]
    /\ Record(i, <<Step("in_transit", "pod_captured"), Step("pod_captured", "pod_verified")>>)

Cancel(i) ==
    /\ invoice[i] # None
    /\ invoice[i].status \in Unpaid
    /\ invoice' = [invoice EXCEPT ![i].status = "cancelled"]
    /\ Record(i, <<Step(invoice[i].status, "cancelled")>>)

Init == invoice = [i \in Invoices |-> None] /\ log = [i \in Invoices |-> << >>]

Next == \E i \in Invoices : Create(i) \/ Issue(i) \/ Advance(i) \/ VerifyPod(i) \/ Cancel(i)

Spec == Init /\ [][Next]_<<invoice, log>>
=============================================================================

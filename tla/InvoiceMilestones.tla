------------------------- MODULE InvoiceMilestones -------------------------
(***************************************************************************)
(* Invoices and their milestone log: src/app/services/invoice.py over the  *)
(* state machine of src/app/state_machines/invoice.py, as database         *)
(* sessions that overlap (see OrmSession and TripAward).                   *)
(*                                                                         *)
(* An invoice is named by its trip, of which it is the only one (trip_id   *)
(* is UNIQUE).  Money is in cents.  Timestamps are flags: set or not.  The *)
(* log is in commit order; the GET route sorts by created_at.              *)
(***************************************************************************)
EXTENDS Integers, Sequences, OrmSession

CONSTANTS
    Sessions,  \* database sessions that may be open at the same time
    Invoices,  \* the trips that may be invoiced
    Totals,    \* the quoted amounts of the trips
    None,      \* SQL NULL, and a row that does not exist
    Commits,   \* the operations whose caller commits; deployed: none
    MaxLog     \* bound on the rows of one invoice's log

Ops == {"create", "issue", "verify_pod", "advance"}

ASSUME InvoiceAssumption ==
    /\ Totals \subseteq Nat
    /\ None \notin Nat
    /\ Commits \subseteq Ops
    /\ MaxLog \in Nat

VARIABLES
    invoice,  \* the committed invoices table: Invoices -> InvoiceRow or None
    log,      \* the committed invoice_milestones of each invoice
    sess      \* the open sessions

db   == <<invoice, log>>
vars == <<invoice, log, sess>>

-----------------------------------------------------------------------------
\* Fault variant of ValidTransitions: an invoice may be cancelled after the upfront payment.
ValidTransitionsLateCancel ==
    {<<"draft", "issued">>, <<"draft", "cancelled">>,
     <<"issued", "upfront_requested">>, <<"issued", "cancelled">>,
     <<"upfront_requested", "upfront_paid">>, <<"upfront_requested", "cancelled">>,
     <<"upfront_paid", "in_transit">>, <<"upfront_paid", "cancelled">>,
     <<"in_transit", "pod_captured">>,
     <<"pod_captured", "pod_verified">>,
     <<"pod_verified", "balance_released">>,
     <<"balance_released", "fully_paid">>}

ValidTransitions ==
    {<<"draft", "issued">>, <<"draft", "cancelled">>,
     <<"issued", "upfront_requested">>, <<"issued", "cancelled">>,
     <<"upfront_requested", "upfront_paid">>, <<"upfront_requested", "cancelled">>,
     <<"upfront_paid", "in_transit">>,
     <<"in_transit", "pod_captured">>,
     <<"pod_captured", "pod_verified">>,
     <<"pod_verified", "balance_released">>,
     <<"balance_released", "fully_paid">>}

InvoiceStatus == {m[1] : m \in ValidTransitions} \union {m[2] : m \in ValidTransitions}

\* Fault variant of Share: truncated to a cent.
ShareTruncated(total, pct) == (total * pct) \div 100

\* total * pct / 100 in a NUMERIC(12, 2) column: rounded half away from zero.
Share(total, pct) == (total * pct + 50) \div 100

InvoiceRow ==
    [status            : InvoiceStatus,
     current_milestone : InvoiceStatus,
     total             : Nat,
     upfront           : Nat \union {None},
     balance           : Nat \union {None},
     issued_at         : BOOLEAN,
     upfront_paid_at   : BOOLEAN,
     balance_paid_at   : BOOLEAN]

\* NULL is not a row.
ASSUME NullAssumption == None \notin InvoiceRow

NewInvoice(total) ==
    [status |-> "draft", current_milestone |-> "draft", total |-> total,
     upfront |-> None, balance |-> None,
     issued_at |-> FALSE, upfront_paid_at |-> FALSE, balance_paid_at |-> FALSE]

\* Fault variant of Milestone: the name that goes into the log.
MilestoneName(row, new) ==
    CASE new = "issued" -> "invoice_issued"
      [] new = "in_transit" -> "transit_started"
      [] OTHER -> new

\* The milestone a transition leaves: issuing asks for the upfront payment,
\* the request itself and a cancellation leave the column alone.
Milestone(row, new) ==
    CASE new = "issued" -> "upfront_requested"
      [] new \in {"upfront_requested", "cancelled"} -> row.current_milestone
      [] OTHER -> new

\* Fault variant of MoveInvoice: the payment of the balance is not stamped.
MoveInvoiceUnstamped(row, new) ==
    [row EXCEPT
        !.status            = new,
        !.current_milestone = Milestone(row, new),
        !.upfront           = IF new = "issued" THEN Share(row.total, 70) ELSE @,
        !.balance           = IF new = "issued" THEN Share(row.total, 30) ELSE @,
        !.issued_at         = @ \/ new = "issued",
        !.upfront_paid_at   = @ \/ new = "upfront_paid"]

\* transition_invoice on the loaded object, validated.
MoveInvoice(row, new) ==
    [row EXCEPT
        !.status            = new,
        !.current_milestone = Milestone(row, new),
        !.upfront           = IF new = "issued" THEN Share(row.total, 70) ELSE @,
        !.balance           = IF new = "issued" THEN Share(row.total, 30) ELSE @,
        !.issued_at         = @ \/ new = "issued",
        !.upfront_paid_at   = @ \/ new = "upfront_paid",
        !.balance_paid_at   = @ \/ new = "fully_paid"]

LogRow == [from : InvoiceStatus, to : InvoiceStatus]

Idle == [op |-> "idle"]

\* path: the statuses the handler moves the loaded row through, in order.
Paths == {<<new>> : new \in InvoiceStatus} \union {<<"pod_captured", "pod_verified">>}

MoveSession   == [op : Ops \ {"create"}, invoice : Invoices, row : InvoiceRow, path : Paths]
CreateSession == [op : {"create"}, invoice : Invoices, total : Totals]

TypeOK ==
    /\ invoice \in [Invoices -> InvoiceRow \union {None}]
    /\ log \in [Invoices -> Seq(LogRow)]
    /\ sess \in [Sessions -> {Idle} \union MoveSession \union CreateSession]

Init ==
    /\ invoice = [i \in Invoices |-> None]
    /\ log = [i \in Invoices |-> << >>]
    /\ sess = [s \in Sessions |-> Idle]

-----------------------------------------------------------------------------
Open(s, request) ==
    /\ sess[s] = Idle
    /\ sess' = [sess EXCEPT ![s] = request]
    /\ UNCHANGED <<invoice, log>>

\* InvoiceService.create reads the trip's quoted amount and looks for no
\* invoice of the trip.
Create(s, i, total) == Open(s, [op |-> "create", invoice |-> i, total |-> total])

Move(s, i, op, path) ==
    /\ invoice[i] # None
    /\ Len(log[i]) + Len(path) <= MaxLog
    /\ <<invoice[i].status, path[1]>> \in ValidTransitions
    /\ Open(s, [op |-> op, invoice |-> i, row |-> invoice[i], path |-> path])

\* POST /invoices/{id}/issue: 400 unless the invoice is a draft.
Issue(s, i) == Move(s, i, "issue", <<"issued">>)

\* POST /invoices/{id}/verify-pod: two transitions in one transaction.
VerifyPod(s, i) == Move(s, i, "verify_pod", <<"pod_captured", "pod_verified">>)

\* Any other call of transition_invoice; no route makes one yet.
Advance(s, i, new) == new # "issued" /\ Move(s, i, "advance", <<new>>)

-----------------------------------------------------------------------------
\* The loaded object after the transitions of the path.
Walk(row, path) ==
    IF Len(path) = 1 THEN MoveInvoice(row, path[1])
    ELSE MoveInvoice(MoveInvoice(row, path[1]), path[2])

\* Fault variant of Entries: one milestone row per call, for its last status.
EntriesFirst(row, path) == <<[from |-> row.status, to |-> path[1]]>>

\* The milestone rows of the path.
Entries(row, path) ==
    [k \in 1 .. Len(path) |->
        [from |-> IF k = 1 THEN row.status ELSE path[k - 1], to |-> path[k]]]

\* A duplicate create: the INSERT violates the UNIQUE constraint, a 500.
Duplicate(r) == r.op = "create" /\ invoice[r.invoice] # None

InvoicesAfter(r) ==
    [invoice EXCEPT ![r.invoice] =
        IF r.op = "create" THEN NewInvoice(r.total)
        ELSE Flushed(@, r.row, Walk(r.row, r.path))]

LogAfter(r) ==
    IF r.op = "create" THEN log
    ELSE [log EXCEPT ![r.invoice] = @ \o Entries(r.row, r.path)]

\* The handler flushes and answers; the caller has committed or not.
Respond(s) ==
    /\ sess[s] # Idle
    /\ ~ Duplicate(sess[s])
    /\ IF sess[s].op \in Commits
       THEN invoice' = InvoicesAfter(sess[s]) /\ log' = LogAfter(sess[s])
       ELSE UNCHANGED db
    /\ sess' = [sess EXCEPT ![s] = Idle]

\* An exception (a duplicate create among them), a disconnected client or a
\* killed process: a rollback.
Abort(s) ==
    /\ sess[s] # Idle
    /\ sess' = [sess EXCEPT ![s] = Idle]
    /\ UNCHANGED db

Next ==
    \E s \in Sessions :
        \/ \E i \in Invoices :
            \/ \E total \in Totals : Create(s, i, total)
            \/ Issue(s, i)
            \/ VerifyPod(s, i)
            \/ \E new \in InvoiceStatus : Advance(s, i, new)
        \/ Respond(s)
        \/ Abort(s)

Spec == Init /\ [][Next]_vars
=============================================================================

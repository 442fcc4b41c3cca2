--------------------------- MODULE InvoiceProofs ---------------------------
(***************************************************************************)
(* Proofs about InvoiceMilestones, for every set of sessions, invoices and *)
(* quoted amounts, every choice of committing callers and every bound.     *)
(***************************************************************************)
EXTENDS InvoiceProperties, TLAPS

(***************************************************************************)
(* For every amount: the two separately rounded shares of 70% and 30% are  *)
(* the amount, and one cent more exactly when its last digit is 5          *)
(* (state_machines/invoice.py:71-74).                                      *)
(***************************************************************************)
THEOREM SplitRounding ==
    ASSUME NEW total \in Nat
    PROVE  /\ Share(total, 70) \in Nat
           /\ Share(total, 30) \in Nat
           /\ Share(total, 70) + Share(total, 30) =
                  total + (IF total % 10 = 5 THEN 1 ELSE 0)
BY SMTT(30) DEF Share

-----------------------------------------------------------------------------
(* The operators of a session.                                             *)

\* The statuses the transition table speaks of.
LEMMA StatusSet ==
    InvoiceStatus = {"draft", "issued", "upfront_requested", "upfront_paid", "in_transit",
                     "pod_captured", "pod_verified", "balance_released", "fully_paid",
                     "cancelled"}
BY DEF InvoiceStatus, ValidTransitions

\* One transition of a loaded row: the type, and the columns the proofs use.
LEMMA MoveFacts ==
    ASSUME NEW row \in InvoiceRow, NEW new \in InvoiceStatus
    PROVE  LET w == MoveInvoice(row, new) IN
           /\ w \in InvoiceRow
           /\ w.status = new
           /\ w.total = row.total
           /\ w.upfront = IF new = "issued" THEN Share(row.total, 70) ELSE row.upfront
           /\ w.balance = IF new = "issued" THEN Share(row.total, 30) ELSE row.balance
           /\ w.issued_at <=> row.issued_at \/ new = "issued"
           /\ w.upfront_paid_at <=> row.upfront_paid_at \/ new = "upfront_paid"
           /\ w.balance_paid_at <=> row.balance_paid_at \/ new = "fully_paid"
<1>1. row.total \in Nat
  BY DEF InvoiceRow
<1>2. Share(row.total, 70) \in Nat /\ Share(row.total, 30) \in Nat
  BY <1>1, SplitRounding
<1>3. Milestone(row, new) \in InvoiceStatus
  BY StatusSet DEF Milestone, InvoiceRow
<1> DEFINE w == MoveInvoice(row, new)
<1>4. /\ w.status = new
      /\ w.current_milestone = Milestone(row, new)
      /\ w.total = row.total
      /\ w.upfront = IF new = "issued" THEN Share(row.total, 70) ELSE row.upfront
      /\ w.balance = IF new = "issued" THEN Share(row.total, 30) ELSE row.balance
  BY DEF MoveInvoice, InvoiceRow
<1>5. /\ w.issued_at = (row.issued_at \/ new = "issued")
      /\ w.upfront_paid_at = (row.upfront_paid_at \/ new = "upfront_paid")
      /\ w.balance_paid_at = (row.balance_paid_at \/ new = "fully_paid")
  BY Zenon DEF MoveInvoice, InvoiceRow
<1>6. w \in InvoiceRow
  <2> DEFINE upfront == IF new = "issued" THEN Share(row.total, 70) ELSE row.upfront
             balance == IF new = "issued" THEN Share(row.total, 30) ELSE row.balance
             issued  == row.issued_at \/ new = "issued"
             paid    == row.upfront_paid_at \/ new = "upfront_paid"
             settled == row.balance_paid_at \/ new = "fully_paid"
  <2>1. issued \in BOOLEAN /\ paid \in BOOLEAN /\ settled \in BOOLEAN
    OBVIOUS
  <2>2. upfront \in Nat \union {None} /\ balance \in Nat \union {None}
    BY <1>2 DEF InvoiceRow
  <2>3. w = [row EXCEPT !.status = new, !.current_milestone = Milestone(row, new),
                        !.upfront = upfront, !.balance = balance, !.issued_at = issued,
                        !.upfront_paid_at = paid, !.balance_paid_at = settled]
    BY Zenon DEF MoveInvoice
  <2> HIDE DEF upfront, balance, issued, paid, settled, w
  <2> QED
    BY <1>3, <2>1, <2>2, <2>3 DEF InvoiceRow
<1> QED
  BY <1>4, <1>5, <1>6 DEF InvoiceRow

\* Both transitions of a path that starts with a legal one.
LEMMA WalkFacts ==
    ASSUME NEW row \in InvoiceRow, NEW path \in Paths,
           <<row.status, path[1]>> \in ValidTransitions
    PROVE  LET w == Walk(row, path) IN
           /\ w \in InvoiceRow
           /\ w.status = path[Len(path)]
           /\ w.status # row.status
           /\ w.total = row.total
           /\ w.upfront = IF path = <<"issued">> THEN Share(row.total, 70) ELSE row.upfront
           /\ w.balance = IF path = <<"issued">> THEN Share(row.total, 30) ELSE row.balance
           /\ w.issued_at <=> row.issued_at \/ path = <<"issued">>
           /\ w.upfront_paid_at <=> row.upfront_paid_at \/ path = <<"upfront_paid">>
           /\ w.balance_paid_at <=> row.balance_paid_at \/ path = <<"fully_paid">>
<1>1. CASE \E new \in InvoiceStatus : path = <<new>>
  <2>1. PICK new \in InvoiceStatus : path = <<new>>
    BY <1>1
  <2>2. Walk(row, path) = MoveInvoice(row, new)
    BY <2>1 DEF Walk
  <2>3. row.status # new
    BY <2>1 DEF ValidTransitions
  <2> QED
    BY <2>1, <2>2, <2>3, MoveFacts
<1>2. CASE path = <<"pod_captured", "pod_verified">>
  <2>1. "pod_captured" \in InvoiceStatus /\ "pod_verified" \in InvoiceStatus
    BY StatusSet
  <2>2. row.status = "in_transit"
    BY <1>2 DEF ValidTransitions
  <2> DEFINE mid == MoveInvoice(row, "pod_captured")
  <2>3. Walk(row, path) = MoveInvoice(mid, "pod_verified")
    BY <1>2 DEF Walk
  <2>4. mid \in InvoiceRow
    BY <2>1, MoveFacts
  <2>5. path # <<"issued">> /\ path # <<"upfront_paid">> /\ path # <<"fully_paid">>
    BY <1>2
  <2>6. /\ mid.total = row.total
        /\ mid.upfront = row.upfront
        /\ mid.balance = row.balance
        /\ mid.issued_at = row.issued_at
        /\ mid.upfront_paid_at = row.upfront_paid_at
        /\ mid.balance_paid_at = row.balance_paid_at
    BY <2>1, MoveFacts DEF InvoiceRow
  <2>7. LET w == MoveInvoice(mid, "pod_verified") IN
        /\ w \in InvoiceRow
        /\ w.status = "pod_verified"
        /\ w.total = mid.total
        /\ w.upfront = mid.upfront
        /\ w.balance = mid.balance
        /\ w.issued_at = mid.issued_at
        /\ w.upfront_paid_at = mid.upfront_paid_at
        /\ w.balance_paid_at = mid.balance_paid_at
    <3> HIDE DEF mid
    <3> QED
      BY <2>1, <2>4, MoveFacts DEF InvoiceRow
  <2> HIDE DEF mid
  <2> QED
    BY <1>2, <2>2, <2>3, <2>5, <2>6, <2>7 DEF InvoiceRow
<1> QED
  BY <1>1, <1>2 DEF Paths

\* The milestone rows a path adds.
LEMMA EntriesFacts ==
    ASSUME NEW row \in InvoiceRow, NEW path \in Paths
    PROVE  /\ Len(path) \in {1, 2}
           /\ Entries(row, path) \in Seq(LogRow)
           /\ Len(Entries(row, path)) = Len(path)
           /\ \A k \in 1 .. Len(path) : Entries(row, path)[k].to = path[k]
<1>1. /\ Len(path) \in {1, 2}
      /\ \A k \in 1 .. Len(path) : path[k] \in InvoiceStatus
  BY StatusSet DEF Paths
<1>2. row.status \in InvoiceStatus
  BY DEF InvoiceRow
<1>3. \A k \in 1 .. Len(path) :
        [from |-> IF k = 1 THEN row.status ELSE path[k - 1], to |-> path[k]] \in LogRow
  BY <1>1, <1>2 DEF LogRow
<1> QED
  BY <1>1, <1>3 DEF Entries

\* The flush of a loaded row, column by column.
LEMMA FlushFacts ==
    ASSUME NEW stored \in InvoiceRow, NEW loaded \in InvoiceRow, NEW assigned \in InvoiceRow
    PROVE  LET f == Flushed(stored, loaded, assigned) IN
           /\ f \in InvoiceRow
           /\ \A c \in DOMAIN stored :
                 f[c] = IF assigned[c] = loaded[c] THEN stored[c] ELSE assigned[c]
           /\ DOMAIN stored = {"status", "current_milestone", "total", "upfront", "balance",
                               "issued_at", "upfront_paid_at", "balance_paid_at"}
BY DEF InvoiceRow, Flushed

-----------------------------------------------------------------------------
(* The inductive invariant.                                                *)

\* What later commits keep of a row.
Older(old, new) ==
    /\ new.total = old.total
    /\ old.upfront # None => new.upfront = old.upfront
    /\ old.balance # None => new.balance = old.balance
    /\ old.issued_at => new.issued_at
    /\ old.upfront_paid_at => new.upfront_paid_at
    /\ old.balance_paid_at => new.balance_paid_at

Moving(s) == sess[s] # Idle /\ sess[s].op # "create"

\* A session holds a row that may be stale, but only in the ways of Older, and
\* from which its first transition was legal.
LoadedRowsAge ==
    \A s \in Sessions : Moving(s) =>
        /\ invoice[sess[s].invoice] # None
        /\ Older(sess[s].row, invoice[sess[s].invoice])
        /\ <<sess[s].row.status, sess[s].path[1]>> \in ValidTransitions

AmountsAreShares ==
    \A i \in Invoices : invoice[i] # None =>
        /\ invoice[i].upfront # None => invoice[i].upfront = Share(invoice[i].total, 70)
        /\ invoice[i].balance # None => invoice[i].balance = Share(invoice[i].total, 30)

IInv ==
    /\ TypeOK
    /\ LogEndsAtStatus
    /\ MoneyIsLogged
    /\ LoadedRowsAge
    /\ AmountsAreShares

LEMMA IdleIsNoSession == Idle \notin MoveSession \union CreateSession
BY DEF Idle, MoveSession, CreateSession, Ops

LEMMA MovingSession ==
    ASSUME TypeOK, NEW s \in Sessions, Moving(s)
    PROVE  sess[s] \in MoveSession
BY DEF TypeOK, Moving, CreateSession

\* The row a session commits, against the row it finds.
LEMMA CommitFacts ==
    ASSUME IInv, NEW s \in Sessions, Moving(s)
    PROVE  LET r   == sess[s]
               now == invoice[r.invoice]
               new == Flushed(now, r.row, Walk(r.row, r.path))
           IN
           /\ now \in InvoiceRow
           /\ new \in InvoiceRow
           /\ new.status = r.path[Len(r.path)]
           /\ Older(now, new)
           /\ new.upfront # None => new.upfront = Share(new.total, 70)
           /\ new.balance # None => new.balance = Share(new.total, 30)
           /\ new.upfront # None <=> now.upfront # None \/ r.path = <<"issued">>
           /\ new.balance # None <=> now.balance # None \/ r.path = <<"issued">>
           /\ new.issued_at <=> now.issued_at \/ r.path = <<"issued">>
           /\ new.upfront_paid_at <=> now.upfront_paid_at \/ r.path = <<"upfront_paid">>
           /\ new.balance_paid_at <=> now.balance_paid_at \/ r.path = <<"fully_paid">>
<1> DEFINE r   == sess[s]
           now == invoice[r.invoice]
           w   == Walk(r.row, r.path)
           new == Flushed(now, r.row, w)
<1>1. r \in MoveSession
  BY MovingSession DEF IInv
<1>2. r.row \in InvoiceRow /\ r.path \in Paths /\ r.invoice \in Invoices
  BY <1>1 DEF MoveSession
<1>3. now \in InvoiceRow /\ Older(r.row, now)
  BY <1>2 DEF IInv, TypeOK, LoadedRowsAge
<1>4. <<r.row.status, r.path[1]>> \in ValidTransitions
  BY DEF IInv, LoadedRowsAge
<1>5. /\ now.upfront # None => now.upfront = Share(now.total, 70)
      /\ now.balance # None => now.balance = Share(now.total, 30)
  BY <1>2, <1>3 DEF IInv, AmountsAreShares, LoadedRowsAge
<1>6. /\ w \in InvoiceRow
      /\ w.status = r.path[Len(r.path)]
      /\ w.status # r.row.status
      /\ w.total = r.row.total
      /\ w.upfront = IF r.path = <<"issued">> THEN Share(r.row.total, 70) ELSE r.row.upfront
      /\ w.balance = IF r.path = <<"issued">> THEN Share(r.row.total, 30) ELSE r.row.balance
      /\ w.issued_at <=> r.row.issued_at \/ r.path = <<"issued">>
      /\ w.upfront_paid_at <=> r.row.upfront_paid_at \/ r.path = <<"upfront_paid">>
      /\ w.balance_paid_at <=> r.row.balance_paid_at \/ r.path = <<"fully_paid">>
  BY <1>2, <1>4, WalkFacts
<1>7. Share(r.row.total, 70) \in Nat /\ Share(r.row.total, 30) \in Nat /\ None \notin Nat
  BY <1>2, SplitRounding, InvoiceAssumption DEF InvoiceRow
<1> HIDE DEF w, r
<1>8. /\ new \in InvoiceRow
      /\ \A c \in {"status", "total", "upfront", "balance",
                   "issued_at", "upfront_paid_at", "balance_paid_at"} :
            new[c] = IF w[c] = r.row[c] THEN now[c] ELSE w[c]
  BY <1>2, <1>3, <1>6, FlushFacts
<1> HIDE DEF now, new
<1>9. /\ new.status = w.status
      /\ new.total = now.total
      /\ new.upfront = IF w.upfront = r.row.upfront THEN now.upfront ELSE w.upfront
      /\ new.balance = IF w.balance = r.row.balance THEN now.balance ELSE w.balance
  BY <1>6, <1>8
<1>10. /\ new.issued_at <=> now.issued_at \/ r.path = <<"issued">>
       /\ new.upfront_paid_at <=> now.upfront_paid_at \/ r.path = <<"upfront_paid">>
       /\ new.balance_paid_at <=> now.balance_paid_at \/ r.path = <<"fully_paid">>
  BY <1>2, <1>3, <1>6, <1>8 DEF Older, InvoiceRow
<1>11. /\ new.total = now.total /\ r.row.total = now.total
       /\ r.row.upfront # None => now.upfront = r.row.upfront
       /\ r.row.balance # None => now.balance = r.row.balance
  BY <1>3, <1>9 DEF Older
<1>12. /\ new.upfront # None <=> now.upfront # None \/ r.path = <<"issued">>
       /\ now.upfront # None => new.upfront = now.upfront
       /\ new.upfront # None => new.upfront = Share(new.total, 70)
  <2>1. w.upfront = IF r.path = <<"issued">> THEN Share(r.row.total, 70) ELSE r.row.upfront
    BY <1>6
  <2>2. CASE r.path = <<"issued">>
    BY <1>5, <1>7, <1>9, <1>11, <2>1, <2>2
  <2>3. CASE r.path # <<"issued">>
    BY <1>5, <1>9, <1>11, <2>1, <2>3
  <2> QED
    BY <2>2, <2>3
<1>13. /\ new.balance # None <=> now.balance # None \/ r.path = <<"issued">>
       /\ now.balance # None => new.balance = now.balance
       /\ new.balance # None => new.balance = Share(new.total, 30)
  <2>1. w.balance = IF r.path = <<"issued">> THEN Share(r.row.total, 30) ELSE r.row.balance
    BY <1>6
  <2>2. CASE r.path = <<"issued">>
    BY <1>5, <1>7, <1>9, <1>11, <2>1, <2>2
  <2>3. CASE r.path # <<"issued">>
    BY <1>5, <1>9, <1>11, <2>1, <2>3
  <2> QED
    BY <2>2, <2>3
<1> QED
  BY <1>3, <1>6, <1>8, <1>9, <1>10, <1>12, <1>13 DEF Older, now, new, w, r

-----------------------------------------------------------------------------
(* The invariant holds initially, and every step keeps it.                 *)

LEMMA InitInv == Init => IInv
BY DEF Init, IInv, TypeOK, LogEndsAtStatus, MoneyIsLogged, LoadedRowsAge, AmountsAreShares,
       Moving, Idle

\* Opening a session.
LEMMA OpenInv ==
    ASSUME IInv, NEW s \in Sessions, NEW request \in MoveSession \union CreateSession,
           Open(s, request),
           request.op # "create" =>
               /\ invoice[request.invoice] # None
               /\ request.row = invoice[request.invoice]
               /\ <<request.row.status, request.path[1]>> \in ValidTransitions
    PROVE  IInv'
<1>1. /\ sess' = [sess EXCEPT ![s] = request]
      /\ invoice' = invoice /\ log' = log
  BY DEF Open
<1>2. TypeOK'
  BY <1>1 DEF IInv, TypeOK
<1>3. LogEndsAtStatus' /\ MoneyIsLogged' /\ AmountsAreShares'
  BY <1>1 DEF IInv, LogEndsAtStatus, MoneyIsLogged, AmountsAreShares, Logged
<1>4. LoadedRowsAge'
  BY <1>1 DEF IInv, TypeOK, LoadedRowsAge, Moving, Older
<1> QED
  BY <1>2, <1>3, <1>4 DEF IInv

LEMMA AbortInv ==
    ASSUME IInv, NEW s \in Sessions, sess' = [sess EXCEPT ![s] = Idle], UNCHANGED db
    PROVE  IInv'
<1>1. invoice' = invoice /\ log' = log
  BY DEF db
<1>2. TypeOK'
  BY <1>1 DEF IInv, TypeOK
<1>3. LogEndsAtStatus' /\ MoneyIsLogged' /\ AmountsAreShares'
  BY <1>1 DEF IInv, LogEndsAtStatus, MoneyIsLogged, AmountsAreShares, Logged
<1>4. LoadedRowsAge'
  BY <1>1 DEF IInv, TypeOK, LoadedRowsAge, Moving
<1> QED
  BY <1>2, <1>3, <1>4 DEF IInv

\* The commit of a new invoice.
LEMMA CreateInv ==
    ASSUME IInv, NEW s \in Sessions, sess[s] # Idle, sess[s].op = "create",
           ~ Duplicate(sess[s]),
           invoice' = InvoicesAfter(sess[s]), log' = LogAfter(sess[s]),
           sess' = [sess EXCEPT ![s] = Idle]
    PROVE  IInv'
<1> DEFINE i == sess[s].invoice
           new == NewInvoice(sess[s].total)
<1>1. i \in Invoices /\ sess[s].total \in Nat
  BY InvoiceAssumption DEF IInv, TypeOK, MoveSession, CreateSession
<1>2. invoice[i] = None
  BY DEF Duplicate
<1>3. invoice' = [invoice EXCEPT ![i] = new] /\ log' = log
  BY DEF InvoicesAfter, LogAfter
<1>4. new \in InvoiceRow
  BY <1>1, StatusSet DEF NewInvoice, InvoiceRow
<1>5. /\ new # None /\ new.status = "draft"
      /\ new.upfront = None /\ new.balance = None
      /\ ~ new.issued_at /\ ~ new.upfront_paid_at /\ ~ new.balance_paid_at
  BY <1>4, NullAssumption DEF NewInvoice
<1>6. log[i] = << >>
  BY <1>1, <1>2 DEF IInv, LogEndsAtStatus
<1> HIDE DEF new, i
<1>7. TypeOK'
  BY <1>1, <1>3, <1>4 DEF IInv, TypeOK
<1>8. LogEndsAtStatus'
  BY <1>1, <1>3, <1>5, <1>6 DEF IInv, TypeOK, LogEndsAtStatus
<1>9. MoneyIsLogged'
  BY <1>1, <1>3, <1>5, <1>6 DEF IInv, TypeOK, MoneyIsLogged, Logged
<1>10. AmountsAreShares'
  BY <1>1, <1>3, <1>5 DEF IInv, TypeOK, AmountsAreShares
<1>11. LoadedRowsAge'
  <2> SUFFICES ASSUME NEW o \in Sessions, Moving(o)'
               PROVE  /\ invoice'[sess'[o].invoice] # None
                      /\ Older(sess'[o].row, invoice'[sess'[o].invoice])
                      /\ <<sess'[o].row.status, sess'[o].path[1]>> \in ValidTransitions
    BY DEF LoadedRowsAge, Older, Moving
  <2>1. o # s /\ sess'[o] = sess[o] /\ Moving(o)
    BY DEF IInv, TypeOK, Moving
  <2>2. sess[o].invoice \in Invoices /\ sess[o].invoice # i
    BY <1>2, <2>1, MovingSession DEF IInv, LoadedRowsAge, MoveSession
  <2>3. invoice'[sess[o].invoice] = invoice[sess[o].invoice]
    BY <1>3, <2>2 DEF IInv, TypeOK
  <2> QED
    BY <2>1, <2>3 DEF IInv, LoadedRowsAge
<1> QED
  BY <1>7, <1>8, <1>9, <1>10, <1>11 DEF IInv

Mentions(rows, status) == \E k \in DOMAIN rows : rows[k].to = status

\* What a log has after rows were added to it.
LEMMA AppendFacts ==
    ASSUME NEW S, NEW a \in Seq(S), NEW b \in Seq(S), Len(b) > 0
    PROVE  /\ a \o b # << >>
           /\ (a \o b)[Len(a \o b)] = b[Len(b)]
           /\ \A status : Mentions(a \o b, status) <=> Mentions(a, status) \/ Mentions(b, status)
<1>1. /\ Len(a \o b) = Len(a) + Len(b)
      /\ DOMAIN (a \o b) = 1 .. Len(a) + Len(b)
      /\ DOMAIN a = 1 .. Len(a) /\ DOMAIN b = 1 .. Len(b)
      /\ Len(a) \in Nat /\ Len(b) \in Nat
  OBVIOUS
<1>2. /\ \A k \in 1 .. Len(a) : (a \o b)[k] = a[k]
      /\ \A k \in 1 .. Len(b) : (a \o b)[Len(a) + k] = b[k]
  OBVIOUS
<1>3. \A k \in 1 .. Len(a) + Len(b) :
        k \in 1 .. Len(a) \/ \E j \in 1 .. Len(b) : k = Len(a) + j
  <2> TAKE k \in 1 .. Len(a) + Len(b)
  <2>1. k \notin 1 .. Len(a) => k - Len(a) \in 1 .. Len(b) /\ k = Len(a) + (k - Len(a))
    BY <1>1
  <2> QED
    BY <2>1
<1>4. /\ 1 .. Len(a) \subseteq 1 .. Len(a) + Len(b)
      /\ \A j \in 1 .. Len(b) : Len(a) + j \in 1 .. Len(a) + Len(b)
  BY <1>1
<1>5. a \o b # << >> /\ (a \o b)[Len(a \o b)] = b[Len(b)]
  BY <1>1, <1>2
<1>6. ASSUME NEW status
      PROVE  Mentions(a \o b, status) <=> Mentions(a, status) \/ Mentions(b, status)
  <2> DEFINE c == a \o b
             n == Len(a)
  <2>1. /\ DOMAIN c = 1 .. n + Len(b) /\ DOMAIN a = 1 .. n /\ DOMAIN b = 1 .. Len(b)
        /\ \A k \in 1 .. n : c[k] = a[k]
        /\ \A k \in 1 .. Len(b) : c[n + k] = b[k]
        /\ \A k \in 1 .. n + Len(b) : k \in 1 .. n \/ \E j \in 1 .. Len(b) : k = n + j
        /\ \A k \in 1 .. n : k \in 1 .. n + Len(b)
        /\ \A j \in 1 .. Len(b) : n + j \in 1 .. n + Len(b)
    BY <1>1, <1>2, <1>3, <1>4
  <2> HIDE DEF c, n
  <2>2. ASSUME NEW k \in DOMAIN c, c[k].to = status
        PROVE  Mentions(a, status) \/ Mentions(b, status)
    <3>1. CASE k \in 1 .. n
      BY <2>1, <2>2, <3>1 DEF Mentions
    <3>2. CASE \E j \in 1 .. Len(b) : k = n + j
      BY <2>1, <2>2, <3>2 DEF Mentions
    <3> QED
      BY <2>1, <2>2, <3>1, <3>2
  <2>3. Mentions(a, status) => Mentions(c, status)
    BY <2>1 DEF Mentions
  <2>4. Mentions(b, status) => Mentions(c, status)
    BY <2>1 DEF Mentions
  <2>5. Mentions(c, status) => Mentions(a, status) \/ Mentions(b, status)
    BY <2>2 DEF Mentions
  <2> QED
    BY <2>3, <2>4, <2>5 DEF c
<1> QED
  BY <1>5, <1>6

\* The commit of a move.
LEMMA MoveInv ==
    ASSUME IInv, NEW s \in Sessions, Moving(s),
           invoice' = InvoicesAfter(sess[s]), log' = LogAfter(sess[s]),
           sess' = [sess EXCEPT ![s] = Idle]
    PROVE  IInv'
<1> DEFINE r   == sess[s]
           i   == r.invoice
           now == invoice[i]
           new == Flushed(now, r.row, Walk(r.row, r.path))
           added == Entries(r.row, r.path)
<1>1. i \in Invoices /\ r.row \in InvoiceRow /\ r.path \in Paths
  BY MovingSession DEF IInv, MoveSession
<1>2. /\ now \in InvoiceRow
      /\ new \in InvoiceRow
      /\ new.status = r.path[Len(r.path)]
      /\ Older(now, new)
      /\ new.upfront # None => new.upfront = Share(new.total, 70)
      /\ new.balance # None => new.balance = Share(new.total, 30)
      /\ new.upfront # None <=> now.upfront # None \/ r.path = <<"issued">>
      /\ new.balance # None <=> now.balance # None \/ r.path = <<"issued">>
      /\ new.issued_at <=> now.issued_at \/ r.path = <<"issued">>
      /\ new.upfront_paid_at <=> now.upfront_paid_at \/ r.path = <<"upfront_paid">>
      /\ new.balance_paid_at <=> now.balance_paid_at \/ r.path = <<"fully_paid">>
  BY CommitFacts
<1>3. /\ Len(r.path) \in {1, 2}
      /\ added \in Seq(LogRow)
      /\ Len(added) = Len(r.path)
      /\ \A k \in 1 .. Len(r.path) : added[k].to = r.path[k]
  BY <1>1, EntriesFacts
<1>4. /\ invoice' = [invoice EXCEPT ![i] = new]
      /\ log' = [log EXCEPT ![i] = @ \o added]
  BY DEF Moving, InvoicesAfter, LogAfter
<1>5. now # None /\ new # None
  BY <1>2, NullAssumption
<1>6. log[i] \in Seq(LogRow)
  BY <1>1 DEF IInv, TypeOK
<1>7. /\ Mentions(added, "issued") <=> r.path = <<"issued">>
      /\ Mentions(added, "upfront_paid") <=> r.path = <<"upfront_paid">>
      /\ Mentions(added, "fully_paid") <=> r.path = <<"fully_paid">>
  BY <1>1, <1>3 DEF Paths, Mentions
<1> HIDE DEF new, now, added
<1>8. TypeOK'
  <2>1. log[i] \o added \in Seq(LogRow)
    BY <1>3, <1>6
  <2> QED
    BY <1>1, <1>2, <1>4, <2>1 DEF IInv, TypeOK
<1>9. LogEndsAtStatus'
  <2>1. /\ log'[i] = log[i] \o added
        /\ invoice'[i] = new
    BY <1>1, <1>4 DEF IInv, TypeOK
  <2>2. log'[i] # << >> /\ log'[i][Len(log'[i])] = added[Len(added)]
    <3>1. Len(added) > 0
      BY <1>3
    <3>2. log[i] \o added # << >> /\ (log[i] \o added)[Len(log[i] \o added)] = added[Len(added)]
      BY <1>3, <1>6, <3>1, AppendFacts
    <3> QED
      BY <2>1, <3>2
  <2>3. log'[i][Len(log'[i])].to = invoice'[i].status
    BY <1>2, <1>3, <2>1, <2>2
  <2>4. \A j \in Invoices \ {i} : invoice'[j] = invoice[j] /\ log'[j] = log[j]
    BY <1>4 DEF IInv, TypeOK
  <2> QED
    BY <1>5, <2>1, <2>2, <2>3, <2>4 DEF IInv, LogEndsAtStatus
<1>10. MoneyIsLogged'
  <2>1. /\ log'[i] = log[i] \o added
        /\ invoice'[i] = new
    BY <1>1, <1>4 DEF IInv, TypeOK
  <2>2. ASSUME NEW status
        PROVE  Mentions(log'[i], status) <=> Logged(i, status) \/ Mentions(added, status)
    <3>1. Len(added) > 0
      BY <1>3
    <3>2. Mentions(log[i] \o added, status) <=>
              Mentions(log[i], status) \/ Mentions(added, status)
      BY <1>3, <1>6, <3>1, AppendFacts
    <3> QED
      BY <2>1, <3>2, Zenon DEF Logged, Mentions
  <2>3. /\ Mentions(log'[i], "issued") <=> new.issued_at
        /\ new.issued_at <=> new.upfront # None
        /\ new.issued_at <=> new.balance # None
        /\ Mentions(log'[i], "upfront_paid") <=> new.upfront_paid_at
        /\ Mentions(log'[i], "fully_paid") <=> new.balance_paid_at
    BY <1>1, <1>2, <1>5, <1>7, <2>2 DEF IInv, MoneyIsLogged, now
  <2>4. \A j \in Invoices \ {i} : invoice'[j] = invoice[j] /\ log'[j] = log[j]
    BY <1>4 DEF IInv, TypeOK
  <2> QED
    <3> SUFFICES ASSUME NEW j \in Invoices, invoice'[j] # None
                 PROVE  /\ Logged(j, "issued")' <=> invoice'[j].issued_at
                        /\ invoice'[j].issued_at <=> invoice'[j].upfront # None
                        /\ invoice'[j].issued_at <=> invoice'[j].balance # None
                        /\ Logged(j, "upfront_paid")' <=> invoice'[j].upfront_paid_at
                        /\ Logged(j, "fully_paid")' <=> invoice'[j].balance_paid_at
      BY DEF MoneyIsLogged
    <3>1. CASE j = i
      BY <2>1, <2>3, <3>1, Zenon DEF Logged, Mentions
    <3>2. CASE j # i
      BY <2>4, <3>2 DEF IInv, MoneyIsLogged, Logged
    <3> QED
      BY <3>1, <3>2
<1>11. AmountsAreShares'
  BY <1>1, <1>2, <1>4 DEF IInv, TypeOK, AmountsAreShares
<1>12. LoadedRowsAge'
  <2> SUFFICES ASSUME NEW o \in Sessions, Moving(o)'
               PROVE  /\ invoice'[sess'[o].invoice] # None
                      /\ Older(sess'[o].row, invoice'[sess'[o].invoice])
                      /\ <<sess'[o].row.status, sess'[o].path[1]>> \in ValidTransitions
    BY DEF LoadedRowsAge, Older, Moving
  <2>1. o # s /\ sess'[o] = sess[o] /\ Moving(o)
    BY DEF IInv, TypeOK, Moving
  <2>2. /\ sess[o].invoice \in Invoices
        /\ invoice[sess[o].invoice] # None
        /\ Older(sess[o].row, invoice[sess[o].invoice])
        /\ <<sess[o].row.status, sess[o].path[1]>> \in ValidTransitions
    BY <2>1, MovingSession DEF IInv, LoadedRowsAge, MoveSession
  <2>3. CASE sess[o].invoice = i
    <3>1. invoice'[i] = new
      BY <1>1, <1>4 DEF IInv, TypeOK
    <3>2. Older(sess[o].row, new)
      BY <1>2, <2>2, <2>3 DEF Older, now
    <3> QED
      BY <1>5, <2>1, <2>2, <2>3, <3>1, <3>2
  <2>4. CASE sess[o].invoice # i
    BY <1>4, <2>1, <2>2, <2>4 DEF IInv, TypeOK
  <2> QED
    BY <2>3, <2>4
<1> QED
  BY <1>8, <1>9, <1>10, <1>11, <1>12 DEF IInv

\* A handler that moves an invoice.
LEMMA MoveOpens ==
    ASSUME IInv, NEW s \in Sessions, NEW i \in Invoices, NEW op \in Ops \ {"create"},
           NEW path \in Paths, Move(s, i, op, path)
    PROVE  IInv'
<1> DEFINE request == [op |-> op, invoice |-> i, row |-> invoice[i], path |-> path]
<1>1. invoice[i] \in InvoiceRow
  BY DEF Move, IInv, TypeOK
<1>2. request \in MoveSession
  BY <1>1 DEF MoveSession
<1>3. Open(s, request) /\ invoice[i] # None /\ <<invoice[i].status, path[1]>> \in ValidTransitions
  BY DEF Move
<1> QED
  BY <1>2, <1>3, OpenInv

LEMMA NextInv == IInv /\ [Next]_vars => IInv'
<1> SUFFICES ASSUME IInv, [Next]_vars
             PROVE  IInv'
  OBVIOUS
<1>1. ASSUME NEW s \in Sessions, NEW i \in Invoices, NEW total \in Totals, Create(s, i, total)
      PROVE  IInv'
  <2> DEFINE request == [op |-> "create", invoice |-> i, total |-> total]
  <2>1. request \in CreateSession /\ request.op = "create" /\ Open(s, request)
    BY <1>1 DEF Create, CreateSession
  <2> HIDE DEF request
  <2> QED
    BY <2>1, OpenInv
<1>2. ASSUME NEW s \in Sessions, NEW i \in Invoices, Issue(s, i)
      PROVE  IInv'
  <2>1. <<"issued">> \in Paths /\ "issue" \in Ops \ {"create"}
    BY StatusSet DEF Paths, Ops
  <2> QED
    BY <1>2, <2>1, MoveOpens DEF Issue
<1>3. ASSUME NEW s \in Sessions, NEW i \in Invoices, VerifyPod(s, i)
      PROVE  IInv'
  <2>1. <<"pod_captured", "pod_verified">> \in Paths /\ "verify_pod" \in Ops \ {"create"}
    BY DEF Paths, Ops
  <2> QED
    BY <1>3, <2>1, MoveOpens DEF VerifyPod
<1>4. ASSUME NEW s \in Sessions, NEW i \in Invoices, NEW new \in InvoiceStatus, Advance(s, i, new)
      PROVE  IInv'
  <2>1. <<new>> \in Paths /\ "advance" \in Ops \ {"create"}
    BY DEF Paths, Ops
  <2> QED
    BY <1>4, <2>1, MoveOpens DEF Advance
<1>5. ASSUME NEW s \in Sessions, Respond(s)
      PROVE  IInv'
  <2>1. CASE sess[s].op \notin Commits
    BY <1>5, <2>1, AbortInv DEF Respond
  <2>2. CASE sess[s].op \in Commits /\ sess[s].op = "create"
    BY <1>5, <2>2, CreateInv DEF Respond
  <2>3. CASE sess[s].op \in Commits /\ sess[s].op # "create"
    BY <1>5, <2>3, MoveInv DEF Respond, Moving
  <2> QED
    BY <2>1, <2>2, <2>3
<1>6. ASSUME NEW s \in Sessions, Abort(s)
      PROVE  IInv'
  BY <1>6, AbortInv DEF Abort
<1>7. CASE UNCHANGED vars
  BY <1>7 DEF vars, IInv, TypeOK, LogEndsAtStatus, MoneyIsLogged, LoadedRowsAge,
              AmountsAreShares, Logged, Moving, Older
<1> QED
  BY <1>1, <1>2, <1>3, <1>4, <1>5, <1>6, <1>7 DEF Next

\* The committed rows only age.
LEMMA StepAges ==
    ASSUME IInv, [Next]_vars, NEW i \in Invoices, invoice[i] # None
    PROVE  invoice'[i] # None /\ Older(invoice[i], invoice'[i])
<1>1. CASE invoice' = invoice
  BY <1>1 DEF Older
<1>2. ASSUME NEW s \in Sessions, Respond(s), sess[s].op \in Commits
      PROVE  invoice'[i] # None /\ Older(invoice[i], invoice'[i])
  <2>1. CASE sess[s].op = "create"
    <3>1. sess[s].invoice # i
      BY <1>2, <2>1 DEF Respond, Duplicate
    <3> QED
      BY <1>2, <2>1, <3>1 DEF Respond, InvoicesAfter, IInv, TypeOK, Older
  <2>2. CASE sess[s].op # "create"
    <3>1. Moving(s)
      BY <1>2, <2>2 DEF Respond, Moving
    <3> DEFINE new == Flushed(invoice[sess[s].invoice], sess[s].row, Walk(sess[s].row, sess[s].path))
    <3>2. new \in InvoiceRow /\ Older(invoice[sess[s].invoice], new)
      BY <3>1, CommitFacts
    <3>3. invoice' = [invoice EXCEPT ![sess[s].invoice] = new]
      BY <1>2, <2>2 DEF Respond, InvoicesAfter
    <3> HIDE DEF new
    <3> QED
      BY <3>2, <3>3, NullAssumption DEF IInv, TypeOK, Older
  <2> QED
    BY <2>1, <2>2
<1> QED
  BY <1>1, <1>2 DEF Next, vars, db, Create, Issue, VerifyPod, Advance, Move, Open, Respond, Abort

-----------------------------------------------------------------------------
(***************************************************************************)
(* The inductive invariant holds in every reachable state.                 *)
(***************************************************************************)
THEOREM Invariance == Spec => []IInv
BY InitInv, NextInv, PTL DEF Spec

(***************************************************************************)
(* Tables and sessions hold the rows the models declare.                   *)
(***************************************************************************)
THEOREM TypeCorrect == Spec => []TypeOK
<1>1. IInv => TypeOK
  BY DEF IInv
<1> QED
  BY <1>1, Invariance, PTL

(***************************************************************************)
(* The last row of the append-only log is the status of the invoice,       *)
(* however many stale handlers have written (state_machines/invoice.py).   *)
(***************************************************************************)
THEOREM LogMatchesStatus == Spec => []LogEndsAtStatus
<1>1. IInv => LogEndsAtStatus
  BY DEF IInv
<1> QED
  BY <1>1, Invariance, PTL

(***************************************************************************)
(* Shares, issued_at and payment stamps agree with the log.                *)
(***************************************************************************)
THEOREM MoneyMatchesLog == Spec => []MoneyIsLogged
<1>1. IInv => MoneyIsLogged
  BY DEF IInv
<1> QED
  BY <1>1, Invariance, PTL

(***************************************************************************)
(* The shares of every issued invoice add up to its total, or to one cent  *)
(* more exactly when the total ends in 5.                                  *)
(***************************************************************************)
THEOREM SplitIsWithinACent == Spec => []SplitExcess
<1>1. IInv => SplitExcess
  <2> SUFFICES ASSUME IInv, NEW i \in Invoices, invoice[i] # None, invoice[i].issued_at
               PROVE  invoice[i].upfront + invoice[i].balance =
                          invoice[i].total + (IF invoice[i].total % 10 = 5 THEN 1 ELSE 0)
    BY DEF SplitExcess
  <2>1. invoice[i].total \in Nat
    BY DEF IInv, TypeOK, InvoiceRow
  <2>2. /\ invoice[i].upfront = Share(invoice[i].total, 70)
        /\ invoice[i].balance = Share(invoice[i].total, 30)
    BY DEF IInv, MoneyIsLogged, AmountsAreShares
  <2> DEFINE total == invoice[i].total
  <2>3. Share(total, 70) + Share(total, 30) = total + (IF total % 10 = 5 THEN 1 ELSE 0)
    <3> HIDE DEF total
    <3>1. total \in Nat
      BY <2>1 DEF total
    <3> QED
      BY <3>1, SplitRounding
  <2> QED
    BY <2>2, <2>3
<1> QED
  BY <1>1, Invariance, PTL

(***************************************************************************)
(* No session, stale or not, changes the total or a computed share.        *)
(***************************************************************************)
THEOREM AmountsAreFrozen == Spec => FrozenAmounts
<1>1. IInv /\ [Next]_vars =>
        [\A i \in Invoices :
            invoice[i] # None =>
                /\ invoice'[i] # None
                /\ invoice'[i].total = invoice[i].total
                /\ invoice[i].upfront # None => invoice'[i].upfront = invoice[i].upfront
                /\ invoice[i].balance # None => invoice'[i].balance = invoice[i].balance]_invoice
  BY StepAges DEF Older
<1> QED
  BY <1>1, Invariance, PTL DEF Spec, FrozenAmounts

-----------------------------------------------------------------------------
(* Every step on the tables is an operation of the promise, unless it ends *)
(* a session that another one has overtaken.                               *)

LEMMA ShareIsNearest ==
    ASSUME NEW total \in Nat
    PROVE  /\ Promise!NearestShare(Share(total, 70), total, 70)
           /\ Promise!NearestShare(Share(total, 30), total, 30)
BY SMTT(30) DEF Share, Promise!NearestShare

LEMMA BriefFacts ==
    ASSUME NEW row \in InvoiceRow
    PROVE  /\ Brief(row) = [status |-> row.status, total |-> row.total,
                            upfront |-> row.upfront, balance |-> row.balance]
           /\ Brief(row) # None
<1>1. row # None
  BY NullAssumption
<1> QED
  BY <1>1, NullBriefAssumption DEF Brief, InvoiceRow

\* What the abstract table becomes when one row does.
LEMMA BriefExcept ==
    ASSUME invoice \in [Invoices -> InvoiceRow \union {None}], NEW i \in Invoices,
           NEW new \in InvoiceRow, invoice' = [invoice EXCEPT ![i] = new]
    PROVE  [j \in Invoices |-> Brief(invoice'[j])] =
               [[j \in Invoices |-> Brief(invoice[j])] EXCEPT ![i] = Brief(new)]
<1>1. invoice'[i] = new /\ \A j \in Invoices \ {i} : invoice'[j] = invoice[j]
  OBVIOUS
<1> QED
  BY <1>1

\* A transition that is not the issuing touches nothing of the abstract row
\* but its status.
LEMMA BriefMove ==
    ASSUME NEW row \in InvoiceRow, NEW w \in InvoiceRow,
           w.total = row.total, w.upfront = row.upfront, w.balance = row.balance
    PROVE  Brief(w) = [Brief(row) EXCEPT !.status = w.status]
BY BriefFacts

LEMMA BriefIssue ==
    ASSUME NEW row \in InvoiceRow, NEW w \in InvoiceRow,
           w.total = row.total, w.status = "issued"
    PROVE  Brief(w) = [Brief(row) EXCEPT !.status = "issued",
                                         !.upfront = w.upfront, !.balance = w.balance]
<1> DEFINE one == [status |-> "issued", total |-> row.total,
                   upfront |-> row.upfront, balance |-> row.balance]
           two == [status |-> "issued", total |-> row.total,
                   upfront |-> w.upfront, balance |-> row.balance]
<1>1. [Brief(row) EXCEPT !.status = "issued"] = one
  BY BriefFacts
<1>2. [one EXCEPT !.upfront = w.upfront] = two
  OBVIOUS
<1>3. [two EXCEPT !.balance = w.balance] = Brief(w)
  BY BriefFacts
<1> HIDE DEF one, two
<1> QED
  BY <1>1, <1>2, <1>3, Zenon

LEMMA Creates ==
    ASSUME IInv, NEW s \in Sessions, Respond(s),
           sess[s].op \in Commits, sess[s].op = "create"
    PROVE  Promise!Create(sess[s].invoice) /\ sess[s].invoice \in Invoices
<1> DEFINE r   == sess[s]
           new == NewInvoice(r.total)
<1>1. r \in CreateSession
  BY DEF IInv, TypeOK, MoveSession, Idle
<1>2. /\ r.invoice \in Invoices /\ r.total \in Nat
      /\ invoice[r.invoice] = None
      /\ invoice' = [invoice EXCEPT ![r.invoice] = new] /\ log' = log
  BY <1>1, InvoiceAssumption DEF CreateSession, Respond, Duplicate, InvoicesAfter, LogAfter
<1>3. new \in InvoiceRow
  BY <1>2, StatusSet DEF NewInvoice, InvoiceRow
<1>4. Brief(new) = [status |-> "draft", total |-> r.total, upfront |-> None, balance |-> None]
  BY <1>3, BriefFacts DEF NewInvoice
<1>5. Brief(new) # None /\ Brief(new).total = r.total
  BY <1>3, <1>4, BriefFacts
<1> HIDE DEF r, new
<1>6. [j \in Invoices |-> Brief(invoice'[j])] =
          [[j \in Invoices |-> Brief(invoice[j])] EXCEPT ![r.invoice] = Brief(new)]
  BY <1>2, <1>3, BriefExcept DEF IInv, TypeOK
<1>7. Brief(invoice'[r.invoice]) = Brief(new) /\ Brief(invoice[r.invoice]) = None
  BY <1>2 DEF IInv, TypeOK, Brief
<1>8. Promise!Create(r.invoice)
  BY <1>2, <1>4, <1>5, <1>6, <1>7 DEF Promise!Create
<1> QED
  BY <1>2, <1>8 DEF r

\* A session that nobody has overtaken stores the row it walked.
LEMMA WalkIsStored ==
    ASSUME IInv, NEW s \in Sessions, Respond(s), sess[s].op \in Commits,
           sess[s].op # "create", ~ Overtaken(s)
    PROVE  LET r == sess[s]
               w == Walk(r.row, r.path)
           IN
           /\ r.invoice \in Invoices /\ r.row \in InvoiceRow /\ r.path \in Paths
           /\ w \in InvoiceRow
           /\ <<r.row.status, r.path[1]>> \in ValidTransitions
           /\ invoice[r.invoice] = r.row
           /\ invoice' = [invoice EXCEPT ![r.invoice] = w]
           /\ log' = [log EXCEPT ![r.invoice] = @ \o Entries(r.row, r.path)]
<1> DEFINE r == sess[s]
           w == Walk(r.row, r.path)
<1>1. Moving(s)
  BY DEF Respond, Moving
<1>2. r.invoice \in Invoices /\ r.row \in InvoiceRow /\ r.path \in Paths
  BY <1>1, MovingSession DEF IInv, MoveSession
<1>3. <<r.row.status, r.path[1]>> \in ValidTransitions
  BY <1>1 DEF IInv, LoadedRowsAge
<1>4. w \in InvoiceRow
  BY <1>2, <1>3, WalkFacts
<1>5. invoice[r.invoice] = r.row
  BY <1>1 DEF Overtaken, Moving
<1>6. Flushed(r.row, r.row, w) = w
  <2> HIDE DEF r, w
  <2> QED
    BY <1>2, <1>4 DEF Flushed, InvoiceRow
<1>7. /\ invoice' = [invoice EXCEPT ![r.invoice] = Flushed(invoice[r.invoice], r.row, w)]
      /\ log' = [log EXCEPT ![r.invoice] = @ \o Entries(r.row, r.path)]
  BY DEF Respond, InvoicesAfter, LogAfter
<1> HIDE DEF r, w
<1>8. invoice' = [invoice EXCEPT ![r.invoice] = w]
  BY <1>5, <1>6, <1>7
<1> QED
  BY <1>2, <1>3, <1>4, <1>5, <1>7, <1>8 DEF r, w

\* The abstract operation of each path.
LEMMA WalkKeepsPromise ==
    ASSUME IInv, NEW i \in Invoices, NEW row \in InvoiceRow, NEW path \in Paths,
           <<row.status, path[1]>> \in ValidTransitions,
           invoice[i] = row,
           invoice' = [invoice EXCEPT ![i] = Walk(row, path)],
           log' = [log EXCEPT ![i] = @ \o Entries(row, path)]
    PROVE  Promise!Issue(i) \/ Promise!Advance(i) \/ Promise!VerifyPod(i) \/ Promise!Cancel(i)
<1> DEFINE w   == Walk(row, path)
           old == [j \in Invoices |-> Brief(invoice[j])]
           new == [j \in Invoices |-> Brief(invoice'[j])]
<1>1. /\ w \in InvoiceRow
      /\ w.status = path[Len(path)]
      /\ w.total = row.total
      /\ w.upfront = IF path = <<"issued">> THEN Share(row.total, 70) ELSE row.upfront
      /\ w.balance = IF path = <<"issued">> THEN Share(row.total, 30) ELSE row.balance
  BY WalkFacts
<1> HIDE DEF w
<1>2. new = [old EXCEPT ![i] = Brief(w)]
  BY <1>1, BriefExcept DEF IInv, TypeOK, w
<1>3. /\ old[i] = Brief(row) /\ new[i] = Brief(w)
      /\ Brief(row) # None
      /\ Brief(row).status = row.status /\ Brief(row).total = row.total
      /\ Brief(w).upfront = w.upfront /\ Brief(w).balance = w.balance
  <2>1. old[i] = Brief(row)
    OBVIOUS
  <2>2. new[i] = Brief(w)
    BY <1>2
  <2> QED
    BY <1>1, <2>1, <2>2, BriefFacts
<1>4. CASE path = <<"issued">>
  <2>1. row.status = "draft"
    BY <1>4 DEF ValidTransitions
  <2>2. w.status = "issued" /\ w.upfront = Share(row.total, 70) /\ w.balance = Share(row.total, 30)
    BY <1>1, <1>4
  <2>3. Brief(w) = [Brief(row) EXCEPT !.status = "issued",
                                      !.upfront = w.upfront, !.balance = w.balance]
    BY <1>1, <2>2, BriefIssue
  <2>4. /\ Promise!NearestShare(w.upfront, row.total, 70)
        /\ Promise!NearestShare(w.balance, row.total, 30)
    <3>1. row.total \in Nat
      BY DEF InvoiceRow
    <3>2. /\ Promise!NearestShare(Share(row.total, 70), row.total, 70)
          /\ Promise!NearestShare(Share(row.total, 30), row.total, 30)
      BY <3>1, ShareIsNearest
    <3> QED
      BY <2>2, <3>2
  <2>5. Entries(row, path) = <<Promise!Step("draft", "issued")>>
    BY <1>4, <2>1 DEF Entries, Promise!Step
  <2> HIDE DEF old, new
  <2>6. /\ old[i] # None /\ old[i].status = "draft" /\ old[i].total = row.total
        /\ new[i].upfront = w.upfront /\ new[i].balance = w.balance
    BY <1>3, <2>1
  <2>7. new = [old EXCEPT ![i] = [old[i] EXCEPT !.status = "issued",
                                    !.upfront = new[i].upfront, !.balance = new[i].balance]]
    BY <1>2, <1>3, <2>3, <2>6
  <2>8. Promise!Issue(i)
    BY <2>4, <2>5, <2>6, <2>7 DEF Promise!Issue, Promise!Record, old, new
  <2> QED
    BY <2>8
<1>5. CASE path = <<"pod_captured", "pod_verified">>
  <2>1. row.status = "in_transit"
    BY <1>5 DEF ValidTransitions
  <2>2. w.status = "pod_verified" /\ w.upfront = row.upfront /\ w.balance = row.balance
    BY <1>1, <1>5
  <2>3. Brief(w) = [Brief(row) EXCEPT !.status = "pod_verified"]
    BY <1>1, <2>2, BriefMove
  <2>4. Entries(row, path) = <<Promise!Step("in_transit", "pod_captured"),
                               Promise!Step("pod_captured", "pod_verified")>>
    BY <1>5, <2>1 DEF Entries, Promise!Step
  <2> HIDE DEF old, new
  <2>5. Promise!VerifyPod(i)
    BY <1>2, <1>3, <2>1, <2>3, <2>4 DEF Promise!VerifyPod, Promise!Record, old, new
  <2> QED
    BY <2>5
<1>6. ASSUME NEW to \in InvoiceStatus, path = <<to>>, to # "issued"
      PROVE  Promise!Advance(i) \/ Promise!Cancel(i)
  <2>1. w.status = to /\ w.upfront = row.upfront /\ w.balance = row.balance
    BY <1>1, <1>6
  <2>2. Brief(w) = [Brief(row) EXCEPT !.status = to]
    BY <1>1, <2>1, BriefMove
  <2>3. Entries(row, path) = <<Promise!Step(row.status, to)>>
    BY <1>6 DEF Entries, Promise!Step
  <2>4. <<row.status, to>> \in ValidTransitions
    BY <1>6
  <2> HIDE DEF old, new
  <2>5. CASE to = "cancelled"
    <3>1. row.status \in {"draft", "issued", "upfront_requested"}
      BY <2>4, <2>5 DEF ValidTransitions
    <3>2. row.status \in Promise!Unpaid
      BY <3>1 DEF Promise!Unpaid, Promise!Milestones
    <3> QED
      BY <1>2, <1>3, <2>2, <2>3, <2>5, <3>2 DEF Promise!Cancel, Promise!Record, old, new
  <2>6. CASE to # "cancelled"
    <3>1. PICK n \in 2 .. Len(Promise!Milestones) - 1 :
              row.status = Promise!Milestones[n] /\ to = Promise!Milestones[n + 1]
      <4>1. <<row.status, to>> \in {<<Promise!Milestones[n], Promise!Milestones[n + 1]>> :
                                       n \in 2 .. 8}
        BY <1>6, <2>4, <2>6 DEF ValidTransitions, Promise!Milestones
      <4>2. Len(Promise!Milestones) = 9
        BY DEF Promise!Milestones
      <4> QED
        BY <4>1, <4>2
    <3> QED
      BY <1>2, <1>3, <2>2, <2>3, <3>1 DEF Promise!Advance, Promise!Record, old, new
  <2> QED
    BY <2>5, <2>6
<1> QED
  BY <1>4, <1>5, <1>6 DEF Paths

(***************************************************************************)
(* The refinement, step by step: whatever overlaps, fails or dies, an      *)
(* invoice and its log change by one operation of the promise at a time,   *)
(* with the milestone rows it calls for, unless a session ends that        *)
(* another one has overtaken (services/invoice.py,                         *)
(* state_machines/invoice.py:33-104).                                      *)
(***************************************************************************)
THEOREM StepsKeepPromise == Spec => AtomicUnlessOvertaken
<1> DEFINE Keeps ==
        db # db' => \/ \E s \in Sessions : Overtaken(s) /\ Respond(s)
                    \/ Promise!Next
<1>1. IInv /\ [Next]_vars => [Keeps]_db
  <2> SUFFICES ASSUME IInv, Next, db' # db,
                      ~ \E s \in Sessions : Overtaken(s) /\ Respond(s)
               PROVE  Promise!Next
    BY DEF vars, db
  <2>1. PICK s \in Sessions : Respond(s) /\ sess[s].op \in Commits
    BY DEF Next, db, Create, Issue, VerifyPod, Advance, Move, Open, Respond, Abort
  <2>2. CASE sess[s].op = "create"
    BY <2>1, <2>2, Creates DEF Promise!Next
  <2>3. CASE sess[s].op # "create"
    <3> DEFINE r == sess[s]
    <3>1. /\ r.invoice \in Invoices /\ r.row \in InvoiceRow /\ r.path \in Paths
          /\ <<r.row.status, r.path[1]>> \in ValidTransitions
          /\ invoice[r.invoice] = r.row
          /\ invoice' = [invoice EXCEPT ![r.invoice] = Walk(r.row, r.path)]
          /\ log' = [log EXCEPT ![r.invoice] = @ \o Entries(r.row, r.path)]
      BY <2>1, <2>3, WalkIsStored
    <3> HIDE DEF r
    <3>2. \/ Promise!Issue(r.invoice) \/ Promise!Advance(r.invoice)
          \/ Promise!VerifyPod(r.invoice) \/ Promise!Cancel(r.invoice)
      BY <3>1, WalkKeepsPromise
    <3> QED
      BY <3>1, <3>2 DEF Promise!Next
  <2> QED
    BY <2>2, <2>3
<1> QED
  BY <1>1, Invariance, PTL DEF Spec, AtomicUnlessOvertaken
=============================================================================

--------------------------- MODULE SyncProperties ----------------------------
(***************************************************************************)
(* What holds of the outbox, and what the worker job promises.             *)
(***************************************************************************)
EXTENDS SyncOutbox

(***************************************************************************)
(* An event that the phone was told is stored, and that it therefore       *)
(* forgets, has a row: batches that fail half-way, are sent again or       *)
(* overlap never lose one (services/sync.py:17-49, api/v1/sync.py:20-36).  *)
(* The row may be another tenant's, since the key is looked up without it. *)
(***************************************************************************)
AcknowledgedIsStored == \A a \in acked : Copies(a[2]) > 0

(***************************************************************************)
(* The table has no UNIQUE key: only the SELECT before the INSERT          *)
(* (services/sync.py:21-32) keeps an event from being stored again.        *)
(* Batches that overlap pass it together, but a later one never does: an   *)
(* event has at most as many rows as there can be open batches, however    *)
(* often it is sent.                                                       *)
(***************************************************************************)
CopiesBounded == \A key \in Keys : Copies(key) <= Cardinality(Sessions)

(***************************************************************************)
(* "Process pending sync events for a tenant." (tasks/worker.py:75): an    *)
(* event that was stored is processed in the end.                          *)
(***************************************************************************)
PendingIsProcessed ==
    \A i \in 1 .. MaxRows : (Len(rows) >= i) ~> (Len(rows) >= i /\ rows[i].processed)
=============================================================================

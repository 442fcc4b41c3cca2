------------------------ MODULE TripAwardProperties -------------------------
(***************************************************************************)
(* What TripAward guarantees, and two statements of the repository that it *)
(* does not.                                                               *)
(***************************************************************************)
EXTENDS TripAward

\* The promise, on the committed tables.
Brief(row) ==
    IF row = None THEN None
    ELSE [driver |-> row.driver, vehicle |-> row.vehicle, status |-> row.status,
          submitted_at |-> row.submitted_at, fit |-> row.evidence = "high"]

\* NULL is not an abridged row either, and a NULL cross check is not a high one.
ASSUME NullBriefAssumption ==
    /\ None \notin [driver : Drivers \union {None}, vehicle : Vehicles \union {None},
                    status : PackStatus, submitted_at : Nat, fit : BOOLEAN]
    /\ None # "high"

Promise == INSTANCE TripAwardPromise WITH pack <- [p \in Packs |-> Brief(pack[p])]

\* Session s derived its writes from something that has changed since: its
\* row, the answer of the gate, or the list of packs to expire.
Overtaken(s) ==
    LET r == sess[s] IN
    \/ /\ r.op \in TripOps
       /\ \/ trip[r.trip] # r.row
          \/ r.op \in AssignOps /\ ~ GateOpen(pack, r.driver, r.vehicle)
    \/ r.op \in PackOps /\ pack[r.pack] # r.row
    \/ r.op = "sweep" /\ r.rows # Selected(pack, today)

(***************************************************************************)
(* The handlers hold rows across awaits without locks.  Whatever overlaps, *)
(* each step on the committed tables is one operation of the promise       *)
(* applied to the current rows (gate open, transition legal, expiry due),  *)
(* unless it ends a session that another one has overtaken.  In            *)
(* particular sessions that do not overlap keep the promise.               *)
(***************************************************************************)
AtomicUnlessOvertaken ==
    [][db # db' => \/ \E s \in Sessions : Overtaken(s) /\ Respond(s)
                  \/ Promise!Next]_db

(***************************************************************************)
(* A pack in status manually_cleared has been flagged and was cleared by a *)
(* reviewer, also when expiry, resubmission, automatic verification and    *)
(* two reviewers race for the row: no interleaving puts a pack that nobody *)
(* reviewed among the cleared ones (state_machines/drivers_pack.py:58-62). *)
(***************************************************************************)
ClearedWasFlagged ==
    \A p \in Packs : pack[p] # None /\ pack[p].status = "manually_cleared" =>
        pack[p].flagged_at /\ pack[p].cleared_at

(***************************************************************************)
(* The parties of a trip move only to those an assign request names, in    *)
(* the step that ends it.  An award, which goes through the same service   *)
(* call with the parties it LOADED, and every other handler leave alone    *)
(* what a concurrent assignment stored (services/trip.py:112-116).         *)
(***************************************************************************)
OnlyAssignMovesParties ==
    [][\A t \in Trips :
        trip[t] # None /\ trip'[t] # None =>
            \/ trip'[t].driver = trip[t].driver /\ trip'[t].vehicle = trip[t].vehicle
            \/ \E s \in Sessions :
                 /\ sess[s].op = "assign" /\ sess[s].trip = t /\ sess'[s] = Idle
                 /\ trip'[t].driver  \in {trip[t].driver,  sess[s].driver}
                 /\ trip'[t].vehicle \in {trip[t].vehicle, sess[s].vehicle}]_vars

-----------------------------------------------------------------------------
(***************************************************************************)
(* What a 200 or a 201 tells the client is in the tables.  "Create a new   *)
(* trip." (api/v1/trips.py:49)                                             *)
(***************************************************************************)
AcknowledgedIsDurable ==
    [][\A s \in Sessions :
        Respond(s) => trip' = TripsAfter(sess[s]) /\ pack' = PacksAfter(sess[s])]_vars

(***************************************************************************)
(* "Any state -> expired: Scheduled Taskiq job"                            *)
(* (state_machines/drivers_pack.py:9): a run of the job that nobody        *)
(* overtakes leaves no outdated pack in another state.                     *)
(***************************************************************************)
SweepReachesAnyState ==
    [][\A s \in Sessions :
        sess[s].op = "sweep" /\ ~ Overtaken(s) /\ Respond(s) =>
            \A p \in Packs : pack[p] # None /\ pack[p].submitted_at + ExpiryDays < sess[s].day =>
                pack'[p].status = "expired"]_vars
=============================================================================

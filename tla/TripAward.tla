----------------------------- MODULE TripAward ------------------------------
(***************************************************************************)
(* Trips, driver's packs and the gate between them, as database sessions   *)
(* that overlap: src/app/services/trip.py and drivers_pack.py under the    *)
(* routes of api/v1/trips.py, api/v1/drivers_packs.py,                     *)
(* api/public/carrier_portal.py and the expiry job of tasks/worker.py.     *)
(*                                                                         *)
(* A request (or a run of the job) is a session.  It loads its row, an     *)
(* assignment then queries the gate, and at the end the handler writes     *)
(* what it derived from the LOADED row and answers.  Any number of other   *)
(* sessions run between these steps.                                       *)
(*                                                                         *)
(* Whether the caller commits is a constant.  The services only flush.     *)
(* Of the callers in the repository only carrier_accept and the expiry job *)
(* commit, Commits = {"accept", "sweep"}: get_db closes every other        *)
(* session without a commit, which rolls it back.  With Commits = Ops the  *)
(* model is the service layer under callers that all commit.               *)
(*                                                                         *)
(* Left out: the carrier, written with the driver and the vehicle and read *)
(* by no rule, the texts and dates of a trip, and the document             *)
(* requirements that a new trip gets.                                      *)
(***************************************************************************)
EXTENDS DriversPack, OrmSession

CONSTANTS
    Sessions,  \* database sessions that may be open at the same time
    Trips,     \* trip ids
    Packs,     \* pack ids
    Holders,   \* the <<driver, vehicle>> pairs that packs are created for
    Commits,   \* the operations whose caller commits
    MaxDay     \* bound on the day counter

AssignOps   == {"assign", "award"}
ProgressOps == {"begin_transit", "complete", "cancel"}
TripOps     == AssignOps \union ProgressOps \union {"accept"}
PackOps     == {"clear", "verify", "resubmit"}
Ops         == TripOps \union PackOps \union {"create_trip", "create_pack", "sweep"}

ASSUME AwardAssumption ==
    /\ None \notin Trips
    /\ None \notin Packs
    /\ Holders \subseteq (Drivers \union {None}) \X (Vehicles \union {None})
    /\ Commits \subseteq Ops
    /\ MaxDay \in Nat

VARIABLES
    trip,   \* the committed trips table:   Trips -> TripRow or None
    pack,   \* the committed drivers_packs: Packs -> PackRow or None
    sess,   \* the open sessions
    today   \* the clock, in days

db   == <<trip, pack, today>>
vars == <<trip, pack, sess, today>>

-----------------------------------------------------------------------------
TripStatus == {"draft", "assigned", "in_transit", "completed", "cancelled"}

TripRow ==
    [status  : TripStatus,
     driver  : Drivers \union {None},
     vehicle : Vehicles \union {None}]

ASSUME NullTripAssumption == None \notin TripRow

\* Fault variant of NewTrip: a status that no handler knows.
NewTripOpen == [status |-> "open", driver |-> None, vehicle |-> None]

NewTrip == [status |-> "draft", driver |-> None, vehicle |-> None]

Idle == [op |-> "idle"]

\* A session that assigns: the parties to store, and whether the pack gate has
\* still to be queried.
AssignSession ==
    [op : AssignOps, trip : Trips, row : TripRow, gate : BOOLEAN,
     driver : Drivers \union {None}, vehicle : Vehicles \union {None}]

\* A session of another handler of an existing trip.
TripSession == [op : ProgressOps \union {"accept"}, trip : Trips, row : TripRow]

PackSession == [op : PackOps, pack : Packs, row : PackRow]

\* day: when the job computed its cutoff.  rows: the packs to expire as its
\* SELECT returned them, None elsewhere.
SweepSession == [op : {"sweep"}, day : Nat, rows : [Packs -> PackRow \union {None}]]

NewTripSession == [op : {"create_trip"}, trip : Trips]

NewPackSession == [op : {"create_pack"}, pack : Packs, holder : Holders]

TypeOK ==
    /\ trip \in [Trips -> TripRow \union {None}]
    /\ pack \in [Packs -> PackRow \union {None}]
    /\ sess \in [Sessions -> {Idle} \union AssignSession \union TripSession \union PackSession
                             \union SweepSession \union NewTripSession \union NewPackSession]
    /\ today \in Nat

Init ==
    /\ trip = [t \in Trips |-> None]
    /\ pack = [p \in Packs |-> None]
    /\ sess = [s \in Sessions |-> Idle]
    /\ today = 0

-----------------------------------------------------------------------------
(* Opening a session: authentication, the SELECT of the row, and the early *)
(* returns of the handler (404, 400) that depend on it.                    *)

Open(s, request) ==
    /\ sess[s] = Idle
    /\ sess' = [sess EXCEPT ![s] = request]
    /\ UNCHANGED <<trip, pack, today>>

\* POST /trips.  The id is fresh: no row and no other open session has it.
CreateTrip(s, t) ==
    /\ trip[t] = None
    /\ \A r \in Sessions : sess[r].op = "create_trip" => sess[r].trip # t
    /\ Open(s, [op |-> "create_trip", trip |-> t])

\* POST /trips/{id}/assign: TripAssign requires a driver and a vehicle.
Assign(s, t, d, v) ==
    /\ trip[t] # None
    /\ Open(s, [op |-> "assign", trip |-> t, row |-> trip[t], gate |-> TRUE,
                driver |-> d, vehicle |-> v])

\* POST /trips/{id}/award-contract: an assignment to the trip's own parties.
\* TripAssign rejects a NULL party, so a trip never assigned gets a 400.
Award(s, t) ==
    /\ trip[t] # None
    /\ trip[t].driver # None
    /\ trip[t].vehicle # None
    /\ Open(s, [op |-> "award", trip |-> t, row |-> trip[t], gate |-> TRUE,
                driver |-> trip[t].driver, vehicle |-> trip[t].vehicle])

\* POST /trips/{id}/begin-transit, /complete, /cancel: from any status.
Progress(s, t, op) ==
    /\ trip[t] # None
    /\ Open(s, [op |-> op, trip |-> t, row |-> trip[t]])

\* POST /carrier/{token}/accept: only a draft; the gate is not asked.
Accept(s, t) ==
    /\ trip[t] # None
    /\ trip[t].status = "draft"
    /\ Open(s, [op |-> "accept", trip |-> t, row |-> trip[t]])

\* POST /drivers-packs
CreatePack(s, p, h) ==
    /\ pack[p] = None
    /\ \A r \in Sessions : sess[r].op = "create_pack" => sess[r].pack # p
    /\ Open(s, [op |-> "create_pack", pack |-> p, holder |-> h])

PackTarget(op, row) ==
    CASE op = "clear"    -> "manually_cleared"
      [] op = "verify"   -> AutoVerdict(row)
      [] op = "resubmit" -> "pending"

\* POST /drivers-packs/{id}/clear, run_auto_verification, and the
\* resubmission of the transition table, which no route calls yet.
HandlePack(s, p, op) ==
    /\ pack[p] # None
    /\ MayMove(pack[p], PackTarget(op, pack[p]))
    /\ Open(s, [op |-> op, pack |-> p, row |-> pack[p]])

\* revalidate_drivers_packs: the SELECT of check_and_expire.
Selected(packs, day) ==
    [p \in Packs |-> IF packs[p] # None /\ IsDue(packs[p], day) THEN packs[p] ELSE None]

Sweep(s) == Open(s, [op |-> "sweep", day |-> today, rows |-> Selected(pack, today)])

-----------------------------------------------------------------------------
\* The gate query of TripService.assign, a second SELECT of the session; a
\* closed gate raises DriverPackGateError, a 400 that rolls back.
CheckGate(s) ==
    /\ sess[s].op \in AssignOps
    /\ sess[s].gate
    /\ sess' = [sess EXCEPT ![s] =
                    IF GateOpen(pack, sess[s].driver, sess[s].vehicle)
                    THEN [sess[s] EXCEPT !.gate = FALSE] ELSE Idle]
    /\ UNCHANGED <<trip, pack, today>>

\* The attributes the handler leaves on the loaded trip.
TripTarget(r) ==
    CASE r.op \in AssignOps ->
             [r.row EXCEPT !.status = "assigned", !.driver = r.driver, !.vehicle = r.vehicle]
      [] r.op = "accept"        -> [r.row EXCEPT !.status = "assigned"]
      [] r.op = "begin_transit" -> [r.row EXCEPT !.status = "in_transit"]
      [] r.op = "complete"      -> [r.row EXCEPT !.status = "completed"]
      [] r.op = "cancel"        -> [r.row EXCEPT !.status = "cancelled"]

\* The tables after the flushes of session r.
TripsAfter(r) ==
    CASE r.op = "create_trip" -> [trip EXCEPT ![r.trip] = NewTrip]
      [] r.op \in TripOps ->
             [trip EXCEPT ![r.trip] = Flushed(@, r.row, TripTarget(r))]
      [] OTHER -> trip

PacksAfter(r) ==
    CASE r.op = "create_pack" -> [pack EXCEPT ![r.pack] = NewPack(r.holder[1], r.holder[2], today)]
      [] r.op \in PackOps ->
             [pack EXCEPT ![r.pack] =
                 Flushed(@, r.row, MovePack(r.row, PackTarget(r.op, r.row), today))]
      [] r.op = "sweep" ->
             [p \in Packs |->
                 IF r.rows[p] = None THEN pack[p]
                 ELSE Flushed(pack[p], r.rows[p], MovePack(r.rows[p], "expired", today))]
      [] OTHER -> pack

Ready(s) == sess[s] # Idle /\ (sess[s].op \in AssignOps => ~ sess[s].gate)

\* The handler flushes and answers 200 or 201; the caller has committed, or
\* closing the session rolls back.
Respond(s) ==
    /\ Ready(s)
    /\ IF sess[s].op \in Commits
       THEN trip' = TripsAfter(sess[s]) /\ pack' = PacksAfter(sess[s])
       ELSE UNCHANGED <<trip, pack>>
    /\ sess' = [sess EXCEPT ![s] = Idle]
    /\ UNCHANGED today

\* An exception, a disconnected client or a killed process: a rollback.
Abort(s) ==
    /\ sess[s] # Idle
    /\ sess' = [sess EXCEPT ![s] = Idle]
    /\ UNCHANGED <<trip, pack, today>>

-----------------------------------------------------------------------------
(* The environment.                                                        *)

\* The four documents and their OCR result are attached to a pack.  No
\* code of the repository writes these columns; run_auto_verification reads
\* them.
AttachEvidence(p, evidence) ==
    /\ pack[p] # None
    /\ pack' = [pack EXCEPT ![p].evidence = evidence]
    /\ UNCHANGED <<trip, sess, today>>

NextDay ==
    /\ today < MaxDay
    /\ today' = today + 1
    /\ UNCHANGED <<trip, pack, sess>>

Next ==
    \/ \E s \in Sessions :
        \/ \E t \in Trips :
            \/ CreateTrip(s, t)
            \/ \E d \in Drivers, v \in Vehicles : Assign(s, t, d, v)
            \/ Award(s, t)
            \/ \E op \in ProgressOps : Progress(s, t, op)
            \/ Accept(s, t)
        \/ \E p \in Packs :
            \/ \E h \in Holders : CreatePack(s, p, h)
            \/ \E op \in PackOps : HandlePack(s, p, op)
        \/ Sweep(s)
        \/ CheckGate(s)
        \/ Respond(s)
        \/ Abort(s)
    \/ \E p \in Packs, evidence \in {"low", "high"} : AttachEvidence(p, evidence)
    \/ NextDay

Spec == Init /\ [][Next]_vars
=============================================================================

-------------------------- MODULE TripAwardPromise --------------------------
(***************************************************************************)
(* What the trip and KYC services promise when requests are served one at  *)
(* a time: every operation is one step on the rows as they are now.  The   *)
(* rules are those of PLAN.md 4.2 and of the docstrings of                 *)
(* state_machines/drivers_pack.py; a pack row is cut down to what they     *)
(* speak of.  fit: the evidence of the pack passes the automatic check.    *)
(***************************************************************************)
EXTENDS Naturals

CONSTANTS Trips, Packs, Drivers, Vehicles, None, ExpiryDays

VARIABLES trip, pack, today

Row(p) == pack[p]
Is(p, status) == pack[p] # None /\ pack[p].status = status

SetTrip(t, row) == trip' = [trip EXCEPT ![t] = row] /\ UNCHANGED <<pack, today>>
SetPack(p, row) == pack' = [pack EXCEPT ![p] = row] /\ UNCHANGED <<trip, today>>

\* A party may not be awarded a trip while one of its packs is pending or expired.
Blocked(d, v) ==
    \E p \in Packs : /\ Is(p, "pending") \/ Is(p, "expired")
                     /\ \/ d # None /\ pack[p].driver = d
                        \/ v # None /\ pack[p].vehicle = v

CreateTrip(t) ==
    /\ trip[t] = None
    /\ SetTrip(t, [status |-> "draft", driver |-> None, vehicle |-> None])

Assign(t, d, v) ==
    /\ trip[t] # None
    /\ ~ Blocked(d, v)
    /\ SetTrip(t, [status |-> "assigned", driver |-> d, vehicle |-> v])

\* Awarding confirms the parties the trip has.
Award(t) ==
    /\ trip[t] # None
    /\ ~ Blocked(trip[t].driver, trip[t].vehicle)
    /\ SetTrip(t, [trip[t] EXCEPT !.status = "assigned"])

Accept(t) ==
    /\ trip[t] # None
    /\ trip[t].status = "draft"
    /\ SetTrip(t, [trip[t] EXCEPT !.status = "assigned"])

Progress(t, status) ==
    /\ trip[t] # None
    /\ SetTrip(t, [trip[t] EXCEPT !.status = status])

CreatePack(p, d, v) ==
    /\ pack[p] = None
    /\ SetPack(p, [driver |-> d, vehicle |-> v, status |-> "pending",
                   submitted_at |-> today, fit |-> FALSE])

Verify(p) ==
    /\ Is(p, "pending")
    /\ SetPack(p, [Row(p) EXCEPT !.status = IF Row(p).fit THEN "auto_verified" ELSE "flagged"])

Clear(p) ==
    /\ Is(p, "flagged")
    /\ SetPack(p, [Row(p) EXCEPT !.status = "manually_cleared"])

\* A resubmission starts a new year and needs new evidence.
Resubmit(p) ==
    /\ Is(p, "expired")
    /\ SetPack(p, [Row(p) EXCEPT !.status = "pending", !.submitted_at = today, !.fit = FALSE])

\* Everything submitted more than ExpiryDays ago expires, except what waits
\* in the review queue.
Outdated(p) ==
    /\ Is(p, "pending") \/ Is(p, "auto_verified") \/ Is(p, "manually_cleared")
    /\ today - Row(p).submitted_at > ExpiryDays

Sweep ==
    /\ pack' = [p \in Packs |->
                   IF Outdated(p) THEN [Row(p) EXCEPT !.status = "expired"] ELSE Row(p)]
    /\ UNCHANGED <<trip, today>>

Evidence(p) ==
    /\ pack[p] # None
    /\ \E fit \in BOOLEAN : SetPack(p, [Row(p) EXCEPT !.fit = fit])

NextDay == today' = today + 1 /\ UNCHANGED <<trip, pack>>

Init ==
    /\ trip = [t \in Trips |-> None]
    /\ pack = [p \in Packs |-> None]
    /\ today = 0

Next ==
    \/ \E t \in Trips :
        \/ CreateTrip(t) \/ Award(t) \/ Accept(t)
        \/ \E d \in Drivers, v \in Vehicles : Assign(t, d, v)
        \/ \E status \in {"in_transit", "completed", "cancelled"} : Progress(t, status)
    \/ \E p \in Packs :
        \/ \E d \in Drivers \union {None}, v \in Vehicles \union {None} : CreatePack(p, d, v)
        \/ Verify(p) \/ Clear(p) \/ Resubmit(p) \/ Evidence(p)
    \/ Sweep
    \/ NextDay

Spec == Init /\ [][Next]_<<trip, pack, today>>
=============================================================================

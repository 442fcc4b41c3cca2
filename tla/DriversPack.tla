---------------------------- MODULE DriversPack -----------------------------
(***************************************************************************)
(* The driver's pack: its row, its state machine                           *)
(* (src/app/state_machines/drivers_pack.py), the verdict of the automatic  *)
(* verification and the query of the expiry job                            *)
(* (src/app/services/drivers_pack.py).                                     *)
(*                                                                         *)
(* Abstractions.  evidence stands for ocr_cross_check together with the    *)
(* four document columns, which the handlers only read: None if the cross  *)
(* check is NULL, "high" if all four documents are set and all four        *)
(* confidences at least 0.7, else "low".  flagged_at and cleared_at are    *)
(* flags: set or not.  submitted_at counts days.  verified_at and          *)
(* ocr_pass, which nothing reads, are left out.                            *)
(***************************************************************************)
EXTENDS Naturals

CONSTANTS
    Drivers,     \* driver ids
    Vehicles,    \* vehicle ids
    None,        \* SQL NULL, and a row that does not exist
    ExpiryDays   \* settings.DRIVERS_PACK_EXPIRY_DAYS

ASSUME PackAssumption ==
    /\ None \notin Drivers
    /\ None \notin Vehicles
    /\ ExpiryDays \in Nat

PackStatus == {"pending", "auto_verified", "flagged", "manually_cleared", "expired"}

PackRow ==
    [driver       : Drivers \union {None},
     vehicle      : Vehicles \union {None},
     status       : PackStatus,
     submitted_at : Nat,
     flagged_at   : BOOLEAN,
     cleared_at   : BOOLEAN,
     evidence     : {None, "low", "high"}]

\* NULL is not a row.
ASSUME NullPackAssumption == None \notin PackRow

-----------------------------------------------------------------------------
ValidPackTransitions ==
    {<<"pending", "auto_verified">>, <<"pending", "flagged">>, <<"pending", "expired">>,
     <<"auto_verified", "expired">>,
     <<"flagged", "manually_cleared">>, <<"flagged", "expired">>,
     <<"manually_cleared", "expired">>,
     <<"expired", "pending">>}

\* Fault variant of MayMove: the transition is not validated.
MayAlwaysMove(row, new) == row.status # new

MayMove(row, new) == <<row.status, new>> \in ValidPackTransitions

NewPack(d, v, today) ==
    [driver |-> d, vehicle |-> v, status |-> "pending", submitted_at |-> today,
     flagged_at |-> FALSE, cleared_at |-> FALSE, evidence |-> None]

\* transition_drivers_pack on the loaded object, its validation (MayMove) done.
MovePack(row, new, today) ==
    [row EXCEPT
        !.status       = new,
        !.submitted_at = IF new = "pending" THEN today ELSE @,
        !.flagged_at   = @ \/ new = "flagged",
        !.cleared_at   = @ \/ new = "manually_cleared",
        !.evidence     = IF new = "pending" THEN None ELSE @]

\* run_auto_verification: all four documents present and all confidences high.
AutoVerdict(row) ==
    IF row.evidence = "high" THEN "auto_verified" ELSE "flagged"

-----------------------------------------------------------------------------
\* Fault variant of GateStatuses: an expired pack opens the gate.
GateStatusesPendingOnly == {"pending"}

GateStatuses == {"pending", "expired"}

\* check_pack_gate: no pack of the driver or of the vehicle is in a gate status.
GateOpen(packs, d, v) ==
    \A p \in DOMAIN packs :
        packs[p] # None /\ packs[p].status \in GateStatuses =>
            ~ ((d # None /\ packs[p].driver = d) \/ (v # None /\ packs[p].vehicle = v))

SweptStatuses == {"pending", "auto_verified", "manually_cleared"}

\* check_and_expire: submitted_at < now - ExpiryDays.
IsDue(row, today) ==
    /\ row.status \in SweptStatuses
    /\ row.submitted_at + ExpiryDays < today
=============================================================================

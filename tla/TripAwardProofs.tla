-------------------------- MODULE TripAwardProofs --------------------------
(***************************************************************************)
(* Proofs about TripAward, for every set of sessions, trips, packs,        *)
(* drivers and vehicles, every choice of committing callers and every      *)
(* expiry period.                                                          *)
(***************************************************************************)
EXTENDS TripAwardProperties, TLAPS

-----------------------------------------------------------------------------
(* The operators of a session.                                             *)

LEMMA FlushTrip ==
    ASSUME NEW stored \in TripRow, NEW loaded \in TripRow, NEW assigned \in TripRow
    PROVE  LET f == Flushed(stored, loaded, assigned) IN
           /\ f \in TripRow
           /\ f.driver  = IF assigned.driver = loaded.driver THEN stored.driver ELSE assigned.driver
           /\ f.vehicle = IF assigned.vehicle = loaded.vehicle THEN stored.vehicle
                          ELSE assigned.vehicle
BY DEF TripRow, Flushed

LEMMA FlushPack ==
    ASSUME NEW stored \in PackRow, NEW loaded \in PackRow, NEW assigned \in PackRow
    PROVE  LET f == Flushed(stored, loaded, assigned) IN
           /\ f \in PackRow
           /\ \A c \in {"status", "flagged_at", "cleared_at"} :
                 f[c] = IF assigned[c] = loaded[c] THEN stored[c] ELSE assigned[c]
BY DEF PackRow, Flushed

LEMMA MoveFacts ==
    ASSUME NEW row \in PackRow, NEW new \in PackStatus, NEW day \in Nat
    PROVE  LET m == MovePack(row, new, day) IN
           /\ m \in PackRow
           /\ m.status = new
           /\ m.flagged_at <=> row.flagged_at \/ new = "flagged"
           /\ m.cleared_at <=> row.cleared_at \/ new = "manually_cleared"
<1> DEFINE m == MovePack(row, new, day)
           submitted == IF new = "pending" THEN day ELSE row.submitted_at
           flagged   == row.flagged_at \/ new = "flagged"
           cleared   == row.cleared_at \/ new = "manually_cleared"
           evidence  == IF new = "pending" THEN None ELSE row.evidence
<1>1. flagged \in BOOLEAN /\ cleared \in BOOLEAN
  OBVIOUS
<1>2. submitted \in Nat /\ evidence \in {None, "low", "high"}
  BY DEF PackRow
<1>3. m = [row EXCEPT !.status = new, !.submitted_at = submitted, !.flagged_at = flagged,
                      !.cleared_at = cleared, !.evidence = evidence]
  BY Zenon DEF MovePack
<1> HIDE DEF m, submitted, flagged, cleared, evidence
<1>4. m \in PackRow /\ m.status = new /\ m.flagged_at = flagged /\ m.cleared_at = cleared
  BY <1>1, <1>2, <1>3 DEF PackRow
<1> QED
  BY <1>4 DEF m, flagged, cleared

LEMMA TargetStatus ==
    ASSUME NEW op \in PackOps, NEW row
    PROVE  PackTarget(op, row) \in PackStatus
BY DEF PackOps, PackTarget, PackStatus, AutoVerdict

\* The trip an operation leaves, and the parties of it.
LEMMA TripTargetFacts ==
    ASSUME NEW r \in AssignSession \union TripSession
    PROVE  /\ TripTarget(r) \in TripRow
           /\ r.op \in AssignOps => TripTarget(r).driver = r.driver
                                 /\ TripTarget(r).vehicle = r.vehicle
           /\ r.op \notin AssignOps => TripTarget(r).driver = r.row.driver
                                    /\ TripTarget(r).vehicle = r.row.vehicle
BY DEF TripTarget, TripRow, TripStatus, AssignSession, TripSession, AssignOps, ProgressOps

-----------------------------------------------------------------------------
(* The inductive invariant.                                                *)

\* Stamps of a pack are never taken back.
Older(old, new) ==
    /\ old.flagged_at => new.flagged_at
    /\ old.cleared_at => new.cleared_at

\* Every pack in the review queue, or out of it, has the stamps of its way.
Stamped(row) ==
    /\ row.status \in {"flagged", "manually_cleared"} => row.flagged_at
    /\ row.status = "manually_cleared" => row.cleared_at

PacksStamped == \A p \in Packs : pack[p] # None => Stamped(pack[p])

\* A session holds a pack that may be stale, but only in the ways of Older,
\* and from which its transition was legal.
LoadedPacksAge ==
    \A s \in Sessions : sess[s].op \in PackOps =>
        /\ pack[sess[s].pack] # None
        /\ Older(sess[s].row, pack[sess[s].pack])
        /\ Stamped(sess[s].row)
        /\ MayMove(sess[s].row, PackTarget(sess[s].op, sess[s].row))

SweptPacksAge ==
    \A s \in Sessions : sess[s].op = "sweep" =>
        \A p \in Packs : sess[s].rows[p] # None =>
            /\ pack[p] # None
            /\ Older(sess[s].rows[p], pack[p])
            /\ sess[s].rows[p].status # "expired"

\* An award goes to the parties of the row it loaded.
AwardsKeepParties ==
    \A s \in Sessions : sess[s].op = "award" =>
        sess[s].driver = sess[s].row.driver /\ sess[s].vehicle = sess[s].row.vehicle

\* A session that updates a trip found it; one that creates has a new id.
TripsFound == \A s \in Sessions : sess[s].op \in TripOps => trip[sess[s].trip] # None

IdsAreNew ==
    \A s \in Sessions :
        /\ sess[s].op = "create_trip" =>
               /\ trip[sess[s].trip] = None
               /\ \A o \in Sessions : sess[o].op = "create_trip" /\ o # s =>
                      sess[o].trip # sess[s].trip
        /\ sess[s].op = "create_pack" =>
               /\ pack[sess[s].pack] = None
               /\ \A o \in Sessions : sess[o].op = "create_pack" /\ o # s =>
                      sess[o].pack # sess[s].pack

IInv ==
    /\ TypeOK
    /\ PacksStamped
    /\ LoadedPacksAge
    /\ SweptPacksAge
    /\ AwardsKeepParties
    /\ TripsFound
    /\ IdsAreNew

\* An open session is of the kind its operation says.
LEMMA SessionKinds ==
    ASSUME TypeOK, NEW s \in Sessions
    PROVE  /\ sess[s].op \in AssignOps => sess[s] \in AssignSession
           /\ sess[s].op \in ProgressOps \union {"accept"} => sess[s] \in TripSession
           /\ sess[s].op \in PackOps => sess[s] \in PackSession
           /\ sess[s].op = "sweep" => sess[s] \in SweepSession
           /\ sess[s].op = "create_trip" => sess[s] \in NewTripSession
           /\ sess[s].op = "create_pack" => sess[s] \in NewPackSession
           /\ sess[s] # Idle => sess[s].op \in Ops
BY DEF TypeOK, Idle, AssignSession, TripSession, PackSession, SweepSession, NewTripSession,
       NewPackSession, AssignOps, ProgressOps, PackOps, TripOps, Ops

\* The pack a handler commits, against the pack it finds.
LEMMA PackCommit ==
    ASSUME IInv, NEW s \in Sessions, sess[s].op \in PackOps
    PROVE  LET r   == sess[s]
               new == Flushed(pack[r.pack], r.row, MovePack(r.row, PackTarget(r.op, r.row), today))
           IN  r.pack \in Packs /\ new \in PackRow /\ Older(pack[r.pack], new) /\ Stamped(new)
<1> DEFINE r      == sess[s]
           now    == pack[r.pack]
           target == PackTarget(r.op, r.row)
           moved  == MovePack(r.row, target, today)
           new    == Flushed(now, r.row, moved)
<1>1. r.pack \in Packs /\ r.row \in PackRow /\ r.op \in PackOps /\ today \in Nat
  BY SessionKinds DEF IInv, TypeOK, PackSession
<1>2. now \in PackRow /\ Older(r.row, now) /\ Stamped(r.row) /\ MayMove(r.row, target)
  BY <1>1 DEF IInv, TypeOK, LoadedPacksAge
<1>3. target \in PackStatus
  BY <1>1, TargetStatus
<1>4. target # r.row.status /\ (target = "manually_cleared" => r.row.status = "flagged")
  BY <1>2 DEF MayMove, ValidPackTransitions
<1> HIDE DEF target, r, now
<1>5. /\ moved \in PackRow
      /\ moved.status = target
      /\ moved.flagged_at <=> r.row.flagged_at \/ target = "flagged"
      /\ moved.cleared_at <=> r.row.cleared_at \/ target = "manually_cleared"
  BY <1>1, <1>3, MoveFacts
<1> HIDE DEF moved
<1>6. /\ new \in PackRow
      /\ \A c \in {"status", "flagged_at", "cleared_at"} :
            new[c] = IF moved[c] = r.row[c] THEN now[c] ELSE moved[c]
  BY <1>1, <1>2, <1>5, FlushPack
<1> HIDE DEF new
<1>7. /\ new.status = target
      /\ new.flagged_at <=> now.flagged_at \/ target = "flagged"
      /\ new.cleared_at <=> now.cleared_at \/ target = "manually_cleared"
  BY <1>1, <1>2, <1>4, <1>5, <1>6 DEF Older, PackRow
<1>8. Older(now, new) /\ Stamped(new)
  BY <1>2, <1>4, <1>7 DEF Older, Stamped
<1> QED
  BY <1>1, <1>6, <1>8 DEF new, moved, target, now, r

\* The same of each pack that the expiry job commits.
LEMMA SweepCommit ==
    ASSUME IInv, NEW s \in Sessions, sess[s].op = "sweep",
           NEW p \in Packs, sess[s].rows[p] # None
    PROVE  LET row == sess[s].rows[p]
               new == Flushed(pack[p], row, MovePack(row, "expired", today))
           IN  new \in PackRow /\ Older(pack[p], new) /\ Stamped(new)
<1> DEFINE row   == sess[s].rows[p]
           now   == pack[p]
           moved == MovePack(row, "expired", today)
           new   == Flushed(now, row, moved)
<1>1. row \in PackRow /\ today \in Nat
  BY SessionKinds DEF IInv, TypeOK, SweepSession
<1>2. now \in PackRow /\ Older(row, now) /\ row.status # "expired"
  BY DEF IInv, TypeOK, SweptPacksAge
<1> HIDE DEF row, now
<1>3. /\ moved \in PackRow
      /\ moved.status = "expired"
      /\ moved.flagged_at <=> row.flagged_at
      /\ moved.cleared_at <=> row.cleared_at
  BY <1>1, MoveFacts DEF PackStatus
<1> HIDE DEF moved
<1>4. /\ new \in PackRow
      /\ \A c \in {"status", "flagged_at", "cleared_at"} :
            new[c] = IF moved[c] = row[c] THEN now[c] ELSE moved[c]
  BY <1>1, <1>2, <1>3, FlushPack
<1> HIDE DEF new
<1>5. /\ new.status = "expired"
      /\ new.flagged_at <=> now.flagged_at
      /\ new.cleared_at <=> now.cleared_at
  BY <1>1, <1>2, <1>3, <1>4 DEF PackRow
<1>6. Older(now, new) /\ Stamped(new)
  BY <1>5 DEF Older, Stamped
<1> QED
  BY <1>4, <1>6 DEF new, moved, now, row

-----------------------------------------------------------------------------
(* The invariant holds initially, and every step keeps it.                 *)

LEMMA InitInv == Init => IInv
<1> SUFFICES ASSUME Init
             PROVE  IInv
  OBVIOUS
<1>1. TypeOK
  BY AwardAssumption DEF Init, TypeOK
<1>2. \A s \in Sessions : sess[s].op = "idle"
  BY DEF Init, Idle
<1>3. PacksStamped
  BY DEF Init, PacksStamped
<1> QED
  BY <1>1, <1>2, <1>3 DEF IInv, LoadedPacksAge, SweptPacksAge, AwardsKeepParties, TripsFound,
     IdsAreNew, PackOps, TripOps, AssignOps, ProgressOps

\* Opening a session.
LEMMA OpenInv ==
    ASSUME IInv, NEW s \in Sessions, NEW request, Open(s, request),
           request \in AssignSession \union TripSession \union PackSession
                       \union SweepSession \union NewTripSession \union NewPackSession,
           request.op \in PackOps =>
               /\ pack[request.pack] # None
               /\ request.row = pack[request.pack]
               /\ MayMove(request.row, PackTarget(request.op, request.row)),
           request.op = "sweep" => request.rows = Selected(pack, today),
           request.op = "award" =>
               request.driver = request.row.driver /\ request.vehicle = request.row.vehicle,
           request.op \in TripOps => trip[request.trip] # None,
           request.op = "create_trip" =>
               /\ trip[request.trip] = None
               /\ \A r \in Sessions : sess[r].op = "create_trip" => sess[r].trip # request.trip,
           request.op = "create_pack" =>
               /\ pack[request.pack] = None
               /\ \A r \in Sessions : sess[r].op = "create_pack" => sess[r].pack # request.pack
    PROVE  IInv'
<1>1. /\ sess' = [sess EXCEPT ![s] = request] /\ sess[s] = Idle
      /\ trip' = trip /\ pack' = pack /\ today' = today
  BY DEF Open
<1>2. sess'[s] = request /\ \A o \in Sessions \ {s} : sess'[o] = sess[o]
  BY <1>1 DEF IInv, TypeOK
<1>3. TypeOK'
  BY <1>1 DEF IInv, TypeOK
<1>4. PacksStamped'
  BY <1>1 DEF IInv, PacksStamped, Stamped
<1>5. LoadedPacksAge'
  <2>1. request.op \in PackOps => request.pack \in Packs
    BY <1>2, <1>3, SessionKinds DEF TypeOK, AssignSession, TripSession, PackSession, SweepSession,
       NewTripSession, NewPackSession, PackOps, AssignOps, ProgressOps
  <2>2. request.op \in PackOps => Stamped(request.row) /\ Older(request.row, pack[request.pack])
    BY <2>1 DEF IInv, PacksStamped, Older
  <2> QED
    BY <1>1, <1>2, <2>2 DEF IInv, LoadedPacksAge, Older, Stamped, MayMove
<1>6. SweptPacksAge'
  <2>1. request.op = "sweep" =>
          \A p \in Packs : request.rows[p] # None =>
              /\ pack[p] # None
              /\ Older(request.rows[p], pack[p])
              /\ request.rows[p].status # "expired"
    BY DEF Selected, IsDue, SweptStatuses, Older
  <2> QED
    BY <1>1, <1>2, <2>1 DEF IInv, SweptPacksAge, Older
<1>7. AwardsKeepParties' /\ TripsFound'
  BY <1>1, <1>2 DEF IInv, AwardsKeepParties, TripsFound
<1>8. IdsAreNew'
  BY <1>1, <1>2 DEF IInv, IdsAreNew, Idle
<1> QED
  BY <1>3, <1>4, <1>5, <1>6, <1>7, <1>8 DEF IInv

\* Ending a session with a commit, or without one.
LEMMA CloseInv ==
    ASSUME IInv, NEW s \in Sessions, sess' = [sess EXCEPT ![s] = Idle], today' = today,
           trip' \in [Trips -> TripRow \union {None}],
           pack' \in [Packs -> PackRow \union {None}],
           \A p \in Packs : pack[p] # None => pack'[p] # None /\ Older(pack[p], pack'[p]),
           \A p \in Packs : pack'[p] # None => Stamped(pack'[p]),
           \A t \in Trips : trip[t] # None => trip'[t] # None,
           \A p \in Packs : pack[p] = None /\ pack'[p] # None =>
               sess[s].op = "create_pack" /\ sess[s].pack = p,
           \A t \in Trips : trip[t] = None /\ trip'[t] # None =>
               sess[s].op = "create_trip" /\ sess[s].trip = t
    PROVE  IInv'
<1>1. sess'[s] = Idle /\ \A o \in Sessions \ {s} : sess'[o] = sess[o]
  BY DEF IInv, TypeOK
<1>2. sess'[s].op = "idle"
  BY <1>1 DEF Idle
<1>3. TypeOK'
  BY DEF IInv, TypeOK
<1>4. PacksStamped'
  BY DEF PacksStamped, Stamped
<1>5. LoadedPacksAge'
  <2> SUFFICES ASSUME NEW o \in Sessions, sess'[o].op \in PackOps
               PROVE  /\ pack'[sess'[o].pack] # None
                      /\ Older(sess'[o].row, pack'[sess'[o].pack])
                      /\ Stamped(sess'[o].row)
                      /\ MayMove(sess'[o].row, PackTarget(sess'[o].op, sess'[o].row))
    BY DEF LoadedPacksAge, Older, Stamped, MayMove
  <2>1. o # s /\ sess'[o] = sess[o]
    BY <1>1, <1>2 DEF PackOps
  <2>2. /\ pack[sess[o].pack] # None
        /\ Older(sess[o].row, pack[sess[o].pack])
        /\ Stamped(sess[o].row)
        /\ MayMove(sess[o].row, PackTarget(sess[o].op, sess[o].row))
        /\ sess[o].pack \in Packs
    BY <2>1, SessionKinds DEF IInv, LoadedPacksAge, PackSession
  <2> QED
    BY <2>1, <2>2 DEF Older
<1>6. SweptPacksAge'
  <2> SUFFICES ASSUME NEW o \in Sessions, sess'[o].op = "sweep",
                      NEW p \in Packs, sess'[o].rows[p] # None
               PROVE  /\ pack'[p] # None
                      /\ Older(sess'[o].rows[p], pack'[p])
                      /\ sess'[o].rows[p].status # "expired"
    BY DEF SweptPacksAge, Older
  <2>1. o # s /\ sess'[o] = sess[o]
    BY <1>1, <1>2
  <2> QED
    BY <2>1 DEF IInv, SweptPacksAge, Older
<1>7. AwardsKeepParties'
  BY <1>1, <1>2 DEF IInv, AwardsKeepParties
<1>8. TripsFound'
  <2> SUFFICES ASSUME NEW o \in Sessions, sess'[o].op \in TripOps
               PROVE  trip'[sess'[o].trip] # None
    BY DEF TripsFound
  <2>1. o # s /\ sess'[o] = sess[o]
    BY <1>1, <1>2 DEF TripOps, AssignOps, ProgressOps
  <2>2. sess[o].trip \in Trips /\ trip[sess[o].trip] # None
    BY <2>1, SessionKinds DEF IInv, TripsFound, TripOps, AssignSession, TripSession
  <2> QED
    BY <2>1, <2>2
<1>9. IdsAreNew'
  <2> SUFFICES ASSUME NEW o \in Sessions
               PROVE  /\ sess'[o].op = "create_trip" =>
                             /\ trip'[sess'[o].trip] = None
                             /\ \A q \in Sessions : sess'[q].op = "create_trip" /\ q # o =>
                                    sess'[q].trip # sess'[o].trip
                      /\ sess'[o].op = "create_pack" =>
                             /\ pack'[sess'[o].pack] = None
                             /\ \A q \in Sessions : sess'[q].op = "create_pack" /\ q # o =>
                                    sess'[q].pack # sess'[o].pack
    BY DEF IdsAreNew
  <2>1. CASE o = s
    BY <1>2, <2>1
  <2>2. CASE o # s
    <3>1. sess'[o] = sess[o]
      BY <1>1, <2>2
    <3>2. sess[o].op = "create_trip" => sess[o].trip \in Trips
      BY SessionKinds DEF IInv, NewTripSession
    <3>3. sess[o].op = "create_pack" => sess[o].pack \in Packs
      BY SessionKinds DEF IInv, NewPackSession
    <3> QED
      BY <1>1, <1>2, <2>2, <3>1, <3>2, <3>3 DEF IInv, IdsAreNew
  <2> QED
    BY <2>1, <2>2
<1> QED
  BY <1>3, <1>4, <1>5, <1>6, <1>7, <1>8, <1>9 DEF IInv

\* What the flush of a trip handler leaves.
LEMMA TripCommit ==
    ASSUME IInv, NEW s \in Sessions, sess[s].op \in TripOps
    PROVE  LET r   == sess[s]
               now == trip[r.trip]
               new == Flushed(now, r.row, TripTarget(r))
           IN  /\ r.trip \in Trips
               /\ new \in TripRow
               /\ r.op = "assign" => /\ new.driver \in {now.driver, r.driver}
                                     /\ new.vehicle \in {now.vehicle, r.vehicle}
               /\ r.op # "assign" => /\ new.driver = now.driver
                                     /\ new.vehicle = now.vehicle
<1> DEFINE r      == sess[s]
           now    == trip[r.trip]
           target == TripTarget(r)
           new    == Flushed(now, r.row, target)
<1>1. r \in AssignSession \union TripSession
  BY SessionKinds DEF IInv, TripOps
<1>2. r.trip \in Trips /\ r.row \in TripRow /\ r.op \in TripOps
  BY <1>1 DEF AssignSession, TripSession
<1>3. now \in TripRow
  BY <1>2 DEF IInv, TypeOK, TripsFound
<1>4. /\ target \in TripRow
      /\ r.op \in AssignOps => target.driver = r.driver /\ target.vehicle = r.vehicle
      /\ r.op \notin AssignOps => /\ target.driver = r.row.driver
                                  /\ target.vehicle = r.row.vehicle
  BY <1>1, TripTargetFacts
<1>5. r.op = "award" => r.driver = r.row.driver /\ r.vehicle = r.row.vehicle
  BY DEF IInv, AwardsKeepParties
<1> HIDE DEF r, now, target
<1>6. /\ new \in TripRow
      /\ new.driver  = IF target.driver = r.row.driver THEN now.driver ELSE target.driver
      /\ new.vehicle = IF target.vehicle = r.row.vehicle THEN now.vehicle ELSE target.vehicle
  BY <1>2, <1>3, <1>4, FlushTrip
<1> HIDE DEF new
<1>7. /\ r.op = "assign" => new.driver \in {now.driver, r.driver}
                         /\ new.vehicle \in {now.vehicle, r.vehicle}
      /\ r.op # "assign" => new.driver = now.driver /\ new.vehicle = now.vehicle
  BY <1>2, <1>4, <1>5, <1>6 DEF AssignOps
<1> QED
  BY <1>2, <1>6, <1>7 DEF new, target, now, r

\* The tables a committing session leaves.
LEMMA CommitTables ==
    ASSUME IInv, NEW s \in Sessions, sess[s] # Idle,
           trip' = TripsAfter(sess[s]), pack' = PacksAfter(sess[s])
    PROVE  /\ trip' \in [Trips -> TripRow \union {None}]
           /\ pack' \in [Packs -> PackRow \union {None}]
           /\ \A p \in Packs : pack[p] # None => pack'[p] # None /\ Older(pack[p], pack'[p])
           /\ \A p \in Packs : pack'[p] # None => Stamped(pack'[p])
           /\ \A t \in Trips : trip[t] # None => trip'[t] # None
           /\ \A p \in Packs : pack[p] = None /\ pack'[p] # None =>
                  sess[s].op = "create_pack" /\ sess[s].pack = p
           /\ \A t \in Trips : trip[t] = None /\ trip'[t] # None =>
                  sess[s].op = "create_trip" /\ sess[s].trip = t
<1> DEFINE r == sess[s]
           TripsKept == trip' = trip
           PacksKept == pack' = pack
<1>1. /\ trip \in [Trips -> TripRow \union {None}]
      /\ pack \in [Packs -> PackRow \union {None}]
      /\ \A p \in Packs : pack[p] # None => Stamped(pack[p])
      /\ r.op \in Ops
  BY SessionKinds DEF IInv, TypeOK, PacksStamped
<1>2. \A row : Older(row, row)
  BY DEF Older
<1>3. CASE r.op = "create_trip"
  <2>1. r.trip \in Trips /\ trip[r.trip] = None
    BY <1>3, SessionKinds DEF IInv, IdsAreNew, NewTripSession
  <2>2. trip' = [trip EXCEPT ![r.trip] = NewTrip] /\ PacksKept
    BY <1>3 DEF TripsAfter, PacksAfter, PackOps, TripOps, AssignOps, ProgressOps
  <2>3. NewTrip \in TripRow
    BY DEF NewTrip, TripRow, TripStatus
  <2> QED
    BY <1>1, <1>2, <1>3, <2>1, <2>2, <2>3, NullTripAssumption
<1>4. CASE r.op \in TripOps
  <2> DEFINE new == Flushed(trip[r.trip], r.row, TripTarget(r))
  <2>1. r.trip \in Trips /\ new \in TripRow /\ trip[r.trip] # None
    BY <1>4, TripCommit DEF IInv, TripsFound
  <2>2. trip' = [trip EXCEPT ![r.trip] = new] /\ PacksKept
    BY <1>4 DEF TripsAfter, PacksAfter, PackOps, TripOps, AssignOps, ProgressOps
  <2> HIDE DEF new
  <2> QED
    BY <1>1, <1>2, <2>1, <2>2, NullTripAssumption
<1>5. CASE r.op = "create_pack"
  <2> DEFINE new == NewPack(r.holder[1], r.holder[2], today)
  <2>1. r.pack \in Packs /\ pack[r.pack] = None
    BY <1>5, SessionKinds DEF IInv, IdsAreNew, NewPackSession
  <2>2. pack' = [pack EXCEPT ![r.pack] = new] /\ TripsKept
    BY <1>5 DEF TripsAfter, PacksAfter, PackOps, TripOps, AssignOps, ProgressOps
  <2>3. r.holder \in (Drivers \union {None}) \X (Vehicles \union {None}) /\ today \in Nat
    BY <1>5, SessionKinds, AwardAssumption DEF IInv, TypeOK, NewPackSession
  <2>4. new \in PackRow /\ Stamped(new)
    BY <2>3 DEF NewPack, PackRow, PackStatus, Stamped
  <2> HIDE DEF new
  <2> QED
    BY <1>1, <1>2, <1>5, <2>1, <2>2, <2>4, NullPackAssumption
<1>6. CASE r.op \in PackOps
  <2> DEFINE new == Flushed(pack[r.pack], r.row, MovePack(r.row, PackTarget(r.op, r.row), today))
  <2>1. r.pack \in Packs /\ new \in PackRow /\ Older(pack[r.pack], new) /\ Stamped(new)
    BY <1>6, PackCommit
  <2>2. pack[r.pack] # None
    BY <1>6 DEF IInv, LoadedPacksAge
  <2>3. pack' = [pack EXCEPT ![r.pack] = new] /\ TripsKept
    BY <1>6 DEF TripsAfter, PacksAfter, PackOps, TripOps, AssignOps, ProgressOps
  <2> HIDE DEF new
  <2> QED
    BY <1>1, <1>2, <2>1, <2>2, <2>3, NullPackAssumption
<1>7. CASE r.op = "sweep"
  <2> DEFINE new(p) == Flushed(pack[p], r.rows[p], MovePack(r.rows[p], "expired", today))
  <2>1. \A p \in Packs : r.rows[p] # None =>
            pack[p] # None /\ new(p) \in PackRow /\ Older(pack[p], new(p)) /\ Stamped(new(p))
    BY <1>7, SweepCommit DEF IInv, SweptPacksAge
  <2>2. pack' = [p \in Packs |-> IF r.rows[p] = None THEN pack[p] ELSE new(p)] /\ TripsKept
    BY <1>7 DEF TripsAfter, PacksAfter, PackOps, TripOps, AssignOps, ProgressOps
  <2> HIDE DEF new
  <2> QED
    BY <1>1, <1>2, <2>1, <2>2, NullPackAssumption
<1> QED
  BY <1>1, <1>3, <1>4, <1>5, <1>6, <1>7 DEF Ops

LEMMA EndInv ==
    ASSUME IInv, NEW s \in Sessions, sess' = [sess EXCEPT ![s] = Idle],
           UNCHANGED <<trip, pack, today>>
    PROVE  IInv'
BY CloseInv DEF IInv, TypeOK, PacksStamped, Older

LEMMA RespondInv ==
    ASSUME IInv, NEW s \in Sessions, Respond(s)
    PROVE  IInv'
<1>1. sess' = [sess EXCEPT ![s] = Idle] /\ today' = today /\ sess[s] # Idle
  BY DEF Respond, Ready
<1>2. CASE sess[s].op \in Commits
  <2>1. trip' = TripsAfter(sess[s]) /\ pack' = PacksAfter(sess[s])
    BY <1>2 DEF Respond
  <2> QED
    BY <1>1, <2>1, CommitTables, CloseInv
<1>3. CASE sess[s].op \notin Commits
  BY <1>1, <1>3, EndInv DEF Respond
<1> QED
  BY <1>2, <1>3

LEMMA NextInv == IInv /\ [Next]_vars => IInv'
<1> SUFFICES ASSUME IInv, [Next]_vars
             PROVE  IInv'
  OBVIOUS
<1> USE DEF TripOps, AssignOps, ProgressOps, PackOps
<1>1. ASSUME NEW s \in Sessions, NEW t \in Trips, CreateTrip(s, t)
      PROVE  IInv'
  <2> DEFINE request == [op |-> "create_trip", trip |-> t]
  <2>1. request \in NewTripSession /\ Open(s, request) /\ request.op = "create_trip"
    BY <1>1 DEF CreateTrip, NewTripSession
  <2>2. trip[request.trip] = None
        /\ \A r \in Sessions : sess[r].op = "create_trip" => sess[r].trip # request.trip
    BY <1>1 DEF CreateTrip
  <2> HIDE DEF request
  <2> QED
    BY <2>1, <2>2, OpenInv
<1>2. ASSUME NEW s \in Sessions, NEW t \in Trips, NEW d \in Drivers, NEW v \in Vehicles,
             Assign(s, t, d, v)
      PROVE  IInv'
  <2> DEFINE request == [op |-> "assign", trip |-> t, row |-> trip[t], gate |-> TRUE,
                         driver |-> d, vehicle |-> v]
  <2>1. trip[t] \in TripRow /\ trip[t] # None
    BY <1>2 DEF Assign, IInv, TypeOK
  <2>2. request \in AssignSession /\ Open(s, request) /\ request.op = "assign"
        /\ request.trip = t
    BY <1>2, <2>1 DEF Assign, AssignSession
  <2> HIDE DEF request
  <2> QED
    BY <2>1, <2>2, OpenInv
<1>3. ASSUME NEW s \in Sessions, NEW t \in Trips, Award(s, t)
      PROVE  IInv'
  <2> DEFINE request == [op |-> "award", trip |-> t, row |-> trip[t], gate |-> TRUE,
                         driver |-> trip[t].driver, vehicle |-> trip[t].vehicle]
  <2>1. trip[t] \in TripRow /\ trip[t] # None
    BY <1>3 DEF Award, IInv, TypeOK
  <2>2. request \in AssignSession /\ Open(s, request) /\ request.op = "award"
        /\ request.trip = t
        /\ request.driver = request.row.driver /\ request.vehicle = request.row.vehicle
    BY <1>3, <2>1 DEF Award, AssignSession, TripRow
  <2> HIDE DEF request
  <2> QED
    BY <2>1, <2>2, OpenInv
<1>4. ASSUME NEW s \in Sessions, NEW t \in Trips, NEW op \in ProgressOps \union {"accept"},
             trip[t] # None, Open(s, [op |-> op, trip |-> t, row |-> trip[t]])
      PROVE  IInv'
  <2> DEFINE request == [op |-> op, trip |-> t, row |-> trip[t]]
  <2>1. trip[t] \in TripRow
    BY <1>4 DEF IInv, TypeOK
  <2>2. request \in TripSession /\ Open(s, request) /\ request.op = op /\ request.trip = t
    BY <1>4, <2>1 DEF TripSession
  <2> HIDE DEF request
  <2> QED
    BY <1>4, <2>2, OpenInv
<1>5. ASSUME NEW s \in Sessions, NEW p \in Packs, NEW h \in Holders, CreatePack(s, p, h)
      PROVE  IInv'
  <2> DEFINE request == [op |-> "create_pack", pack |-> p, holder |-> h]
  <2>1. request \in NewPackSession /\ Open(s, request) /\ request.op = "create_pack"
    BY <1>5 DEF CreatePack, NewPackSession
  <2>2. pack[request.pack] = None
        /\ \A r \in Sessions : sess[r].op = "create_pack" => sess[r].pack # request.pack
    BY <1>5 DEF CreatePack
  <2> HIDE DEF request
  <2> QED
    BY <2>1, <2>2, OpenInv
<1>6. ASSUME NEW s \in Sessions, NEW p \in Packs, NEW op \in PackOps, HandlePack(s, p, op)
      PROVE  IInv'
  <2> DEFINE request == [op |-> op, pack |-> p, row |-> pack[p]]
  <2>1. pack[p] \in PackRow /\ pack[p] # None
    BY <1>6 DEF HandlePack, IInv, TypeOK
  <2>2. request \in PackSession /\ Open(s, request) /\ request.op = op
        /\ request.pack = p /\ request.row = pack[p]
        /\ MayMove(request.row, PackTarget(request.op, request.row))
    BY <1>6, <2>1 DEF HandlePack, PackSession
  <2> HIDE DEF request
  <2> QED
    BY <2>1, <2>2, OpenInv
<1>7. ASSUME NEW s \in Sessions, Sweep(s)
      PROVE  IInv'
  <2> DEFINE request == [op |-> "sweep", day |-> today, rows |-> Selected(pack, today)]
  <2>1. Selected(pack, today) \in [Packs -> PackRow \union {None}] /\ today \in Nat
    BY DEF Selected, IInv, TypeOK
  <2>2. request \in SweepSession /\ Open(s, request) /\ request.op = "sweep"
        /\ request.rows = Selected(pack, today)
    BY <1>7, <2>1 DEF Sweep, SweepSession
  <2> HIDE DEF request
  <2> QED
    BY <2>2, OpenInv
<1>8. ASSUME NEW s \in Sessions, CheckGate(s)
      PROVE  IInv'
  <2>1. CASE GateOpen(pack, sess[s].driver, sess[s].vehicle)
    <3> DEFINE asked == [sess[s] EXCEPT !.gate = FALSE]
    <3>1. sess[s] \in AssignSession
      BY <1>8, SessionKinds DEF CheckGate, IInv
    <3>2. asked \in AssignSession /\ asked.op = sess[s].op /\ asked.trip = sess[s].trip
          /\ asked.row = sess[s].row
          /\ asked.driver = sess[s].driver /\ asked.vehicle = sess[s].vehicle
      BY <3>1 DEF AssignSession
    <3>3. sess' = [sess EXCEPT ![s] = asked] /\ trip' = trip /\ pack' = pack /\ today' = today
      BY <1>8, <2>1 DEF CheckGate
    <3> HIDE DEF asked
    <3>4. sess'[s] = asked /\ \A o \in Sessions \ {s} : sess'[o] = sess[o]
      BY <3>3 DEF IInv, TypeOK
    <3>5. sess[s].op \in AssignOps
      BY <1>8 DEF CheckGate
    <3>6. TypeOK'
      BY <3>2, <3>3 DEF IInv, TypeOK
    <3>7. PacksStamped'
      BY <3>3 DEF IInv, PacksStamped, Stamped
    <3>8. LoadedPacksAge' /\ SweptPacksAge'
      BY <3>2, <3>3, <3>4, <3>5
         DEF IInv, LoadedPacksAge, SweptPacksAge, Older, Stamped, MayMove
    <3>9. AwardsKeepParties' /\ TripsFound' /\ IdsAreNew'
      BY <3>2, <3>3, <3>4, <3>5 DEF IInv, AwardsKeepParties, TripsFound, IdsAreNew
    <3> QED
      BY <3>6, <3>7, <3>8, <3>9 DEF IInv
  <2>2. CASE ~ GateOpen(pack, sess[s].driver, sess[s].vehicle)
    BY <1>8, <2>2, EndInv DEF CheckGate
  <2> QED
    BY <2>1, <2>2
<1>9. ASSUME NEW s \in Sessions, Abort(s)
      PROVE  IInv'
  BY <1>9, EndInv DEF Abort
<1>10. ASSUME NEW p \in Packs, NEW evidence \in {"low", "high"}, AttachEvidence(p, evidence)
       PROVE  IInv'
  <2> DEFINE new == [pack[p] EXCEPT !.evidence = evidence]
  <2>1. pack[p] \in PackRow /\ pack[p] # None /\ Stamped(pack[p])
    BY <1>10 DEF AttachEvidence, IInv, TypeOK, PacksStamped
  <2>2. new \in PackRow /\ new.status = pack[p].status
        /\ new.flagged_at = pack[p].flagged_at /\ new.cleared_at = pack[p].cleared_at
    BY <2>1 DEF PackRow
  <2>3. pack' = [pack EXCEPT ![p] = new] /\ trip' = trip /\ sess' = sess /\ today' = today
    BY <1>10 DEF AttachEvidence
  <2> HIDE DEF new
  <2>4. pack'[p] = new /\ \A q \in Packs \ {p} : pack'[q] = pack[q]
    BY <2>3 DEF IInv, TypeOK
  <2>5. new # None
    BY <2>2, NullPackAssumption
  <2>6. TypeOK'
    BY <2>2, <2>3 DEF IInv, TypeOK
  <2>7. PacksStamped'
    BY <2>1, <2>2, <2>4 DEF IInv, PacksStamped, Stamped
  <2>8. LoadedPacksAge'
    <3> SUFFICES ASSUME NEW s \in Sessions, sess[s].op \in PackOps
                 PROVE  /\ pack'[sess[s].pack] # None
                        /\ Older(sess[s].row, pack'[sess[s].pack])
                        /\ Stamped(sess[s].row)
                        /\ MayMove(sess[s].row, PackTarget(sess[s].op, sess[s].row))
      BY <2>3 DEF LoadedPacksAge, Older, Stamped, MayMove
    <3>1. sess[s].pack \in Packs
      BY SessionKinds DEF IInv, PackSession
    <3> QED
      BY <2>2, <2>4, <2>5, <3>1 DEF IInv, LoadedPacksAge, Older
  <2>9. SweptPacksAge'
    BY <2>2, <2>3, <2>4, <2>5 DEF IInv, SweptPacksAge, Older
  <2>10. AwardsKeepParties' /\ TripsFound'
    BY <2>3 DEF IInv, AwardsKeepParties, TripsFound
  <2>11. IdsAreNew'
    <3>1. \A s \in Sessions : sess[s].op = "create_pack" =>
              sess[s].pack \in Packs /\ sess[s].pack # p
      BY <2>1, SessionKinds DEF IInv, IdsAreNew, NewPackSession
    <3> QED
      BY <2>3, <2>4, <3>1 DEF IInv, IdsAreNew
  <2> QED
    BY <2>6, <2>7, <2>8, <2>9, <2>10, <2>11 DEF IInv
<1>11. CASE NextDay
  BY <1>11 DEF NextDay, IInv, TypeOK, PacksStamped, LoadedPacksAge, SweptPacksAge,
               AwardsKeepParties, TripsFound, IdsAreNew, Older, Stamped, MayMove
<1>12. CASE UNCHANGED vars
  BY <1>12 DEF vars, IInv, TypeOK, PacksStamped, LoadedPacksAge, SweptPacksAge,
               AwardsKeepParties, TripsFound, IdsAreNew, Older, Stamped, MayMove
<1>13. ASSUME NEW s \in Sessions, NEW t \in Trips, NEW op \in ProgressOps, Progress(s, t, op)
       PROVE  IInv'
  BY <1>4, <1>13 DEF Progress
<1>14. ASSUME NEW s \in Sessions, NEW t \in Trips, Accept(s, t)
       PROVE  IInv'
  BY <1>4, <1>14 DEF Accept
<1>15. ASSUME NEW s \in Sessions, Respond(s)
       PROVE  IInv'
  BY <1>15, RespondInv
<1> QED
  BY <1>1, <1>2, <1>3, <1>5, <1>6, <1>7, <1>8, <1>9, <1>10, <1>11, <1>12, <1>13, <1>14, <1>15
     DEF Next

-----------------------------------------------------------------------------
(***************************************************************************)
(* The inductive invariant holds in every reachable state.                 *)
(***************************************************************************)
THEOREM Invariance == Spec => []IInv
BY InitInv, NextInv, PTL DEF Spec

(***************************************************************************)
(* Tables and sessions hold the rows the models declare.                   *)
(***************************************************************************)
THEOREM TypeCorrect == Spec => []TypeOK
<1>1. IInv => TypeOK
  BY DEF IInv
<1> QED
  BY <1>1, Invariance, PTL

(***************************************************************************)
(* Whatever races for a pack, it is manually_cleared only when it was      *)
(* flagged and a reviewer cleared it (state_machines/drivers_pack.py).     *)
(***************************************************************************)
THEOREM ClearedPacksWereFlagged == Spec => []ClearedWasFlagged
<1>1. IInv => ClearedWasFlagged
  BY DEF IInv, PacksStamped, Stamped, ClearedWasFlagged
<1> QED
  BY <1>1, Invariance, PTL

(***************************************************************************)
(* Only the end of an assign request moves the parties of a trip, and only *)
(* to those it names: an award never undoes a concurrent assignment        *)
(* (services/trip.py:102-119).                                             *)
(***************************************************************************)
THEOREM AssignMovesParties == Spec => OnlyAssignMovesParties
<1> DEFINE Move(t) ==
        trip[t] # None /\ trip'[t] # None =>
            \/ trip'[t].driver = trip[t].driver /\ trip'[t].vehicle = trip[t].vehicle
            \/ \E s \in Sessions :
                 /\ sess[s].op = "assign" /\ sess[s].trip = t /\ sess'[s] = Idle
                 /\ trip'[t].driver  \in {trip[t].driver,  sess[s].driver}
                 /\ trip'[t].vehicle \in {trip[t].vehicle, sess[s].vehicle}
<1>1. IInv /\ [Next]_vars => [\A t \in Trips : Move(t)]_vars
  <2> SUFFICES ASSUME IInv, [Next]_vars, NEW t \in Trips, trip[t] # None
               PROVE  Move(t)
    OBVIOUS
  <2>1. CASE trip' = trip
    BY <2>1
  <2>2. ASSUME NEW s \in Sessions, Respond(s), sess[s].op \in Commits
        PROVE  Move(t)
    <3> DEFINE r   == sess[s]
               new == Flushed(trip[r.trip], r.row, TripTarget(r))
    <3>1. trip' = TripsAfter(r) /\ sess'[s] = Idle
      BY <2>2 DEF Respond, IInv, TypeOK
    <3>2. CASE r.op = "create_trip"
      <4>1. r.trip # t
        BY <3>2 DEF IInv, IdsAreNew
      <4>2. trip' = [trip EXCEPT ![r.trip] = NewTrip]
        BY <3>1, <3>2 DEF TripsAfter, TripOps, AssignOps, ProgressOps
      <4>3. trip'[t] = trip[t]
        BY <4>1, <4>2 DEF IInv, TypeOK
      <4> QED
        BY <4>3
    <3>3. CASE r.op \in TripOps
      <4>1. trip' = [trip EXCEPT ![r.trip] = new]
        BY <3>1, <3>3 DEF TripsAfter, TripOps, AssignOps, ProgressOps
      <4>2. /\ r.op = "assign" => /\ new.driver \in {trip[r.trip].driver, r.driver}
                                  /\ new.vehicle \in {trip[r.trip].vehicle, r.vehicle}
            /\ r.op # "assign" => /\ new.driver = trip[r.trip].driver
                                  /\ new.vehicle = trip[r.trip].vehicle
        BY <3>3, TripCommit
      <4> HIDE DEF new
      <4> QED
        BY <3>1, <4>1, <4>2 DEF IInv, TypeOK
    <3>4. CASE r.op # "create_trip" /\ r.op \notin TripOps
      BY <3>1, <3>4 DEF TripsAfter
    <3> QED
      BY <3>2, <3>3, <3>4
  <2> QED
    BY <2>1, <2>2 DEF Next, vars, CreateTrip, Assign, Award, Progress, Accept, CreatePack,
       HandlePack, Sweep, Open, CheckGate, Respond, Abort, AttachEvidence, NextDay
<1> QED
  BY <1>1, Invariance, PTL DEF Spec, OnlyAssignMovesParties

-----------------------------------------------------------------------------
(* Every step on the tables is an operation of the promise, unless it ends *)
(* a session that another one has overtaken.                               *)

\* What the early returns of the handlers left to be relied upon.
RequestsHold ==
    \A s \in Sessions :
        /\ sess[s].op = "assign" => sess[s].driver \in Drivers /\ sess[s].vehicle \in Vehicles
        /\ sess[s].op = "accept" => sess[s].row.status = "draft"

LEMMA RequestsInit == Init => RequestsHold
BY DEF Init, RequestsHold, Idle

LEMMA RequestsNext == IInv /\ RequestsHold /\ [Next]_vars => RequestsHold'
<1> SUFFICES ASSUME IInv, RequestsHold, [Next]_vars
             PROVE  RequestsHold'
  OBVIOUS
<1>1. ASSUME NEW s \in Sessions, NEW request, sess' = [sess EXCEPT ![s] = request],
             request.op = "assign" => request.driver \in Drivers /\ request.vehicle \in Vehicles,
             request.op = "accept" => request.row.status = "draft"
      PROVE  RequestsHold'
  <2>1. sess'[s] = request /\ \A o \in Sessions \ {s} : sess'[o] = sess[o]
    BY <1>1 DEF IInv, TypeOK
  <2> QED
    BY <1>1, <2>1 DEF RequestsHold
<1>2. CASE sess' = sess
  BY <1>2 DEF RequestsHold
<1>3. ASSUME NEW s \in Sessions, sess' = [sess EXCEPT ![s] = Idle]
      PROVE  RequestsHold'
  BY <1>1, <1>3 DEF Idle
<1>4. ASSUME NEW s \in Sessions, NEW t \in Trips, CreateTrip(s, t)
      PROVE  RequestsHold'
  <2> DEFINE request == [op |-> "create_trip", trip |-> t]
  <2>1. request.op = "create_trip" /\ sess' = [sess EXCEPT ![s] = request]
    BY <1>4 DEF CreateTrip, Open
  <2> HIDE DEF request
  <2> QED
    BY <1>1, <2>1
<1>5. ASSUME NEW s \in Sessions, NEW t \in Trips, NEW d \in Drivers, NEW v \in Vehicles,
             Assign(s, t, d, v)
      PROVE  RequestsHold'
  <2> DEFINE request == [op |-> "assign", trip |-> t, row |-> trip[t], gate |-> TRUE,
                         driver |-> d, vehicle |-> v]
  <2>1. /\ request.op = "assign" /\ request.driver = d /\ request.vehicle = v
        /\ sess' = [sess EXCEPT ![s] = request]
    BY <1>5 DEF Assign, Open
  <2> HIDE DEF request
  <2> QED
    BY <1>1, <2>1
<1>6. ASSUME NEW s \in Sessions, NEW t \in Trips, Award(s, t)
      PROVE  RequestsHold'
  <2> DEFINE request == [op |-> "award", trip |-> t, row |-> trip[t], gate |-> TRUE,
                         driver |-> trip[t].driver, vehicle |-> trip[t].vehicle]
  <2>1. request.op = "award" /\ sess' = [sess EXCEPT ![s] = request]
    BY <1>6 DEF Award, Open
  <2> HIDE DEF request
  <2> QED
    BY <1>1, <2>1
<1>7. ASSUME NEW s \in Sessions, NEW t \in Trips, NEW op \in ProgressOps, Progress(s, t, op)
      PROVE  RequestsHold'
  <2> DEFINE request == [op |-> op, trip |-> t, row |-> trip[t]]
  <2>1. request.op = op /\ sess' = [sess EXCEPT ![s] = request]
    BY <1>7 DEF Progress, Open
  <2>2. op # "assign" /\ op # "accept"
    BY DEF ProgressOps
  <2> HIDE DEF request
  <2> QED
    BY <1>1, <2>1, <2>2
<1>8. ASSUME NEW s \in Sessions, NEW t \in Trips, Accept(s, t)
      PROVE  RequestsHold'
  <2> DEFINE request == [op |-> "accept", trip |-> t, row |-> trip[t]]
  <2>1. /\ request.op = "accept" /\ request.row.status = "draft"
        /\ sess' = [sess EXCEPT ![s] = request]
    BY <1>8 DEF Accept, Open
  <2> HIDE DEF request
  <2> QED
    BY <1>1, <2>1
<1>9. ASSUME NEW s \in Sessions, NEW p \in Packs, NEW h \in Holders, CreatePack(s, p, h)
      PROVE  RequestsHold'
  <2> DEFINE request == [op |-> "create_pack", pack |-> p, holder |-> h]
  <2>1. request.op = "create_pack" /\ sess' = [sess EXCEPT ![s] = request]
    BY <1>9 DEF CreatePack, Open
  <2> HIDE DEF request
  <2> QED
    BY <1>1, <2>1
<1>10. ASSUME NEW s \in Sessions, NEW p \in Packs, NEW op \in PackOps, HandlePack(s, p, op)
       PROVE  RequestsHold'
  <2> DEFINE request == [op |-> op, pack |-> p, row |-> pack[p]]
  <2>1. request.op = op /\ sess' = [sess EXCEPT ![s] = request]
    BY <1>10 DEF HandlePack, Open
  <2>2. op # "assign" /\ op # "accept"
    BY DEF PackOps
  <2> HIDE DEF request
  <2> QED
    BY <1>1, <2>1, <2>2
<1>11. ASSUME NEW s \in Sessions, Sweep(s)
       PROVE  RequestsHold'
  <2> DEFINE request == [op |-> "sweep", day |-> today, rows |-> Selected(pack, today)]
  <2>1. request.op = "sweep" /\ sess' = [sess EXCEPT ![s] = request]
    BY <1>11 DEF Sweep, Open
  <2> HIDE DEF request
  <2> QED
    BY <1>1, <2>1
<1>12. ASSUME NEW s \in Sessions, CheckGate(s)
       PROVE  RequestsHold'
  <2>1. CASE GateOpen(pack, sess[s].driver, sess[s].vehicle)
    <3> DEFINE request == [sess[s] EXCEPT !.gate = FALSE]
    <3>1. sess[s] \in AssignSession
      BY <1>12, SessionKinds DEF CheckGate, IInv
    <3>2. /\ request.op = sess[s].op /\ request.op \in AssignOps
          /\ request.driver = sess[s].driver /\ request.vehicle = sess[s].vehicle
      BY <3>1 DEF AssignSession
    <3>3. sess' = [sess EXCEPT ![s] = request]
      BY <1>12, <2>1 DEF CheckGate
    <3> HIDE DEF request
    <3> QED
      BY <1>1, <3>2, <3>3 DEF RequestsHold, AssignOps
  <2>2. CASE ~ GateOpen(pack, sess[s].driver, sess[s].vehicle)
    BY <1>3, <1>12, <2>2 DEF CheckGate
  <2> QED
    BY <2>1, <2>2
<1>13. ASSUME NEW s \in Sessions, Respond(s) \/ Abort(s)
       PROVE  RequestsHold'
  BY <1>3, <1>13 DEF Respond, Abort
<1> QED
  BY <1>2, <1>4, <1>5, <1>6, <1>7, <1>8, <1>9, <1>10, <1>11, <1>12, <1>13
     DEF Next, vars, AttachEvidence, NextDay

\* Flushing an object nobody else has written stores it.
LEMMA FlushSame ==
    /\ \A row, w \in TripRow : Flushed(row, row, w) = w
    /\ \A row, w \in PackRow : Flushed(row, row, w) = w
<1>1. ASSUME NEW row \in TripRow, NEW w \in TripRow
      PROVE  Flushed(row, row, w) = w
  BY DEF Flushed, TripRow
<1>2. ASSUME NEW row \in PackRow, NEW w \in PackRow
      PROVE  Flushed(row, row, w) = w
  BY DEF Flushed, PackRow
<1> QED
  BY <1>1, <1>2

LEMMA BriefFacts ==
    ASSUME NEW row \in PackRow
    PROVE  /\ Brief(row) = [driver |-> row.driver, vehicle |-> row.vehicle,
                            status |-> row.status, submitted_at |-> row.submitted_at,
                            fit |-> row.evidence = "high"]
           /\ Brief(row) # None
<1>1. row # None
  BY NullPackAssumption
<1>2. Brief(row) = [driver |-> row.driver, vehicle |-> row.vehicle,
                    status |-> row.status, submitted_at |-> row.submitted_at,
                    fit |-> row.evidence = "high"]
  BY <1>1, Zenon DEF Brief
<1> DEFINE fit == row.evidence = "high"
<1>3. fit \in BOOLEAN
  OBVIOUS
<1> HIDE DEF fit
<1>4. [driver |-> row.driver, vehicle |-> row.vehicle, status |-> row.status,
       submitted_at |-> row.submitted_at, fit |-> fit] # None
  BY <1>3, NullBriefAssumption DEF PackRow
<1> QED
  BY <1>2, <1>4, Zenon DEF fit

\* The abstract table, as a function of the table.
Briefs(packs) == [p \in Packs |-> Brief(packs[p])]

LEMMA BriefsExcept ==
    ASSUME NEW packs \in [Packs -> PackRow \union {None}], NEW p \in Packs, NEW new \in PackRow
    PROVE  Briefs([packs EXCEPT ![p] = new]) = [Briefs(packs) EXCEPT ![p] = Brief(new)]
<1> DEFINE after == [packs EXCEPT ![p] = new]
<1>1. after[p] = new /\ \A q \in Packs \ {p} : after[q] = packs[q]
  OBVIOUS
<1> HIDE DEF after
<1>2. Briefs(after) = [Briefs(packs) EXCEPT ![p] = Brief(new)]
  BY <1>1 DEF Briefs
<1> QED
  BY <1>2 DEF after

\* An abstract row has what the row has.
LEMMA BriefsAt ==
    ASSUME NEW packs \in [Packs -> PackRow \union {None}], NEW p \in Packs
    PROVE  /\ packs[p] = None <=> Briefs(packs)[p] = None
           /\ packs[p] # None =>
                  /\ packs[p] \in PackRow
                  /\ Briefs(packs)[p] = Brief(packs[p])
                  /\ Briefs(packs)[p].driver = packs[p].driver
                  /\ Briefs(packs)[p].vehicle = packs[p].vehicle
                  /\ Briefs(packs)[p].status = packs[p].status
                  /\ Briefs(packs)[p].submitted_at = packs[p].submitted_at
                  /\ Briefs(packs)[p].fit = (packs[p].evidence = "high")
<1>1. Briefs(packs)[p] = Brief(packs[p])
  BY DEF Briefs
<1>2. CASE packs[p] = None
  BY <1>1, <1>2 DEF Brief
<1>3. CASE packs[p] # None
  <2>1. packs[p] \in PackRow
    BY <1>3
  <2> DEFINE fit == packs[p].evidence = "high"
  <2>2. /\ Brief(packs[p]) = [driver |-> packs[p].driver, vehicle |-> packs[p].vehicle,
                              status |-> packs[p].status,
                              submitted_at |-> packs[p].submitted_at, fit |-> fit]
        /\ Brief(packs[p]) # None
    BY <2>1, BriefFacts
  <2> HIDE DEF fit
  <2>3. /\ Brief(packs[p]).driver = packs[p].driver
        /\ Brief(packs[p]).vehicle = packs[p].vehicle
        /\ Brief(packs[p]).status = packs[p].status
        /\ Brief(packs[p]).submitted_at = packs[p].submitted_at
        /\ Brief(packs[p]).fit = fit
    BY <2>2
  <2> QED
    BY <1>1, <1>3, <2>1, <2>2, <2>3, Zenon DEF fit
<1> QED
  BY <1>2, <1>3

\* A transition of a pack on the abstract row.
MoveBrief(brief, new, day) ==
    IF new = "pending"
    THEN [brief EXCEPT !.status = "pending", !.submitted_at = day, !.fit = FALSE]
    ELSE [brief EXCEPT !.status = new]

LEMMA BriefMove ==
    ASSUME NEW row \in PackRow, NEW new \in PackStatus, NEW day \in Nat
    PROVE  Brief(MovePack(row, new, day)) = MoveBrief(Brief(row), new, day)
<1> DEFINE m == MovePack(row, new, day)
           flagged   == row.flagged_at \/ new = "flagged"
           cleared   == row.cleared_at \/ new = "manually_cleared"
           submitted == IF new = "pending" THEN day ELSE row.submitted_at
           evidence  == IF new = "pending" THEN None ELSE row.evidence
           fit       == row.evidence = "high"
<1>1. m \in PackRow
  BY MoveFacts
<1>2. /\ m.driver = row.driver /\ m.vehicle = row.vehicle /\ m.status = new
      /\ m.submitted_at = submitted /\ m.evidence = evidence
  <2>1. m = [row EXCEPT !.status = new, !.submitted_at = submitted, !.flagged_at = flagged,
                        !.cleared_at = cleared, !.evidence = evidence]
    BY Zenon DEF MovePack
  <2> HIDE DEF m, submitted, flagged, cleared, evidence
  <2> QED
    BY <2>1 DEF PackRow
<1>3. Brief(row) = [driver |-> row.driver, vehicle |-> row.vehicle, status |-> row.status,
                    submitted_at |-> row.submitted_at, fit |-> fit]
  BY BriefFacts
<1>4. Brief(m) = [driver |-> m.driver, vehicle |-> m.vehicle, status |-> m.status,
                  submitted_at |-> m.submitted_at, fit |-> m.evidence = "high"]
  BY <1>1, BriefFacts
<1>5. CASE new # "pending"
  <2>1. m.submitted_at = row.submitted_at /\ m.evidence = row.evidence
    BY <1>2, <1>5
  <2>2. (m.evidence = "high") = fit
    BY <2>1, Zenon
  <2> HIDE DEF m, fit
  <2>3. Brief(m) = [driver |-> row.driver, vehicle |-> row.vehicle, status |-> new,
                    submitted_at |-> row.submitted_at, fit |-> fit]
    BY <1>2, <1>4, <2>1, <2>2, Zenon
  <2>4. Brief(m) = [Brief(row) EXCEPT !.status = new]
    BY <1>3, <2>3
  <2> QED
    BY <1>5, <2>4, Zenon DEF m, MoveBrief
<1>6. CASE new = "pending"
  <2>1. m.submitted_at = day /\ m.evidence = None
    BY <1>2, <1>6
  <2>2. (m.evidence = "high") = FALSE
    BY <2>1, NullBriefAssumption, Zenon
  <2> HIDE DEF m, fit
  <2> DEFINE one == [driver |-> row.driver, vehicle |-> row.vehicle, status |-> "pending",
                     submitted_at |-> row.submitted_at, fit |-> fit]
             two == [driver |-> row.driver, vehicle |-> row.vehicle, status |-> "pending",
                     submitted_at |-> day, fit |-> fit]
             end == [driver |-> row.driver, vehicle |-> row.vehicle, status |-> "pending",
                     submitted_at |-> day, fit |-> FALSE]
  <2>3. Brief(m) = end
    BY <1>2, <1>4, <1>6, <2>1, <2>2, Zenon
  <2>4. [Brief(row) EXCEPT !.status = "pending"] = one
    BY <1>3
  <2>5. [one EXCEPT !.submitted_at = day] = two
    OBVIOUS
  <2>6. ASSUME NEW b
        PROVE  [two EXCEPT !.fit = b] =
                   [driver |-> row.driver, vehicle |-> row.vehicle, status |-> "pending",
                    submitted_at |-> day, fit |-> b]
    OBVIOUS
  <2>7. [two EXCEPT !.fit = FALSE] = end
    BY <2>6, Zenon
  <2> HIDE DEF one, two, end
  <2>8. Brief(m) = [Brief(row) EXCEPT !.status = "pending", !.submitted_at = day, !.fit = FALSE]
    BY <2>3, <2>4, <2>5, <2>7, Zenon
  <2> QED
    BY <1>6, <2>8, Zenon DEF m, MoveBrief
<1> QED
  BY <1>5, <1>6

LEMMA OpenGate ==
    ASSUME pack \in [Packs -> PackRow \union {None}], NEW d, NEW v, GateOpen(pack, d, v)
    PROVE  ~ Promise!Blocked(d, v)
<1>1. DOMAIN pack = Packs
  OBVIOUS
<1>2. \A p \in Packs :
          pack[p] # None /\ pack[p].status \in {"pending", "expired"} =>
              ~ ((d # None /\ pack[p].driver = d) \/ (v # None /\ pack[p].vehicle = v))
  BY <1>1 DEF GateOpen, GateStatuses
<1>3. \A p \in Packs :
          /\ pack[p] = None <=> Briefs(pack)[p] = None
          /\ pack[p] # None => /\ Briefs(pack)[p].driver = pack[p].driver
                               /\ Briefs(pack)[p].vehicle = pack[p].vehicle
                               /\ Briefs(pack)[p].status = pack[p].status
  BY BriefsAt
<1>4. \A p \in Packs :
          Briefs(pack)[p] # None /\ Briefs(pack)[p].status \in {"pending", "expired"} =>
              ~ \/ d # None /\ Briefs(pack)[p].driver = d
                \/ v # None /\ Briefs(pack)[p].vehicle = v
  BY <1>2, <1>3
<1> QED
  BY <1>4 DEF Promise!Blocked, Promise!Is, Briefs

\* The trip that each handler leaves.
LEMMA TripTargets ==
    ASSUME NEW r, r.row \in TripRow
    PROVE  /\ r.op = "assign" =>
                  TripTarget(r) = [status |-> "assigned", driver |-> r.driver,
                                   vehicle |-> r.vehicle]
           /\ r.op = "award" /\ r.driver = r.row.driver /\ r.vehicle = r.row.vehicle =>
                  TripTarget(r) = [r.row EXCEPT !.status = "assigned"]
           /\ r.op = "accept" => TripTarget(r) = [r.row EXCEPT !.status = "assigned"]
           /\ r.op \in ProgressOps =>
                  \E status \in {"in_transit", "completed", "cancelled"} :
                      TripTarget(r) = [r.row EXCEPT !.status = status]
<1> DEFINE named == [status |-> "assigned", driver |-> r.driver, vehicle |-> r.vehicle]
<1>1. ASSUME r.op \in AssignOps
      PROVE  TripTarget(r) = named
  <2>1. TripTarget(r) = [r.row EXCEPT !.status = "assigned", !.driver = r.driver,
                                      !.vehicle = r.vehicle]
    BY <1>1 DEF TripTarget, AssignOps
  <2> QED
    BY <2>1 DEF TripRow
<1>2. r.driver = r.row.driver /\ r.vehicle = r.row.vehicle =>
          named = [r.row EXCEPT !.status = "assigned"]
  BY DEF TripRow
<1>3. r.op = "accept" => TripTarget(r) = [r.row EXCEPT !.status = "assigned"]
  BY DEF TripTarget, AssignOps
<1>4. /\ r.op = "begin_transit" => TripTarget(r) = [r.row EXCEPT !.status = "in_transit"]
      /\ r.op = "complete" => TripTarget(r) = [r.row EXCEPT !.status = "completed"]
      /\ r.op = "cancel" => TripTarget(r) = [r.row EXCEPT !.status = "cancelled"]
  BY DEF TripTarget, AssignOps
<1> HIDE DEF named
<1>5. "assign" \in AssignOps /\ "award" \in AssignOps
  BY DEF AssignOps
<1>6. r.op \in ProgressOps =>
          \E status \in {"in_transit", "completed", "cancelled"} :
              TripTarget(r) = [r.row EXCEPT !.status = status]
  BY <1>4 DEF ProgressOps
<1> QED
  BY <1>1, <1>2, <1>3, <1>5, <1>6 DEF named

LEMMA TripStep ==
    ASSUME IInv, RequestsHold, NEW s \in Sessions, sess[s].op \in TripOps, ~ Overtaken(s),
           trip' = TripsAfter(sess[s]), pack' = PacksAfter(sess[s]), today' = today
    PROVE  Promise!Next
<1> DEFINE r == sess[s]
           t == r.trip
           target == TripTarget(r)
<1>1. r \in AssignSession \union TripSession
  BY SessionKinds DEF IInv, TripOps
<1>2. t \in Trips /\ r.row \in TripRow
  BY <1>1 DEF AssignSession, TripSession
<1>3. trip[t] = r.row /\ (r.op \in AssignOps => GateOpen(pack, r.driver, r.vehicle))
  BY DEF Overtaken
<1>4. trip[t] # None
  BY DEF IInv, TripsFound
<1>5. target \in TripRow
  BY <1>1, TripTargetFacts
<1>6. trip' = [trip EXCEPT ![t] = target] /\ pack' = pack
  <2>1. /\ trip' = [trip EXCEPT ![t] = Flushed(trip[t], r.row, target)]
        /\ pack' = pack
    BY DEF TripsAfter, PacksAfter, PackOps, TripOps, AssignOps, ProgressOps
  <2>2. Flushed(trip[t], r.row, target) = target
    BY <1>2, <1>3, <1>5, FlushSame
  <2> QED
    BY <2>1, <2>2
<1>7. pack \in [Packs -> PackRow \union {None}]
  BY DEF IInv, TypeOK
<1>8. /\ r.op = "award" => r.driver = r.row.driver /\ r.vehicle = r.row.vehicle
      /\ r.op = "assign" => r.driver \in Drivers /\ r.vehicle \in Vehicles
      /\ r.op = "accept" => r.row.status = "draft"
  BY DEF IInv, AwardsKeepParties, RequestsHold
<1>9. r.op \in AssignOps => ~ Promise!Blocked(r.driver, r.vehicle)
  BY <1>3, <1>7, OpenGate
<1>10. /\ r.op = "assign" => target = [status |-> "assigned", driver |-> r.driver,
                                       vehicle |-> r.vehicle]
       /\ r.op \in {"award", "accept"} => target = [r.row EXCEPT !.status = "assigned"]
       /\ r.op \in ProgressOps =>
              \E status \in {"in_transit", "completed", "cancelled"} :
                  target = [r.row EXCEPT !.status = status]
  BY <1>2, <1>8, TripTargets
<1> HIDE DEF r, target
<1>11. Promise!SetTrip(t, target)
  BY <1>6 DEF Promise!SetTrip
<1>12. CASE r.op = "assign"
  <2>1. Promise!Assign(t, r.driver, r.vehicle)
    BY <1>4, <1>9, <1>10, <1>11, <1>12 DEF Promise!Assign, AssignOps
  <2> QED
    BY <1>2, <1>8, <1>12, <2>1 DEF Promise!Next
<1>13. CASE r.op = "award"
  <2>1. Promise!Award(t)
    BY <1>3, <1>4, <1>8, <1>9, <1>10, <1>11, <1>13 DEF Promise!Award, AssignOps
  <2> QED
    BY <1>2, <2>1 DEF Promise!Next
<1>14. CASE r.op = "accept"
  <2>1. Promise!Accept(t)
    BY <1>3, <1>4, <1>8, <1>10, <1>11, <1>14 DEF Promise!Accept
  <2> QED
    BY <1>2, <2>1 DEF Promise!Next
<1>15. CASE r.op \in ProgressOps
  <2>1. PICK status \in {"in_transit", "completed", "cancelled"} :
            target = [r.row EXCEPT !.status = status]
    BY <1>10, <1>15
  <2>2. Promise!Progress(t, status)
    BY <1>3, <1>4, <1>11, <2>1 DEF Promise!Progress
  <2> QED
    BY <1>2, <2>1, <2>2 DEF Promise!Next
<1> QED
  BY <1>12, <1>13, <1>14, <1>15 DEF TripOps, AssignOps, r

\* One pack row is replaced: the same happens to the abstract table.
LEMMA SetsPack ==
    ASSUME pack \in [Packs -> PackRow \union {None}], NEW p \in Packs, NEW new \in PackRow,
           pack' = [pack EXCEPT ![p] = new], trip' = trip, today' = today
    PROVE  Promise!SetPack(p, Brief(new))
<1>1. Briefs(pack') = [Briefs(pack) EXCEPT ![p] = Brief(new)]
  BY BriefsExcept
<1> QED
  BY <1>1 DEF Promise!SetPack, Briefs

LEMMA PackStep ==
    ASSUME IInv, NEW s \in Sessions, sess[s].op \in PackOps, ~ Overtaken(s),
           trip' = TripsAfter(sess[s]), pack' = PacksAfter(sess[s]), today' = today
    PROVE  Promise!Next
<1> DEFINE r      == sess[s]
           p      == r.pack
           target == PackTarget(r.op, r.row)
           moved  == MovePack(r.row, target, today)
<1>1. p \in Packs /\ r.row \in PackRow /\ today \in Nat
  BY SessionKinds DEF IInv, TypeOK, PackSession
<1>2. pack[p] = r.row /\ pack[p] # None /\ MayMove(r.row, target)
  BY DEF Overtaken, IInv, LoadedPacksAge, PackOps, TripOps, AssignOps, ProgressOps
<1>3. target \in PackStatus
  BY TargetStatus
<1>4. moved \in PackRow
  BY <1>1, <1>3, MoveFacts
<1>5. pack' = [pack EXCEPT ![p] = moved] /\ trip' = trip
  <2>1. /\ pack' = [pack EXCEPT ![p] = Flushed(pack[p], r.row, moved)]
        /\ trip' = trip
    BY DEF TripsAfter, PacksAfter, PackOps, TripOps, AssignOps, ProgressOps
  <2> HIDE DEF moved
  <2>2. Flushed(pack[p], r.row, moved) = moved
    BY <1>1, <1>2, <1>4, FlushSame
  <2> QED
    BY <2>1, <2>2
<1>6. pack \in [Packs -> PackRow \union {None}]
  BY DEF IInv, TypeOK
<1>7. /\ Briefs(pack)[p] = Brief(r.row) /\ Briefs(pack)[p] # None
      /\ Briefs(pack)[p].status = r.row.status
      /\ Briefs(pack)[p].fit = (r.row.evidence = "high")
  BY <1>1, <1>2, <1>6, BriefsAt
<1>8. /\ r.op = "verify" => target = AutoVerdict(r.row)
      /\ r.op = "clear" => target = "manually_cleared"
      /\ r.op = "resubmit" => target = "pending"
  BY DEF PackTarget
<1>9. Brief(moved) = MoveBrief(Brief(r.row), target, today)
  BY <1>1, <1>3, BriefMove
<1> HIDE DEF r, target, moved
<1>10. Promise!SetPack(p, Brief(moved))
  BY <1>1, <1>4, <1>5, <1>6, SetsPack
<1>11. CASE r.op = "verify"
  <2>1. target \in {"auto_verified", "flagged"} /\ r.row.status = "pending"
    BY <1>2, <1>8, <1>11 DEF AutoVerdict, MayMove, ValidPackTransitions
  <2>2. target = IF Briefs(pack)[p].fit THEN "auto_verified" ELSE "flagged"
    BY <1>7, <1>8, <1>11, Zenon DEF AutoVerdict
  <2>3. Brief(moved) = [Briefs(pack)[p] EXCEPT !.status = target]
    BY <1>7, <1>9, <2>1 DEF MoveBrief
  <2>4. Promise!Row(p) = Briefs(pack)[p] /\ Promise!Is(p, "pending")
    BY <1>7, <2>1 DEF Promise!Row, Promise!Is, Briefs
  <2>5. Promise!Verify(p)
    BY <1>10, <2>2, <2>3, <2>4, Zenon DEF Promise!Verify
  <2> QED
    BY <1>1, <2>5 DEF Promise!Next
<1>12. CASE r.op = "clear"
  <2>1. target = "manually_cleared" /\ r.row.status = "flagged"
    BY <1>2, <1>8, <1>12 DEF MayMove, ValidPackTransitions
  <2>2. Brief(moved) = [Briefs(pack)[p] EXCEPT !.status = "manually_cleared"]
    BY <1>7, <1>9, <2>1 DEF MoveBrief
  <2>3. Promise!Row(p) = Briefs(pack)[p] /\ Promise!Is(p, "flagged")
    BY <1>7, <2>1 DEF Promise!Row, Promise!Is, Briefs
  <2>4. Promise!Clear(p)
    BY <1>10, <2>2, <2>3, Zenon DEF Promise!Clear
  <2> QED
    BY <1>1, <2>4 DEF Promise!Next
<1>13. CASE r.op = "resubmit"
  <2>1. target = "pending" /\ r.row.status = "expired"
    BY <1>2, <1>8, <1>13 DEF MayMove, ValidPackTransitions
  <2>2. Brief(moved) = [Briefs(pack)[p] EXCEPT !.status = "pending", !.submitted_at = today,
                                               !.fit = FALSE]
    BY <1>7, <1>9, <2>1, Zenon DEF MoveBrief
  <2>3. Promise!Row(p) = Briefs(pack)[p] /\ Promise!Is(p, "expired")
    BY <1>7, <2>1 DEF Promise!Row, Promise!Is, Briefs
  <2>4. Promise!Resubmit(p)
    BY <1>10, <2>2, <2>3, Zenon DEF Promise!Resubmit
  <2> QED
    BY <1>1, <2>4 DEF Promise!Next
<1> QED
  BY <1>11, <1>12, <1>13 DEF PackOps, r

LEMMA CreateStep ==
    ASSUME IInv, NEW s \in Sessions, sess[s].op \in {"create_trip", "create_pack"},
           trip' = TripsAfter(sess[s]), pack' = PacksAfter(sess[s]), today' = today
    PROVE  Promise!Next
<1> DEFINE r == sess[s]
<1>1. CASE r.op = "create_trip"
  <2>1. r.trip \in Trips /\ trip[r.trip] = None
    BY <1>1, SessionKinds DEF IInv, IdsAreNew, NewTripSession
  <2>2. trip' = [trip EXCEPT ![r.trip] = NewTrip] /\ pack' = pack
    BY <1>1 DEF TripsAfter, PacksAfter, PackOps, TripOps, AssignOps, ProgressOps
  <2> HIDE DEF r
  <2>3. Promise!CreateTrip(r.trip)
    BY <2>1, <2>2 DEF Promise!CreateTrip, Promise!SetTrip, NewTrip
  <2> QED
    BY <2>1, <2>3 DEF Promise!Next
<1>2. CASE r.op = "create_pack"
  <2> DEFINE d   == r.holder[1]
             v   == r.holder[2]
             new == NewPack(d, v, today)
  <2>1. r.pack \in Packs /\ pack[r.pack] = None
    BY <1>2, SessionKinds DEF IInv, IdsAreNew, NewPackSession
  <2>2. pack' = [pack EXCEPT ![r.pack] = new] /\ trip' = trip
    BY <1>2 DEF TripsAfter, PacksAfter, PackOps, TripOps, AssignOps, ProgressOps
  <2>3. d \in Drivers \union {None} /\ v \in Vehicles \union {None} /\ today \in Nat
    <3>1. r.holder \in (Drivers \union {None}) \X (Vehicles \union {None})
      BY <1>2, SessionKinds, AwardAssumption DEF NewPackSession, IInv
    <3> QED
      BY <3>1 DEF IInv, TypeOK
  <2> HIDE DEF d, v, r
  <2>4. new \in PackRow
    BY <2>3 DEF NewPack, PackRow, PackStatus
  <2>5. /\ new.driver = d /\ new.vehicle = v /\ new.status = "pending"
        /\ new.submitted_at = today /\ new.evidence = None
    BY DEF NewPack
  <2> HIDE DEF new
  <2>6. (new.evidence = "high") = FALSE
    BY <2>5, NullBriefAssumption, Zenon
  <2>7. Brief(new) = [driver |-> new.driver, vehicle |-> new.vehicle, status |-> new.status,
                      submitted_at |-> new.submitted_at, fit |-> new.evidence = "high"]
    BY <2>4, BriefFacts
  <2>8. Brief(new) = [driver |-> d, vehicle |-> v, status |-> "pending",
                      submitted_at |-> today, fit |-> FALSE]
    BY <2>5, <2>6, <2>7, Zenon
  <2>9. Promise!SetPack(r.pack, Brief(new))
    BY <2>1, <2>2, <2>4, SetsPack DEF IInv, TypeOK
  <2>10. Briefs(pack)[r.pack] = None
    BY <2>1, BriefsAt DEF IInv, TypeOK
  <2>11. Promise!CreatePack(r.pack, d, v)
    BY <2>8, <2>9, <2>10, Zenon DEF Promise!CreatePack, Briefs
  <2> QED
    BY <2>1, <2>3, <2>11 DEF Promise!Next
<1> QED
  BY <1>1, <1>2

\* A run of the expiry job that still finds what it selected.
LEMMA SweepStep ==
    ASSUME IInv, NEW s \in Sessions, sess[s].op = "sweep", ~ Overtaken(s),
           trip' = TripsAfter(sess[s]), pack' = PacksAfter(sess[s]), today' = today
    PROVE  Promise!Next
<1> DEFINE r == sess[s]
<1>1. /\ pack \in [Packs -> PackRow \union {None}] /\ today \in Nat
      /\ ExpiryDays \in Nat
  BY PackAssumption DEF IInv, TypeOK
<1>2. r.rows = [p \in Packs |-> IF pack[p] # None /\ IsDue(pack[p], today) THEN pack[p]
                                ELSE None]
  BY DEF Overtaken, Selected
<1>3. /\ trip' = trip
      /\ pack' = [p \in Packs |->
                     IF r.rows[p] = None THEN pack[p]
                     ELSE Flushed(pack[p], r.rows[p], MovePack(r.rows[p], "expired", today))]
  BY DEF TripsAfter, PacksAfter, PackOps, TripOps, AssignOps, ProgressOps
<1> HIDE DEF r
<1>4. ASSUME NEW p \in Packs
      PROVE  Brief(pack'[p]) =
                 IF Promise!Outdated(p) THEN [Briefs(pack)[p] EXCEPT !.status = "expired"]
                 ELSE Briefs(pack)[p]
  <2>1. /\ pack[p] = None <=> Briefs(pack)[p] = None
        /\ Briefs(pack)[p] = Brief(pack[p])
        /\ pack[p] # None => /\ pack[p] \in PackRow
                             /\ Briefs(pack)[p].status = pack[p].status
                             /\ Briefs(pack)[p].submitted_at = pack[p].submitted_at
    BY <1>1, BriefsAt DEF Briefs
  <2>2. Promise!Outdated(p) <=> pack[p] # None /\ IsDue(pack[p], today)
    <3>1. CASE pack[p] = None
      BY <2>1, <3>1 DEF Promise!Outdated, Promise!Is, Briefs
    <3>2. CASE pack[p] # None
      <4>1. Promise!Outdated(p) <=>
                /\ pack[p].status \in {"pending", "auto_verified", "manually_cleared"}
                /\ today - pack[p].submitted_at > ExpiryDays
        BY <2>1, <3>2 DEF Promise!Outdated, Promise!Is, Promise!Row, Briefs
      <4>2. pack[p].submitted_at \in Nat
        BY <2>1, <3>2 DEF PackRow
      <4>3. today - pack[p].submitted_at > ExpiryDays <=>
                pack[p].submitted_at + ExpiryDays < today
        BY <1>1, <4>2
      <4> QED
        BY <3>2, <4>1, <4>3 DEF IsDue, SweptStatuses
    <3> QED
      BY <3>1, <3>2
  <2>3. CASE pack[p] # None /\ IsDue(pack[p], today)
    <3> DEFINE moved == MovePack(pack[p], "expired", today)
    <3>1. r.rows[p] = pack[p] /\ "expired" \in PackStatus
      BY <1>2, <2>3 DEF PackStatus
    <3>2. moved \in PackRow
      BY <1>1, <2>1, <2>3, <3>1, MoveFacts
    <3>3. Brief(moved) = MoveBrief(Brief(pack[p]), "expired", today)
      BY <1>1, <2>1, <2>3, <3>1, BriefMove
    <3> HIDE DEF moved
    <3>4. pack'[p] = Flushed(pack[p], pack[p], moved)
      BY <1>3, <2>3, <3>1 DEF moved
    <3>5. pack'[p] = moved
      BY <2>1, <2>3, <3>2, <3>4, FlushSame
    <3> QED
      <4>1. MoveBrief(Brief(pack[p]), "expired", today) =
                [Brief(pack[p]) EXCEPT !.status = "expired"]
        BY DEF MoveBrief
      <4> QED
        BY <2>1, <2>2, <2>3, <3>3, <3>5, <4>1, Zenon
  <2>4. CASE ~ (pack[p] # None /\ IsDue(pack[p], today))
    <3>1. r.rows[p] = None
      BY <1>2, <2>4
    <3>2. pack'[p] = pack[p]
      BY <1>3, <3>1
    <3> QED
      BY <2>1, <2>2, <2>4, <3>2, Zenon
  <2> QED
    BY <2>3, <2>4
<1>5. Promise!Sweep
  BY <1>3, <1>4 DEF Promise!Sweep, Promise!Row, Briefs
<1> QED
  BY <1>5 DEF Promise!Next

LEMMA EvidenceStep ==
    ASSUME IInv, NEW p \in Packs, NEW evidence \in {"low", "high"}, AttachEvidence(p, evidence)
    PROVE  Promise!Next
<1> DEFINE new == [pack[p] EXCEPT !.evidence = evidence]
           fit == evidence = "high"
<1>1. /\ pack \in [Packs -> PackRow \union {None}] /\ pack[p] # None /\ pack[p] \in PackRow
      /\ pack' = [pack EXCEPT ![p] = new] /\ trip' = trip /\ today' = today
  BY DEF AttachEvidence, IInv, TypeOK
<1>2. /\ new \in PackRow /\ new.driver = pack[p].driver /\ new.vehicle = pack[p].vehicle
      /\ new.status = pack[p].status /\ new.submitted_at = pack[p].submitted_at
      /\ new.evidence = evidence
  BY <1>1 DEF PackRow
<1> HIDE DEF new
<1>3. Brief(new) = [driver |-> pack[p].driver, vehicle |-> pack[p].vehicle,
                    status |-> pack[p].status, submitted_at |-> pack[p].submitted_at,
                    fit |-> fit]
  <2>1. Brief(new) = [driver |-> new.driver, vehicle |-> new.vehicle, status |-> new.status,
                      submitted_at |-> new.submitted_at, fit |-> new.evidence = "high"]
    BY <1>2, BriefFacts
  <2> QED
    BY <1>2, <2>1, Zenon
<1> DEFINE old == pack[p].evidence = "high"
<1>4. Brief(pack[p]) = [driver |-> pack[p].driver, vehicle |-> pack[p].vehicle,
                        status |-> pack[p].status, submitted_at |-> pack[p].submitted_at,
                        fit |-> old]
  BY <1>1, BriefFacts
<1>5. fit \in BOOLEAN
  OBVIOUS
<1> HIDE DEF fit, old
<1>6. Brief(new) = [Brief(pack[p]) EXCEPT !.fit = fit]
  BY <1>3, <1>4
<1>7. Promise!SetPack(p, Brief(new))
  BY <1>1, <1>2, SetsPack
<1>8. Briefs(pack)[p] = Brief(pack[p]) /\ Briefs(pack)[p] # None
  BY <1>1, BriefsAt
<1>9. Promise!Evidence(p)
  BY <1>5, <1>6, <1>7, <1>8 DEF Promise!Evidence, Promise!Row, Briefs
<1> QED
  BY <1>9 DEF Promise!Next

(***************************************************************************)
(* The refinement, step by step: whatever overlaps, fails or dies, trips   *)
(* and packs change by one operation of the promise at a time, with its    *)
(* gate open, its transition legal and its expiry due, unless a session    *)
(* ends that another one has overtaken (services/trip.py,                  *)
(* services/drivers_pack.py).                                              *)
(***************************************************************************)
THEOREM StepsKeepPromise == Spec => AtomicUnlessOvertaken
<1> DEFINE Keeps ==
        db # db' => \/ \E s \in Sessions : Overtaken(s) /\ Respond(s)
                    \/ Promise!Next
<1>1. IInv /\ RequestsHold /\ [Next]_vars => [Keeps]_db
  <2> SUFFICES ASSUME IInv, RequestsHold, Next, db' # db,
                      ~ \E s \in Sessions : Overtaken(s) /\ Respond(s)
               PROVE  Promise!Next
    BY DEF vars, db
  <2>1. \/ \E s \in Sessions : Respond(s) /\ sess[s].op \in Commits
        \/ \E p \in Packs, evidence \in {"low", "high"} : AttachEvidence(p, evidence)
        \/ NextDay
    BY DEF Next, db, CreateTrip, Assign, Award, Progress, Accept, CreatePack, HandlePack,
           Sweep, Open, CheckGate, Respond, Abort
  <2>2. ASSUME NEW s \in Sessions, Respond(s), sess[s].op \in Commits
        PROVE  Promise!Next
    <3>1. /\ trip' = TripsAfter(sess[s]) /\ pack' = PacksAfter(sess[s]) /\ today' = today
          /\ ~ Overtaken(s) /\ sess[s] # Idle
      BY <2>2 DEF Respond, Ready
    <3>2. sess[s].op \in Ops
      BY <3>1, SessionKinds DEF IInv
    <3> QED
      BY <3>1, <3>2, TripStep, PackStep, CreateStep, SweepStep DEF Ops
  <2>3. CASE NextDay
    BY <2>3 DEF NextDay, Promise!Next, Promise!NextDay
  <2> QED
    BY <2>1, <2>2, <2>3, EvidenceStep
<1>2. Spec => []RequestsHold
  BY RequestsInit, RequestsNext, Invariance, PTL DEF Spec
<1> QED
  BY <1>1, <1>2, Invariance, PTL DEF Spec, AtomicUnlessOvertaken
=============================================================================

--------------------------- MODULE DocumentsProofs ---------------------------
(***************************************************************************)
(* Proofs about Documents, for every set of sessions, trips, documents,    *)
(* routes, names and contents, and every choice of committing callers.     *)
(***************************************************************************)
EXTENDS DocumentsProperties, TLAPS

-----------------------------------------------------------------------------
(* The inductive invariant.                                                *)

UploadOps == {"upload", "carrier_upload"}

\* Whatever was told that its object is stored has one: rows, and uploads
\* between put and insert.
KeysStored ==
    /\ \A d \in Docs : docs[d] # None => docs[d].key \in DOMAIN objects
    /\ \A s \in Sessions :
        sess[s].op \in UploadOps /\ sess[s].store = "answered" => sess[s].key \in DOMAIN objects

\* A key tells the type and the file name of its upload.
KeysNamed ==
    /\ \A d \in Docs : docs[d] # None => docs[d].key[1] = docs[d].type
    /\ \A s \in Sessions :
        sess[s].op \in UploadOps => sess[s].key[1] = sess[s].type /\ sess[s].key[3] = sess[s].name

\* The id that an upload or a new trip has drawn is nobody else's.
IdsFresh ==
    \A s \in Sessions :
        /\ sess[s].op \in UploadOps =>
            /\ docs[sess[s].doc] = None
            /\ \A q \in Sessions : sess[q].op \in UploadOps /\ sess[q].doc = sess[s].doc => q = s
        /\ sess[s].op = "create_trip" =>
            /\ reqs[sess[s].trip] = None
            /\ \A q \in Sessions :
                sess[q].op = "create_trip" /\ sess[q].trip = sess[s].trip => q = s
        /\ sess[s].op = "verify" => docs[sess[s].doc] # None

\* The foreign key: the trip of a row is committed.
TripsKnown ==
    \A d \in Docs : docs[d] # None /\ docs[d].trip # None => reqs[docs[d].trip] # None

\* The requirement of one type of one trip agrees with the documents.
Fits(d, t, type) == docs[d] # None /\ docs[d].trip = t /\ docs[d].type = type

RequirementTrue(t, type) ==
    IF reqs[t][type].uploaded
    THEN reqs[t][type].document \in Docs /\ Fits(reqs[t][type].document, t, type)
    ELSE \A d \in Docs : ~ Fits(d, t, type)

RequirementsTrue ==
    \A t \in Trips : reqs[t] # None =>
        \A type \in DOMAIN reqs[t] : RequirementTrue(t, type)

IInv ==
    /\ TypeOK
    /\ KeysStored
    /\ KeysNamed
    /\ IdsFresh
    /\ TripsKnown
    /\ RequirementsTrue

-----------------------------------------------------------------------------
(* The operators of a session.                                             *)

Requests == UploadSession \union VerifySession \union TripSession

\* An open session is of the kind its operation says.
LEMMA SessionKinds ==
    ASSUME TypeOK, NEW s \in Sessions
    PROVE  /\ sess[s].op \in UploadOps => sess[s] \in UploadSession
           /\ sess[s].op = "verify" => sess[s] \in VerifySession
           /\ sess[s].op = "create_trip" => sess[s] \in TripSession
           /\ sess[s].op = "straggler" => sess[s] \in Straggler
BY DEF TypeOK, Idle, UploadOps, UploadSession, VerifySession, TripSession, Straggler

LEMMA FlushFacts ==
    ASSUME NEW stored \in DocRow, NEW loaded \in DocRow, NEW assigned \in DocRow
    PROVE  LET f == Flushed(stored, loaded, assigned) IN
           /\ f \in DocRow
           /\ \A c \in {"trip", "type", "key", "verified", "by", "notes"} :
                 f[c] = IF assigned[c] = loaded[c] THEN stored[c] ELSE assigned[c]
BY DEF DocRow, Flushed

LEMMA JudgedFacts ==
    ASSUME NEW r \in VerifySession
    PROVE  /\ r.row \in DocRow /\ r.verdict \in BOOLEAN /\ r.by \in Reviewers
           /\ Judged(r) \in DocRow
           /\ Judged(r).trip = r.row.trip /\ Judged(r).type = r.row.type /\ Judged(r).key = r.row.key
           /\ Judged(r).verified = r.verdict /\ Judged(r).by = r.by /\ Judged(r).notes = r.verdict
BY DEF VerifySession, Judged, DocRow

\* A verdict leaves alone what the document is, and sets the flag or keeps it.
LEMMA VerdictFacts ==
    ASSUME TypeOK, NEW s \in Sessions, sess[s].op = "verify", docs[sess[s].doc] # None
    PROVE  LET r == sess[s]
               d == docs[r.doc]
               f == Flushed(d, r.row, Judged(r)) IN
           /\ r.doc \in Docs /\ d \in DocRow /\ f \in DocRow
           /\ f.trip = d.trip /\ f.type = d.type /\ f.key = d.key
           /\ f.verified \in {d.verified, r.verdict}
           /\ d = r.row => f = Judged(r)
<1> DEFINE r == sess[s]
           d == docs[r.doc]
           f == Flushed(d, r.row, Judged(r))
<1>1. r \in VerifySession
  BY SessionKinds
<1>2. r.doc \in Docs
  BY <1>1 DEF VerifySession
<1>3. d \in DocRow
  BY <1>2 DEF TypeOK
<1>4. /\ r.row \in DocRow /\ Judged(r) \in DocRow
      /\ Judged(r).trip = r.row.trip /\ Judged(r).type = r.row.type /\ Judged(r).key = r.row.key
      /\ Judged(r).verified = r.verdict
  BY <1>1, JudgedFacts
<1> HIDE DEF r, d
<1>5. /\ f \in DocRow
      /\ f.trip = d.trip /\ f.type = d.type /\ f.key = d.key
      /\ f.verified \in {d.verified, r.verdict}
  BY <1>3, <1>4, FlushFacts
<1>6. d = r.row => f = Judged(r)
  BY <1>3, <1>4 DEF Flushed, DocRow
<1> QED
  BY <1>2, <1>3, <1>5, <1>6 DEF r, d

\* The requirements of every route are one of three sets.
LEMMA RouteFacts ==
    ASSUME NEW origin, NEW destination
    PROVE  RequiredDocTypes(origin, destination, {}) \in RequiredSets
<1>1. CountryDocs(destination, {}) \in {{}, {"transit_bond"}}
  BY DEF CountryDocs
<1>2. MandatorySaOrigin \union {} = MandatorySaOrigin
  OBVIOUS
<1> QED
  BY <1>1, <1>2 DEF RequiredDocTypes, RequiredSets, AllRequired

-----------------------------------------------------------------------------
(* Steps that leave the tables alone.                                      *)

LEMMA TablesUnchanged ==
    ASSUME TripsKnown, RequirementsTrue, UNCHANGED <<reqs, docs>>
    PROVE  TripsKnown' /\ RequirementsTrue'
BY DEF TripsKnown, RequirementsTrue, RequirementTrue, Fits

LEMMA InitInv == Init => IInv
<1> SUFFICES ASSUME Init PROVE IInv
  OBVIOUS
<1>1. TypeOK
  BY DEF Init, TypeOK
<1>2. KeysStored /\ KeysNamed /\ IdsFresh
  BY DEF Init, KeysStored, KeysNamed, IdsFresh, Idle, UploadOps
<1>3. TripsKnown /\ RequirementsTrue
  BY DEF Init, TripsKnown, RequirementsTrue
<1> QED
  BY <1>1, <1>2, <1>3 DEF IInv

\* A request may be opened if the ids it brings are new and its document exists.
LEMMA OpenInv ==
    ASSUME IInv, NEW s \in Sessions, NEW request \in Requests, Open(s, request),
           request.op \in UploadOps =>
               /\ request.store = "waiting" /\ docs[request.doc] = None
               /\ request.key[1] = request.type /\ request.key[3] = request.name
               /\ \A q \in Sessions : sess[q].op \in UploadOps => sess[q].doc # request.doc,
           request.op = "create_trip" =>
               /\ reqs[request.trip] = None
               /\ \A q \in Sessions : sess[q].op = "create_trip" => sess[q].trip # request.trip,
           request.op = "verify" => docs[request.doc] # None
    PROVE  IInv'
<1>1. sess' = [sess EXCEPT ![s] = request] /\ UNCHANGED <<reqs, docs, objects, clock>>
      /\ sess[s] = Idle
  BY DEF Open
<1>2. sess'[s] = request /\ \A q \in Sessions \ {s} : sess'[q] = sess[q]
  BY <1>1 DEF IInv, TypeOK
<1>3. TypeOK'
  BY <1>1 DEF IInv, TypeOK, Requests
<1>4. KeysStored' /\ KeysNamed'
  BY <1>1, <1>2 DEF IInv, KeysStored, KeysNamed
<1>5. IdsFresh'
  <2> SUFFICES ASSUME NEW p \in Sessions
               PROVE  /\ sess'[p].op \in UploadOps =>
                          /\ docs[sess'[p].doc] = None
                          /\ \A q \in Sessions :
                              sess'[q].op \in UploadOps /\ sess'[q].doc = sess'[p].doc => q = p
                      /\ sess'[p].op = "create_trip" =>
                          /\ reqs[sess'[p].trip] = None
                          /\ \A q \in Sessions :
                              sess'[q].op = "create_trip" /\ sess'[q].trip = sess'[p].trip => q = p
                      /\ sess'[p].op = "verify" => docs[sess'[p].doc] # None
    BY <1>1 DEF IdsFresh
  <2> QED
    BY <1>2 DEF IInv, IdsFresh
<1> QED
  BY <1>1, <1>3, <1>4, <1>5, TablesUnchanged DEF IInv

LEMMA FinishFacts ==
    ASSUME TypeOK, NEW s \in Sessions,
           Finish(s) \/ (sess[s].op \in UploadOps /\ FinishPut(s))
    PROVE  /\ sess'[s] \in {Idle} \union Straggler
           /\ \A q \in Sessions \ {s} : sess'[q] = sess[q]
           /\ sess' \in [Sessions -> {Idle} \union UploadSession \union VerifySession
                                       \union TripSession \union Straggler]
           /\ \A q \in Sessions : sess'[q].op \in Ops => q # s /\ sess'[q] = sess[q]
<1>1. PICK left \in {Idle} \union Straggler : sess' = [sess EXCEPT ![s] = left]
  <2>1. CASE Finish(s)
    BY <2>1 DEF Finish
  <2>2. CASE sess[s].op \in UploadOps /\ FinishPut(s)
    <3>1. sess[s] \in UploadSession
      BY <2>2, SessionKinds
    <3>2. [op |-> "straggler", key |-> sess[s].key, content |-> sess[s].content] \in Straggler
      BY <3>1 DEF UploadSession, Straggler
    <3> QED
      BY <2>2, <3>2 DEF FinishPut, Finish
  <2> QED
    BY <2>1, <2>2
<1>2. left.op \notin Ops
  BY DEF Idle, Straggler, Ops
<1> QED
  BY <1>1, <1>2 DEF TypeOK

LEMMA CloseInv ==
    ASSUME IInv, NEW s \in Sessions, UNCHANGED <<reqs, docs, objects, clock>>,
           Finish(s) \/ (sess[s].op \in UploadOps /\ FinishPut(s))
    PROVE  IInv'
<1>1. /\ sess' \in [Sessions -> {Idle} \union UploadSession \union VerifySession
                                   \union TripSession \union Straggler]
      /\ \A q \in Sessions : sess'[q].op \in Ops => q # s /\ sess'[q] = sess[q]
  BY FinishFacts DEF IInv
<1>2. TypeOK'
  BY <1>1 DEF IInv, TypeOK
<1>3. KeysStored' /\ KeysNamed'
  BY <1>1 DEF IInv, KeysStored, KeysNamed, UploadOps, Ops
<1>4. IdsFresh'
  BY <1>1 DEF IInv, IdsFresh, UploadOps, Ops
<1> QED
  BY <1>2, <1>3, <1>4, TablesUnchanged DEF IInv

\* A stored object keeps the type of the store and only adds a key.
LEMMA StoredFacts ==
    ASSUME TypeOK, NEW key \in Keys, NEW content \in Contents, objects' = Stored(key, content)
    PROVE  /\ DOMAIN objects' = DOMAIN objects \union {key}
           /\ \A k \in DOMAIN objects' : k \in Keys /\ objects'[k] \in Contents
           /\ \A k \in DOMAIN objects : k # key => objects'[k] = objects[k]
BY DEF TypeOK, Stored

\* The object is there before anything refers to its key.
LEMMA PutInv ==
    ASSUME IInv, NEW s \in Sessions, Put(s)
    PROVE  IInv'
<1> DEFINE r == sess[s]
           w == [r EXCEPT !.store = "answered"]
<1>1. /\ r.op \in UploadOps /\ objects' = Stored(r.key, r.content)
      /\ sess' = [sess EXCEPT ![s] = w]
      /\ UNCHANGED <<reqs, docs, clock>>
  BY DEF Put, Uploading, UploadOps
<1>2. r \in UploadSession /\ r.key \in Keys /\ r.content \in Contents
  BY <1>1, SessionKinds DEF IInv, UploadSession
<1>3. w \in UploadSession /\ w.op = r.op /\ w.doc = r.doc /\ w.key = r.key
      /\ w.type = r.type /\ w.name = r.name
  BY <1>2 DEF UploadSession
<1>4. sess'[s] = w /\ \A q \in Sessions \ {s} : sess'[q] = sess[q]
  BY <1>1 DEF IInv, TypeOK
<1>5. /\ DOMAIN objects' = DOMAIN objects \union {r.key}
      /\ \A k \in DOMAIN objects' : k \in Keys /\ objects'[k] \in Contents
  BY <1>1, <1>2, StoredFacts DEF IInv
<1>6. TypeOK'
  <2>1. sess' \in [Sessions -> {Idle} \union UploadSession \union VerifySession
                                \union TripSession \union Straggler]
    BY <1>1, <1>3 DEF IInv, TypeOK
  <2> QED
    BY <1>1, <1>5, <2>1 DEF IInv, TypeOK
<1> HIDE DEF r, w
<1>7. KeysStored'
  BY <1>1, <1>3, <1>4, <1>5 DEF IInv, KeysStored
<1>8. KeysNamed'
  BY <1>1, <1>3, <1>4 DEF IInv, KeysNamed, r
<1>9. IdsFresh'
  <2>1. \A q \in Sessions : sess'[q].op = sess[q].op
    BY <1>3, <1>4 DEF r
  <2>2. \A q \in Sessions : sess[q].op \in UploadOps => sess'[q].doc = sess[q].doc
    BY <1>3, <1>4 DEF r
  <2>3. \A q \in Sessions : sess[q].op \notin UploadOps => sess'[q] = sess[q]
    BY <1>1, <1>4 DEF r
  <2>4. "verify" \notin UploadOps /\ "create_trip" \notin UploadOps
    BY DEF UploadOps
  <2> QED
    BY <1>1, <2>1, <2>2, <2>3, <2>4 DEF IInv, IdsFresh
<1> QED
  BY <1>1, <1>6, <1>7, <1>9, <1>8, TablesUnchanged DEF IInv

\* A straggler adds or replaces an object.
LEMMA LandInv ==
    ASSUME IInv, NEW s \in Sessions, Land(s)
    PROVE  IInv'
<1>1. /\ sess[s].op = "straggler" /\ objects' = Stored(sess[s].key, sess[s].content)
      /\ Finish(s) /\ UNCHANGED <<reqs, docs, clock>>
  BY DEF Land
<1>2. sess[s].key \in Keys /\ sess[s].content \in Contents
  BY <1>1, SessionKinds DEF IInv, Straggler
<1>3. /\ DOMAIN objects' = DOMAIN objects \union {sess[s].key}
      /\ \A k \in DOMAIN objects' : k \in Keys /\ objects'[k] \in Contents
  BY <1>1, <1>2, StoredFacts DEF IInv
<1>4. /\ sess' \in [Sessions -> {Idle} \union UploadSession \union VerifySession
                                   \union TripSession \union Straggler]
      /\ \A q \in Sessions : sess'[q].op \in Ops => q # s /\ sess'[q] = sess[q]
  BY <1>1, FinishFacts DEF IInv
<1>5. TypeOK'
  BY <1>1, <1>3, <1>4 DEF IInv, TypeOK
<1>6. KeysStored' /\ KeysNamed'
  BY <1>1, <1>3, <1>4 DEF IInv, KeysStored, KeysNamed, UploadOps, Ops
<1>7. IdsFresh'
  BY <1>1, <1>4 DEF IInv, IdsFresh, UploadOps, Ops
<1> QED
  BY <1>1, <1>5, <1>6, <1>7, TablesUnchanged DEF IInv

-----------------------------------------------------------------------------
(* Commits.                                                                *)

\* The row of an upload and the requirement it fulfils.
LEMMA UploadInv ==
    ASSUME IInv, NEW s \in Sessions, FinishUpload(s)
    PROVE  IInv'
<1> DEFINE r   == sess[s]
           new == [trip |-> r.trip, type |-> r.type, key |-> r.key,
                   verified |-> FALSE, by |-> None, notes |-> None]
<1>1. /\ r.op \in UploadOps /\ r.store = "answered" /\ FinishPut(s) /\ UNCHANGED <<objects, clock>>
      /\ IF TripKnown(r) /\ r.op \in Commits
         THEN docs' = [docs EXCEPT ![r.doc] = new] /\ reqs' = Fulfilled(r)
         ELSE UNCHANGED <<reqs, docs>>
  BY DEF FinishUpload, Uploading, UploadOps, db
<1>2. CASE ~ (TripKnown(r) /\ r.op \in Commits)
  BY <1>1, <1>2, CloseInv
<1>3. CASE TripKnown(r) /\ r.op \in Commits
  <2>1. r \in UploadSession
    BY <1>1, SessionKinds DEF IInv
  <2>2. /\ r.doc \in Docs /\ r.trip \in Trips \union {None} /\ r.type \in Types /\ r.key \in Keys
        /\ None \notin Trips /\ None \notin Docs
    BY <1>1, <2>1, DocumentsAssumption DEF UploadSession
  <2>3. /\ docs[r.doc] = None /\ r.key \in DOMAIN objects
        /\ \A q \in Sessions : sess[q].op \in UploadOps /\ sess[q].doc = r.doc => q = s
    BY <1>1 DEF IInv, IdsFresh, KeysStored
  <2>4. /\ sess'[s] \in {Idle} \union Straggler /\ sess'[s].op \notin Ops
        /\ \A q \in Sessions \ {s} : sess'[q] = sess[q]
        /\ sess' \in [Sessions -> {Idle} \union UploadSession \union VerifySession
                                    \union TripSession \union Straggler]
    BY <1>1, FinishFacts DEF IInv
  <2>5. /\ docs' = [docs EXCEPT ![r.doc] = new]
        /\ reqs' = IF r.trip # None /\ r.type \in DOMAIN reqs[r.trip]
                   THEN [reqs EXCEPT ![r.trip][r.type] = [uploaded |-> TRUE, document |-> r.doc]]
                   ELSE reqs
        /\ r.trip # None => reqs[r.trip] # None
    BY <1>1, <1>3 DEF Fulfilled, TripKnown
  <2> HIDE DEF r
  <2>6. new \in DocRow /\ new # None /\ new.trip = r.trip /\ new.type = r.type /\ new.key = r.key
    <3>1. new \in DocRow
      BY <2>2 DEF DocRow
    <3>2. None \notin DocRow
      BY NullDocumentAssumption
    <3> QED
      BY <3>1, <3>2
  <2> HIDE DEF new
  <2>7. docs'[r.doc] = new /\ \A d \in Docs \ {r.doc} : docs'[d] = docs[d]
    BY <2>2, <2>5 DEF IInv, TypeOK
  <2>8. \A t \in Trips : \A types \in RequiredSets :
            reqs[t] \in [types -> Requirement] => reqs'[t] \in [types -> Requirement]
    <3>1. [uploaded |-> TRUE, document |-> r.doc] \in Requirement
      BY <2>2 DEF Requirement
    <3>2. CASE r.trip # None /\ r.type \in DOMAIN reqs[r.trip]
      <4>1. /\ r.trip \in Trips
            /\ reqs'[r.trip] = [reqs[r.trip] EXCEPT ![r.type] = [uploaded |-> TRUE, document |-> r.doc]]
            /\ \A t \in Trips \ {r.trip} : reqs'[t] = reqs[t]
        BY <2>2, <2>5, <3>2 DEF IInv, TypeOK
      <4> QED
        BY <3>1, <4>1
    <3> QED
      BY <2>5, <3>2
  <2>9. \A t \in Trips : (reqs[t] # None <=> reqs'[t] # None) /\ DOMAIN reqs'[t] = DOMAIN reqs[t]
    <3> TAKE t \in Trips
    <3>1. CASE reqs[t] = None
      <4>1. r.trip # t
        BY <2>2, <2>5, <3>1
      <4> QED
        BY <2>2, <2>5, <4>1 DEF IInv, TypeOK
    <3>2. CASE reqs[t] # None
      <4>1. PICK types \in RequiredSets : reqs[t] \in [types -> Requirement]
        BY <3>2 DEF IInv, TypeOK
      <4>2. reqs'[t] \in [types -> Requirement]
        BY <2>8, <4>1
      <4>3. None \notin [types -> Requirement]
        BY NullDocumentAssumption
      <4> QED
        BY <4>1, <4>2, <4>3
    <3> QED
      BY <3>1, <3>2
  <2>10. TypeOK'
    <3>1. DOMAIN reqs' = Trips
      BY <2>5 DEF IInv, TypeOK
    <3>2. \A t \in Trips : reqs'[t] = None \/ \E types \in RequiredSets : reqs'[t] \in [types -> Requirement]
      BY <2>8, <2>9 DEF IInv, TypeOK
    <3>3. docs' \in [Docs -> DocRow \union {None}]
      BY <2>2, <2>5, <2>6 DEF IInv, TypeOK
    <3> QED
      BY <1>1, <2>4, <3>1, <3>2, <3>3 DEF IInv, TypeOK
  <2>11. KeysStored'
    BY <1>1, <2>3, <2>4, <2>6, <2>7 DEF IInv, KeysStored, UploadOps, Ops
  <2>12. IdsFresh'
    <3> SUFFICES ASSUME NEW p \in Sessions
                 PROVE  /\ sess'[p].op \in UploadOps =>
                            /\ docs'[sess'[p].doc] = None
                            /\ \A q \in Sessions :
                                sess'[q].op \in UploadOps /\ sess'[q].doc = sess'[p].doc => q = p
                        /\ sess'[p].op = "create_trip" =>
                            /\ reqs'[sess'[p].trip] = None
                            /\ \A q \in Sessions :
                                sess'[q].op = "create_trip" /\ sess'[q].trip = sess'[p].trip => q = p
                        /\ sess'[p].op = "verify" => docs'[sess'[p].doc] # None
      BY DEF IdsFresh
    <3>1. CASE p = s
      BY <2>4, <3>1 DEF UploadOps, Ops
    <3>2. CASE p # s
      <4>1. sess'[p] = sess[p]
        BY <2>4, <3>2
      <4>2. ASSUME sess[p].op \in UploadOps
            PROVE  /\ docs'[sess[p].doc] = None
                   /\ \A q \in Sessions :
                       sess'[q].op \in UploadOps /\ sess'[q].doc = sess[p].doc => q = p
        <5>1. sess[p].doc \in Docs
          BY <4>2, SessionKinds DEF IInv, UploadSession
        <5>2. sess[p].doc # r.doc
          BY <2>3, <3>2, <4>2
        <5> QED
          BY <2>4, <2>7, <4>2, <5>1, <5>2 DEF IInv, IdsFresh, UploadOps, Ops
      <4>3. ASSUME sess[p].op = "create_trip"
            PROVE  /\ reqs'[sess[p].trip] = None
                   /\ \A q \in Sessions :
                       sess'[q].op = "create_trip" /\ sess'[q].trip = sess[p].trip => q = p
        <5>1. sess[p].trip \in Trips
          BY <4>3, SessionKinds DEF IInv, TripSession
        <5> QED
          BY <2>4, <2>9, <4>3, <5>1 DEF IInv, IdsFresh, Ops
      <4>4. ASSUME sess[p].op = "verify"
            PROVE  docs'[sess[p].doc] # None
        <5>1. sess[p].doc \in Docs
          BY <4>4, SessionKinds DEF IInv, VerifySession
        <5> QED
          BY <2>6, <2>7, <4>4, <5>1 DEF IInv, IdsFresh
      <4> QED
        BY <4>1, <4>2, <4>3, <4>4
    <3> QED
      BY <3>1, <3>2
  <2>13. TripsKnown'
    <3> SUFFICES ASSUME NEW d \in Docs, docs'[d] # None, docs'[d].trip # None
                 PROVE  reqs'[docs'[d].trip] # None
      BY DEF TripsKnown
    <3>1. CASE d = r.doc
      BY <2>2, <2>5, <2>6, <2>7, <2>9, <3>1
    <3>2. CASE d # r.doc
      <4>1. docs[d].trip \in Trips /\ reqs[docs[d].trip] # None /\ docs'[d] = docs[d]
        BY <2>7, <3>2 DEF IInv, TypeOK, DocRow, TripsKnown
      <4> QED
        BY <2>9, <4>1
    <3> QED
      BY <3>1, <3>2
  <2>14. RequirementsTrue'
    <3> SUFFICES ASSUME NEW t \in Trips, reqs'[t] # None, NEW type \in DOMAIN reqs'[t]
                 PROVE  RequirementTrue(t, type)'
      BY DEF RequirementsTrue
    <3>1. reqs[t] # None /\ type \in DOMAIN reqs[t]
      BY <2>9
    <3>2. CASE t = r.trip /\ type = r.type
      <4>1. reqs'[t][type] = [uploaded |-> TRUE, document |-> r.doc]
        <5>1. reqs' = [reqs EXCEPT ![t][type] = [uploaded |-> TRUE, document |-> r.doc]]
          BY <2>2, <2>5, <3>1, <3>2
        <5> QED
          BY <3>1, <5>1 DEF IInv, TypeOK
      <4>2. docs'[r.doc] # None /\ docs'[r.doc].trip = t /\ docs'[r.doc].type = type
        BY <2>6, <2>7, <3>2
      <4> QED
        BY <2>2, <4>1, <4>2 DEF RequirementTrue, Fits
    <3>3. CASE ~ (t = r.trip /\ type = r.type)
      <4>1. reqs'[t][type] = reqs[t][type]
        <5>1. CASE r.trip # None /\ r.type \in DOMAIN reqs[r.trip]
          <6>1. reqs' = [reqs EXCEPT ![r.trip] =
                            [@ EXCEPT ![r.type] = [uploaded |-> TRUE, document |-> r.doc]]]
            BY <2>5, <5>1
          <6> QED
            BY <2>2, <3>1, <3>3, <5>1, <6>1 DEF IInv, TypeOK
        <5> QED
          BY <2>5, <5>1
      <4>2. \A d \in Docs : Fits(d, t, type)' <=> Fits(d, t, type)
        BY <2>3, <2>6, <2>7, <3>3 DEF Fits
      <4>3. RequirementTrue(t, type)
        BY <3>1 DEF IInv, RequirementsTrue
      <4> QED
        BY <4>1, <4>2, <4>3 DEF RequirementTrue
    <3> QED
      BY <3>2, <3>3
  <2>15. KeysNamed'
    <3>1. r.key[1] = r.type
      BY <1>1 DEF IInv, KeysNamed, r
    <3> QED
      BY <3>1, <2>4, <2>6, <2>7 DEF IInv, KeysNamed, UploadOps, Ops
  <2> QED
    BY <2>10, <2>11, <2>12, <2>13, <2>14, <2>15 DEF IInv
<1> QED
  BY <1>2, <1>3

\* A verdict on a row that may have changed since it was loaded.
LEMMA VerifyInv ==
    ASSUME IInv, NEW s \in Sessions, FinishVerify(s)
    PROVE  IInv'
<1> DEFINE r == sess[s]
           f == Flushed(docs[r.doc], r.row, Judged(r))
<1>1. /\ r.op = "verify" /\ Finish(s) /\ UNCHANGED <<reqs, objects, clock>>
      /\ IF "verify" \in Commits THEN docs' = [docs EXCEPT ![r.doc] = f] ELSE UNCHANGED docs
  BY DEF FinishVerify
<1>2. CASE "verify" \notin Commits
  BY <1>1, <1>2, CloseInv
<1>3. CASE "verify" \in Commits
  <2>1. docs[r.doc] # None
    BY <1>1 DEF IInv, IdsFresh
  <2>2. /\ r.doc \in Docs /\ docs[r.doc] \in DocRow /\ f \in DocRow
        /\ f.trip = docs[r.doc].trip /\ f.type = docs[r.doc].type /\ f.key = docs[r.doc].key
    BY <1>1, <2>1, VerdictFacts DEF IInv
  <2>3. sess'[s] = Idle /\ (\A q \in Sessions \ {s} : sess'[q] = sess[q]) /\ Idle.op = "idle"
    BY <1>1 DEF IInv, TypeOK, Finish, Idle
  <2>4. docs' = [docs EXCEPT ![r.doc] = f]
    BY <1>1, <1>3
  <2>5. f # None
    BY <2>2, NullDocumentAssumption
  <2> HIDE DEF r, f
  <2>6. \A d \in Docs : (docs'[d] # None <=> docs[d] # None)
    BY <2>1, <2>2, <2>4, <2>5 DEF IInv, TypeOK
  <2>7. \A d \in Docs : docs[d] # None =>
            docs'[d].trip = docs[d].trip /\ docs'[d].type = docs[d].type /\ docs'[d].key = docs[d].key
    BY <2>2, <2>4 DEF IInv, TypeOK
  <2>8. TypeOK'
    BY <1>1, <2>2, <2>4 DEF IInv, TypeOK, Finish
  <2>9. KeysStored' /\ KeysNamed'
    BY <1>1, <2>3, <2>6, <2>7 DEF IInv, KeysStored, KeysNamed, UploadOps
  <2>10. IdsFresh'
    <3>1. \A q \in Sessions : sess'[q].op # "idle" => sess'[q] = sess[q] /\ sess[q].op # "idle"
      BY <2>3
    <3>2. \A q \in Sessions : sess[q].op \in UploadOps \union {"verify"} => sess[q].doc \in Docs
      BY SessionKinds DEF IInv, UploadSession, VerifySession
    <3> QED
      BY <1>1, <2>6, <3>1, <3>2 DEF IInv, IdsFresh, UploadOps
  <2>11. TripsKnown'
    BY <1>1, <2>6, <2>7 DEF IInv, TripsKnown
  <2>12. RequirementsTrue'
    <3>1. \A d \in Docs : \A t, type : Fits(d, t, type)' <=> Fits(d, t, type)
      BY <2>6, <2>7 DEF Fits
    <3> QED
      BY <1>1, <3>1 DEF IInv, RequirementsTrue, RequirementTrue
  <2> QED
    BY <2>8, <2>9, <2>10, <2>11, <2>12 DEF IInv
<1> QED
  BY <1>2, <1>3

\* A new trip has no documents yet, and none of its requirements is met.
LEMMA TripInv ==
    ASSUME IInv, NEW s \in Sessions, FinishTrip(s)
    PROVE  IInv'
<1> DEFINE r     == sess[s]
           types == RequiredDocTypes(r.route[1], r.route[2], {})
           new   == [type \in types |-> NewRequirement]
<1>1. /\ r.op = "create_trip" /\ Finish(s) /\ UNCHANGED <<docs, objects, clock>>
      /\ IF "create_trip" \in Commits THEN reqs' = [reqs EXCEPT ![r.trip] = new] ELSE UNCHANGED reqs
  BY DEF FinishTrip
<1>2. CASE "create_trip" \notin Commits
  BY <1>1, <1>2, CloseInv
<1>3. CASE "create_trip" \in Commits
  <2>1. /\ r.trip \in Trips /\ reqs[r.trip] = None
        /\ \A q \in Sessions : sess[q].op = "create_trip" /\ sess[q].trip = r.trip => q = s
    BY <1>1, SessionKinds DEF IInv, IdsFresh, TripSession
  <2>2. types \in RequiredSets
    BY RouteFacts
  <2>3. sess'[s] = Idle /\ (\A q \in Sessions \ {s} : sess'[q] = sess[q]) /\ Idle.op = "idle"
    BY <1>1 DEF IInv, TypeOK, Finish, Idle
  <2> HIDE DEF r, types
  <2>4. new \in [types -> Requirement] /\ \A type \in types : ~ new[type].uploaded
    BY DEF NewRequirement, Requirement
  <2>5. reqs' = [reqs EXCEPT ![r.trip] = new] /\ DOMAIN new = types
    BY <1>1, <1>3
  <2> HIDE DEF new
  <2>6. reqs'[r.trip] = new /\ \A t \in Trips \ {r.trip} : reqs'[t] = reqs[t]
    BY <2>1, <2>5 DEF IInv, TypeOK
  <2>7. TypeOK'
    <3>1. DOMAIN reqs' = Trips
      BY <2>5 DEF IInv, TypeOK
    <3>2. \A t \in Trips :
              reqs'[t] = None \/ \E set \in RequiredSets : reqs'[t] \in [set -> Requirement]
      BY <2>2, <2>4, <2>6 DEF IInv, TypeOK
    <3> QED
      BY <1>1, <3>1, <3>2 DEF IInv, TypeOK, Finish
  <2>8. KeysStored' /\ KeysNamed'
    BY <1>1, <2>3 DEF IInv, KeysStored, KeysNamed, UploadOps
  <2>9. IdsFresh'
    <3>1. \A q \in Sessions : sess'[q].op # "idle" =>
              q # s /\ sess'[q] = sess[q] /\ sess[q].op # "idle"
      BY <2>3
    <3>2. \A q \in Sessions : sess[q].op = "create_trip" => sess[q].trip \in Trips
      BY SessionKinds DEF IInv, TripSession
    <3>3. \A q \in Sessions : sess'[q].op = "create_trip" => reqs'[sess'[q].trip] = None
      BY <2>1, <2>6, <3>1, <3>2 DEF IInv, IdsFresh
    <3> QED
      BY <1>1, <3>1, <3>3 DEF IInv, IdsFresh, UploadOps
  <2>10. \A d \in Docs : docs[d] # None => docs[d].trip # r.trip
    <3>1. None \notin Trips
      BY DocumentsAssumption
    <3> QED
      BY <2>1, <3>1 DEF IInv, TripsKnown
  <2>11. TripsKnown'
    <3> SUFFICES ASSUME NEW d \in Docs, docs[d] # None, docs[d].trip # None
                 PROVE  reqs'[docs[d].trip] # None
      BY <1>1 DEF TripsKnown
    <3>1. docs[d].trip \in Trips
      BY DEF IInv, TypeOK, DocRow
    <3> QED
      BY <2>6, <2>10, <3>1 DEF IInv, TripsKnown
  <2>12. RequirementsTrue'
    <3> SUFFICES ASSUME NEW t \in Trips, reqs'[t] # None, NEW type \in DOMAIN reqs'[t]
                 PROVE  RequirementTrue(t, type)'
      BY DEF RequirementsTrue
    <3>1. CASE t = r.trip
      <4>1. \A d \in Docs : ~ Fits(d, t, type)'
        BY <1>1, <2>10, <3>1 DEF Fits
      <4>2. ~ reqs'[t][type].uploaded
        BY <2>4, <2>5, <2>6, <3>1
      <4> QED
        BY <4>1, <4>2 DEF RequirementTrue
    <3>2. CASE t # r.trip
      BY <1>1, <2>6, <3>2 DEF IInv, RequirementsTrue, RequirementTrue, Fits
    <3> QED
      BY <3>1, <3>2
  <2> QED
    BY <2>7, <2>8, <2>9, <2>11, <2>12 DEF IInv
<1> QED
  BY <1>2, <1>3

\* The clock, and steps that change nothing.
LEMMA TickInv ==
    ASSUME IInv, UNCHANGED <<reqs, docs, objects, sess>>, clock' \in Nat
    PROVE  IInv'
<1>1. TypeOK'
  BY DEF IInv, TypeOK
<1>2. KeysStored' /\ KeysNamed' /\ IdsFresh'
  BY DEF IInv, KeysStored, KeysNamed, IdsFresh
<1> QED
  BY <1>1, <1>2, TablesUnchanged DEF IInv

LEMMA NextInv == IInv /\ [Next]_vars => IInv'
<1> SUFFICES ASSUME IInv, [Next]_vars PROVE IInv'
  OBVIOUS
<1>1. ASSUME NEW s \in Sessions, NEW t \in Trips, NEW route \in Routes, CreateTrip(s, t, route)
      PROVE  IInv'
  <2> DEFINE request == [op |-> "create_trip", trip |-> t, route |-> route]
  <2>1. request \in Requests /\ request.op = "create_trip" /\ request.op \notin UploadOps
        /\ request.trip = t
    BY DEF Requests, TripSession, UploadOps
  <2>2. reqs[t] = None /\ Open(s, request)
        /\ \A q \in Sessions : sess[q].op = "create_trip" => sess[q].trip # t
    BY <1>1 DEF CreateTrip
  <2> HIDE DEF request
  <2> QED
    BY <2>1, <2>2, OpenInv
<1>2. ASSUME NEW s \in Sessions, NEW op \in UploadOps, NEW d \in Docs,
             NEW t \in Trips \union {None}, NEW type \in Types, NEW name \in Names,
             NEW content \in Contents, OpenUpload(s, op, d, t, type, name, content)
      PROVE  IInv'
  <2> DEFINE request == [op |-> op, doc |-> d, trip |-> t, type |-> type, name |-> name,
                         content |-> content, key |-> StorageKey(type, clock, name),
                         store |-> "waiting"]
  <2>1. request \in Requests /\ request.op \in UploadOps /\ request.op # "create_trip"
        /\ request.op # "verify" /\ request.store = "waiting" /\ request.doc = d
        /\ request.key[1] = request.type /\ request.key[3] = request.name
    <3>1. StorageKey(type, clock, name) \in Keys
      BY DEF StorageKey, Keys, IInv, TypeOK
    <3> QED
      BY <3>1 DEF Requests, UploadSession, UploadOps, StorageKey
  <2>2. docs[d] = None /\ Open(s, request)
        /\ \A q \in Sessions : sess[q].op \in UploadOps => sess[q].doc # d
    BY <1>2 DEF OpenUpload, UploadOps
  <2> HIDE DEF request
  <2> QED
    BY <2>1, <2>2, OpenInv
<1>3. ASSUME NEW s \in Sessions, NEW d \in Docs, NEW verdict \in BOOLEAN, NEW reviewer \in Reviewers,
             Verify(s, d, verdict, reviewer)
      PROVE  IInv'
  <2> DEFINE request == [op |-> "verify", doc |-> d, row |-> docs[d], verdict |-> verdict,
                         by |-> reviewer]
  <2>1. docs[d] # None /\ Open(s, request)
    BY <1>3 DEF Verify
  <2>2. docs[d] \in DocRow
    BY <2>1 DEF IInv, TypeOK
  <2>3. request \in Requests /\ request.op = "verify" /\ request.op \notin UploadOps
        /\ request.doc = d
    BY <2>2 DEF Requests, VerifySession, UploadOps
  <2> HIDE DEF request
  <2> QED
    BY <2>1, <2>3, OpenInv
<1>4. ASSUME NEW s \in Sessions, Put(s)
      PROVE  IInv'
  BY <1>4, PutInv
<1>5. ASSUME NEW s \in Sessions, FinishUpload(s)
      PROVE  IInv'
  BY <1>5, UploadInv
<1>6. ASSUME NEW s \in Sessions, FinishVerify(s)
      PROVE  IInv'
  BY <1>6, VerifyInv
<1>7. ASSUME NEW s \in Sessions, FinishTrip(s)
      PROVE  IInv'
  BY <1>7, TripInv
<1>8. ASSUME NEW s \in Sessions, Abort(s) \/ Land(s)
      PROVE  IInv'
  BY <1>8, CloseInv, LandInv DEF Abort, Uploading, UploadOps
<1>9. CASE Tick
  BY <1>9, TickInv DEF Tick, IInv, TypeOK
<1>10. CASE UNCHANGED vars
  BY <1>10, TickInv DEF vars, IInv, TypeOK
<1>11. ASSUME NEW s \in Sessions, NEW d \in Docs, NEW t \in Trips \union {None},
              NEW type \in DocTypes, NEW name \in Names, NEW content \in Contents,
              Upload(s, d, t, type, name, content)
       PROVE  IInv'
  BY <1>2, <1>11 DEF Upload, UploadOps, Types
<1>12. ASSUME NEW s \in Sessions, NEW d \in Docs, NEW t \in Trips, NEW type \in Types,
              NEW name \in Names, NEW content \in Contents,
              CarrierUpload(s, d, t, type, name, content)
       PROVE  IInv'
  BY <1>2, <1>12 DEF CarrierUpload, UploadOps
<1> QED
  BY <1>1, <1>3, <1>4, <1>5, <1>6, <1>7, <1>8, <1>9, <1>10, <1>11, <1>12 DEF Next

-----------------------------------------------------------------------------
(***************************************************************************)
(* Every reachable state satisfies the inductive invariant.                *)
(***************************************************************************)
THEOREM Invariance == Spec => []IInv
BY InitInv, NextInv, PTL DEF Spec

(***************************************************************************)
(* Requirements, rows, objects and sessions keep their types: the flush of *)
(* a stale document is still a document.                                   *)
(***************************************************************************)
THEOREM TypeCorrect == Spec => []TypeOK
<1>1. IInv => TypeOK
  BY DEF IInv
<1> QED
  BY <1>1, Invariance, PTL

(***************************************************************************)
(* A listed document can be downloaded, wherever uploads fail: the store   *)
(* is written before the row (services/document.py:50-71).                 *)
(***************************************************************************)
THEOREM RowsCanBeDownloaded == Spec => []RowsHaveObjects
<1>1. IInv => RowsHaveObjects
  BY DEF IInv, KeysStored, RowsHaveObjects
<1> QED
  BY <1>1, Invariance, PTL

(***************************************************************************)
(* The checklist of a trip agrees with the committed documents, whatever   *)
(* uploads overlap and whichever callers commit                            *)
(* (services/document.py:141-152, services/trip.py:154-165).               *)
(***************************************************************************)
THEOREM ChecklistAgrees == Spec => []ChecklistTruthful
<1>1. IInv => ChecklistTruthful
  <2> SUFFICES ASSUME IInv, NEW t \in Trips, reqs[t] # None, NEW type \in DOMAIN reqs[t]
               PROVE  LET fitting == {d \in Docs : docs[d] # None /\ docs[d].trip = t
                                                                 /\ docs[d].type = type} IN
                      /\ type \in Missing(t) <=> fitting = {}
                      /\ fitting # {} => reqs[t][type].document \in fitting
    BY DEF ChecklistTruthful
  <2>1. RequirementTrue(t, type)
    BY DEF IInv, RequirementsTrue
  <2>2. type \in Missing(t) <=> ~ reqs[t][type].uploaded
    BY DEF Missing
  <2> QED
    BY <2>1, <2>2 DEF RequirementTrue, Fits
<1> QED
  BY <1>1, Invariance, PTL

-----------------------------------------------------------------------------
(* What a step does to one row, and to its bytes.                          *)

\* A row appears unverified, or changes when somebody ends his verdict on it.
LEMMA RowStep ==
    ASSUME IInv, Next, NEW d \in Docs, docs'[d] # docs[d]
    PROVE  \/ /\ docs[d] = None
              /\ docs'[d] \in DocRow /\ ~ docs'[d].verified /\ docs'[d].by = None
           \/ \E s \in Sessions :
                /\ FinishVerify(s) /\ sess[s].op = "verify" /\ sess[s].doc = d
                /\ docs[d] # None
                /\ docs'[d] = Flushed(docs[d], sess[s].row, Judged(sess[s]))
<1>1. ASSUME NEW s \in Sessions, FinishUpload(s)
      PROVE  /\ docs[d] = None
             /\ docs'[d] \in DocRow /\ ~ docs'[d].verified /\ docs'[d].by = None
  <2> DEFINE r   == sess[s]
             new == [trip |-> r.trip, type |-> r.type, key |-> r.key,
                     verified |-> FALSE, by |-> None, notes |-> None]
  <2>1. r.op \in UploadOps
        /\ (docs' = [docs EXCEPT ![r.doc] = new] \/ UNCHANGED docs)
    BY <1>1 DEF FinishUpload, Uploading, UploadOps, db
  <2>2. r \in UploadSession /\ docs[r.doc] = None
    BY <2>1, SessionKinds DEF IInv, IdsFresh
  <2>3. r.doc \in Docs /\ r.trip \in Trips \union {None} /\ r.type \in Types /\ r.key \in Keys
    BY <2>1, <2>2 DEF UploadSession
  <2> HIDE DEF r
  <2>4. new \in DocRow /\ ~ new.verified /\ new.by = None
    BY <2>3 DEF DocRow
  <2> HIDE DEF new
  <2>5. d = r.doc /\ docs'[d] = new
    BY <2>1, <2>3 DEF IInv, TypeOK
  <2> QED
    BY <2>2, <2>4, <2>5
<1>2. ASSUME NEW s \in Sessions, FinishVerify(s)
      PROVE  /\ FinishVerify(s) /\ sess[s].op = "verify" /\ sess[s].doc = d
             /\ docs[d] # None
             /\ docs'[d] = Flushed(docs[d], sess[s].row, Judged(sess[s]))
  <2>1. sess[s].op = "verify" /\ docs[sess[s].doc] # None
    BY <1>2 DEF FinishVerify, IInv, IdsFresh
  <2>2. docs' = [docs EXCEPT ![sess[s].doc] =
                     Flushed(docs[sess[s].doc], sess[s].row, Judged(sess[s]))]
        \/ UNCHANGED docs
    BY <1>2 DEF FinishVerify
  <2> DEFINE new == Flushed(docs[sess[s].doc], sess[s].row, Judged(sess[s]))
  <2>3. DOMAIN docs = Docs
    BY DEF IInv, TypeOK
  <2>4. docs' = [docs EXCEPT ![sess[s].doc] = new]
    BY <2>2
  <2> HIDE DEF new
  <2>5. sess[s].doc = d /\ docs'[d] = new
    BY <2>3, <2>4
  <2> QED
    BY <1>2, <2>1, <2>5 DEF new
<1>3. ASSUME NEW s \in Sessions, Put(s) \/ Land(s) \/ FinishTrip(s) \/ Abort(s)
      PROVE  docs' = docs
  BY <1>3 DEF Put, Land, FinishTrip, Abort
<1>4. ASSUME NEW s \in Sessions, NEW request, Open(s, request)
      PROVE  docs' = docs
  BY <1>4 DEF Open
<1>5. Tick => docs' = docs
  BY DEF Tick
<1>6. ASSUME NEW s \in Sessions,
             \/ \E t \in Trips, route \in Routes : CreateTrip(s, t, route)
             \/ \E e \in Docs, name \in Names, content \in Contents :
                 \/ \E t \in Trips \union {None}, type \in DocTypes : Upload(s, e, t, type, name, content)
                 \/ \E t \in Trips, type \in Types : CarrierUpload(s, e, t, type, name, content)
             \/ \E e \in Docs, verdict \in BOOLEAN, reviewer \in Reviewers :
                 Verify(s, e, verdict, reviewer)
      PROVE  docs' = docs
  BY <1>4, <1>6 DEF CreateTrip, Upload, CarrierUpload, OpenUpload, Verify
<1>7. \E s \in Sessions : FinishUpload(s) \/ FinishVerify(s)
  BY <1>3, <1>5, <1>6 DEF Next
<1> QED
  BY <1>1, <1>2, <1>7

\* An object is replaced by a put of an upload or of a straggler.
LEMMA ObjectStep ==
    ASSUME IInv, Next, NEW key \in DOMAIN objects, objects'[key] # objects[key]
    PROVE  \E s \in Sessions :
              /\ Holds(s, key)
              /\ Put(s) \/ Land(s)
<1>1. PICK s \in Sessions : Put(s) \/ Land(s)
  <2>1. ASSUME NEW s \in Sessions, FinishUpload(s) \/ FinishVerify(s) \/ FinishTrip(s) \/ Abort(s)
        PROVE  objects' = objects
    BY <2>1 DEF FinishUpload, FinishVerify, FinishTrip, Abort
  <2> QED
    BY <2>1 DEF Next, CreateTrip, Upload, CarrierUpload, OpenUpload, Verify, Open, Tick
<1>2. /\ sess[s].op \in UploadOps \union {"straggler"}
      /\ objects' = Stored(sess[s].key, sess[s].content)
  BY <1>1 DEF Put, Land, Uploading, UploadOps
<1>3. sess[s].key \in Keys /\ sess[s].content \in Contents
  BY <1>2, SessionKinds DEF IInv, UploadSession, Straggler
<1>4. key = sess[s].key
  BY <1>2, <1>3, StoredFacts DEF IInv
<1> QED
  BY <1>1, <1>2, <1>4 DEF Holds, UploadOps

\* A key is drawn in its second, and then only handed on.
LEMMA HolderStep ==
    ASSUME IInv, Next, NEW q \in Sessions, NEW CONSTANT key, Holds(q, key)'
    PROVE  Holds(q, key) \/ key[2] = clock
<1>1. ASSUME NEW s \in Sessions, NEW request, Open(s, request),
             request.op \notin UploadOps \union {"straggler"}
      PROVE  Holds(q, key)
  BY <1>1 DEF IInv, TypeOK, Open, Holds, UploadOps
<1>2. ASSUME NEW s \in Sessions, NEW op, NEW d, NEW t, NEW type, NEW name, NEW content,
             OpenUpload(s, op, d, t, type, name, content)
      PROVE  Holds(q, key) \/ key[2] = clock
  <2> DEFINE request == [op |-> op, doc |-> d, trip |-> t, type |-> type, name |-> name,
                         content |-> content, key |-> StorageKey(type, clock, name),
                         store |-> "waiting"]
  <2>1. sess' = [sess EXCEPT ![s] = request]
    BY <1>2 DEF OpenUpload, Open
  <2>2. request.key[2] = clock
    BY DEF StorageKey
  <2> HIDE DEF request
  <2> QED
    BY <2>1, <2>2 DEF IInv, TypeOK, Holds
<1>3. ASSUME NEW s \in Sessions, Put(s)
      PROVE  Holds(q, key)
  <2>1. sess' = [sess EXCEPT ![s].store = "answered"] /\ sess[s].op \in UploadOps
    BY <1>3 DEF Put, Uploading, UploadOps
  <2>2. sess[s] \in UploadSession
    BY <2>1, SessionKinds DEF IInv
  <2>3. sess'[q] = IF q = s THEN [sess[s] EXCEPT !.store = "answered"] ELSE sess[q]
    BY <2>1 DEF IInv, TypeOK
  <2>4. sess'[q].op = sess[q].op /\ (sess[q].op \in UploadOps \union {"straggler"} => sess'[q].key = sess[q].key)
    BY <2>2, <2>3 DEF UploadSession
  <2> QED
    BY <2>4 DEF Holds, UploadOps
<1>4. ASSUME NEW s \in Sessions, Finish(s)
      PROVE  Holds(q, key)
  BY <1>4 DEF IInv, TypeOK, Finish, Holds, Idle
<1>5. ASSUME NEW s \in Sessions, FinishPut(s), sess[s].op \in UploadOps
      PROVE  Holds(q, key)
  BY <1>4, <1>5 DEF IInv, TypeOK, FinishPut, Holds, UploadOps
<1>6. ASSUME NEW s \in Sessions, FinishUpload(s) \/ FinishVerify(s) \/ FinishTrip(s) \/ Abort(s) \/ Land(s)
      PROVE  Holds(q, key)
  BY <1>4, <1>5, <1>6 DEF FinishUpload, FinishVerify, FinishTrip, Abort, Land, Uploading, UploadOps
<1>7. Tick => Holds(q, key)
  BY DEF Tick, Holds
<1>8. ASSUME NEW s \in Sessions, NEW t, NEW route, CreateTrip(s, t, route)
      PROVE  Holds(q, key)
  BY <1>1, <1>8 DEF CreateTrip, UploadOps
<1>9. ASSUME NEW s \in Sessions, NEW d, NEW verdict, NEW reviewer, Verify(s, d, verdict, reviewer)
      PROVE  Holds(q, key)
  BY <1>1, <1>9 DEF Verify, UploadOps
<1> QED
  BY <1>2, <1>3, <1>6, <1>7, <1>8, <1>9 DEF Next, Upload, CarrierUpload

(***************************************************************************)
(* The bytes of a committed document are replaced only by an upload of the *)
(* same type and file name in the second of its key.  Once that second is  *)
(* over and the puts of that second have landed, they never change again,  *)
(* however slow, repeated or abandoned puts are                            *)
(* (services/document.py:44-52).                                           *)
(***************************************************************************)
THEOREM BytesComeToRest == Spec => BytesSettle
<1> DEFINE Rests(d) ==
        docs[d] # None =>
            /\ Settled(docs[d].key) => Settled(docs[d].key)' /\ Downloaded(d)' = Downloaded(d)
            /\ Downloaded(d)' # Downloaded(d) =>
                \E s \in Sessions :
                    /\ Holds(s, docs[d].key) /\ (Put(s) \/ Land(s))
                    /\ Put(s) => sess[s].type = docs[d].type /\ sess[s].name = docs[d].key[3]
<1>1. IInv /\ [Next]_vars => [\A d \in Docs : Rests(d)]_vars
  <2> SUFFICES ASSUME IInv, Next, NEW d \in Docs, docs[d] # None
               PROVE  /\ Settled(docs[d].key) => Settled(docs[d].key)' /\ Downloaded(d)' = Downloaded(d)
                      /\ Downloaded(d)' # Downloaded(d) =>
                          \E s \in Sessions :
                              /\ Holds(s, docs[d].key) /\ (Put(s) \/ Land(s))
                              /\ Put(s) => sess[s].type = docs[d].type /\ sess[s].name = docs[d].key[3]
    OBVIOUS
  <2>0. PICK key \in Keys : key = docs[d].key
    BY DEF IInv, TypeOK, DocRow
  <2>1. docs'[d].key = key
    <3>1. CASE docs'[d] = docs[d]
      BY <2>0, <3>1
    <3>2. CASE docs'[d] # docs[d]
      BY <2>0, <3>2, RowStep, VerdictFacts DEF IInv
    <3> QED
      BY <3>1, <3>2
  <2>2. key \in DOMAIN objects /\ key[1] = docs[d].type
    BY <2>0 DEF IInv, KeysStored, KeysNamed
  <2>3. Downloaded(d)' # Downloaded(d) =>
            \E s \in Sessions : Holds(s, key) /\ (Put(s) \/ Land(s))
    BY <2>0, <2>1, <2>2, ObjectStep DEF Downloaded
  <2>4. \A s \in Sessions :
            Holds(s, key) /\ Put(s) => sess[s].type = docs[d].type /\ sess[s].name = key[3]
    BY <2>2 DEF Holds, Put, Uploading, IInv, KeysNamed, UploadOps
  <2>5. ASSUME Settled(key)
        PROVE  Settled(docs[d].key)' /\ Downloaded(d)' = Downloaded(d)
    <3>1. clock > key[2] /\ \A s \in Sessions : ~ Holds(s, key)
      BY <2>5 DEF Settled
    <3>2. key[2] \in Nat /\ clock \in Nat
      BY <2>0 DEF Keys, IInv, TypeOK
    <3>3. clock' \in Nat /\ clock' >= clock
      <4>1. Tick => clock' = clock + 1
        BY DEF Tick
      <4>2. ASSUME NEW s \in Sessions, FinishUpload(s) \/ FinishVerify(s) \/ FinishTrip(s)
                       \/ Abort(s) \/ Put(s) \/ Land(s)
            PROVE  clock' = clock
        BY <4>2 DEF FinishUpload, FinishVerify, FinishTrip, Abort, Put, Land
      <4>3. clock' = clock \/ clock' = clock + 1
        BY <4>1, <4>2 DEF Next, CreateTrip, Upload, CarrierUpload, OpenUpload, Verify, Open
      <4> QED
        BY <3>2, <4>3
    <3>4. \A s \in Sessions : ~ Holds(s, key)'
      <4> SUFFICES ASSUME NEW s \in Sessions, Holds(s, key)'
                   PROVE  FALSE
        OBVIOUS
      <4>1. Holds(s, key) \/ key[2] = clock
        BY HolderStep
      <4> QED
        BY <3>1, <3>2, <4>1
    <3>5. Settled(docs[d].key)'
      BY <2>1, <3>1, <3>2, <3>3, <3>4 DEF Settled, Holds
    <3> QED
      BY <2>3, <3>1, <3>5
  <2> QED
    BY <2>0, <2>3, <2>4, <2>5
<1> QED
  BY <1>1, Invariance, PTL DEF Spec, BytesSettle

(***************************************************************************)
(* Only a reviewer who was overtaken by another one can leave a flag that  *)
(* is not the verdict of the reviewer named beside it                      *)
(* (services/document.py:104-109).                                         *)
(***************************************************************************)
THEOREM VerdictsStayWhole == Spec => VerdictsWholeUnlessOvertaken
<1> DEFINE Keeps(d) ==
        docs'[d] # docs[d] =>
            \/ (docs[d] = None \/ Whole(docs[d])) => Whole(docs'[d])
            \/ \E s \in Sessions : Overtaken(s) /\ sess[s].doc = d /\ FinishVerify(s)
<1>1. IInv /\ [Next]_vars => [\A d \in Docs : Keeps(d)]_vars
  <2> SUFFICES ASSUME IInv, Next, NEW d \in Docs, docs'[d] # docs[d]
               PROVE  \/ Whole(docs'[d])
                      \/ \E s \in Sessions : Overtaken(s) /\ sess[s].doc = d /\ FinishVerify(s)
    OBVIOUS
  <2>1. CASE ~ docs'[d].verified /\ docs'[d].by = None
    BY <2>1 DEF Whole
  <2>2. ASSUME NEW s \in Sessions, FinishVerify(s), sess[s].op = "verify", sess[s].doc = d,
               docs[d] # None, docs'[d] = Flushed(docs[d], sess[s].row, Judged(sess[s]))
        PROVE  Whole(docs'[d]) \/ Overtaken(s)
    <3>1. CASE docs[d] # sess[s].row
      BY <2>2, <3>1 DEF Overtaken
    <3>2. CASE docs[d] = sess[s].row
      <4>1. docs'[d] = Judged(sess[s])
        BY <2>2, <3>2, VerdictFacts DEF IInv
      <4>2. sess[s] \in VerifySession
        BY <2>2, SessionKinds DEF IInv
      <4>3. Judged(sess[s]).by # None
        BY <4>2, JudgedFacts, DocumentsAssumption
      <4> QED
        BY <4>1, <4>2, <4>3, JudgedFacts DEF Whole
    <3> QED
      BY <3>1, <3>2
  <2> QED
    BY <2>1, <2>2, RowStep
<1> QED
  BY <1>1, Invariance, PTL DEF Spec, VerdictsWholeUnlessOvertaken

(***************************************************************************)
(* A document enters or leaves the public link of a trip only in the step  *)
(* in which a reviewer's verdict says so (services/tracking.py:26-31,      *)
(* services/document.py:104-109).                                          *)
(***************************************************************************)
THEOREM LinkFollowsVerdicts == Spec => LinkFollowsReviewers
<1> DEFINE Follows(t, d) ==
        (d \in Tracked(t)') # (d \in Tracked(t)) =>
            \E s \in Sessions :
                /\ sess[s].op = "verify" /\ sess[s].doc = d /\ FinishVerify(s)
                /\ sess[s].verdict = (d \in Tracked(t)')
<1>1. IInv /\ [Next]_vars => [\A t \in Trips, d \in Docs : Follows(t, d)]_vars
  <2> SUFFICES ASSUME IInv, Next, NEW t \in Trips, NEW d \in Docs,
                      (d \in Tracked(t)') # (d \in Tracked(t))
               PROVE  \E s \in Sessions :
                          /\ sess[s].op = "verify" /\ sess[s].doc = d /\ FinishVerify(s)
                          /\ sess[s].verdict = (d \in Tracked(t)')
    OBVIOUS
  <2>1. d \in Tracked(t)  <=> docs[d] # None /\ docs[d].trip = t /\ docs[d].verified
    BY DEF Tracked
  <2>2. d \in Tracked(t)' <=> docs'[d] # None /\ docs'[d].trip = t /\ docs'[d].verified
    BY DEF Tracked
  <2>3. docs'[d] # docs[d]
    BY <2>1, <2>2
  <2>4. ~ (docs[d] = None /\ ~ docs'[d].verified)
    BY <2>1, <2>2
  <2>5. PICK s \in Sessions :
            /\ FinishVerify(s) /\ sess[s].op = "verify" /\ sess[s].doc = d
            /\ docs[d] # None
            /\ docs'[d] = Flushed(docs[d], sess[s].row, Judged(sess[s]))
    BY <2>3, <2>4, RowStep
  <2>6. /\ docs'[d] \in DocRow /\ docs[d] \in DocRow /\ docs'[d].trip = docs[d].trip
        /\ docs'[d].verified \in {docs[d].verified, sess[s].verdict}
    BY <2>5, VerdictFacts DEF IInv
  <2>7. sess[s].verdict \in BOOLEAN /\ docs[d].verified \in BOOLEAN /\ docs'[d].verified \in BOOLEAN
    BY <2>5, <2>6, SessionKinds DEF IInv, VerifySession, DocRow
  <2>8. docs'[d] # None
    BY <2>6, NullDocumentAssumption
  <2>9. docs'[d].trip = t /\ docs[d].trip = t
    BY <2>1, <2>2, <2>5, <2>6, <2>8
  <2>10. docs'[d].verified # docs[d].verified
    BY <2>1, <2>2, <2>5, <2>7, <2>8, <2>9
  <2>11. sess[s].verdict <=> d \in Tracked(t)'
    BY <2>2, <2>6, <2>8, <2>9, <2>10
  <2>12. sess[s].verdict = (d \in Tracked(t)')
    BY <2>7, <2>11
  <2> QED
    BY <2>5, <2>12
<1> QED
  BY <1>1, Invariance, PTL DEF Spec, LinkFollowsReviewers

-----------------------------------------------------------------------------
(* The documents of a route.                                               *)

\* What one leg asks for.
LEMMA LegFacts ==
    ASSUME NEW origin, NEW c
    PROVE  RequiredDocTypes(origin, c, {}) =
               IF {origin, c} \subseteq SacuMembers THEN MandatorySacu
               ELSE MandatorySaOrigin \union (IF c \in BondCountries THEN {"transit_bond"} ELSE {})
<1>1. IsSacuOnly(origin, c, {}) <=> {origin, c} \subseteq SacuMembers
  BY DEF IsSacuOnly
<1>2. CountryDocs(c, {}) = IF c \in BondCountries THEN {"transit_bond"} ELSE {}
  BY DEF CountryDocs
<1> QED
  BY <1>1, <1>2 DEF RequiredDocTypes

(***************************************************************************)
(* For all countries, known to the code or not: a route asks for what its  *)
(* legs ask for, no more and no less.  Crossing a country on the way       *)
(* counts as much as ending there (core/documents/registry.py:136-151).    *)
(***************************************************************************)
THEOREM RouteIsItsLegs ==
    ASSUME NEW origin, NEW destination, NEW transit
    PROVE  RequiredDocTypes(origin, destination, transit) =
               UNION {RequiredDocTypes(origin, c, {}) : c \in transit \union {destination}}
<1> DEFINE stops == transit \union {destination}
           legs  == {RequiredDocTypes(origin, c, {}) : c \in stops}
           Bond(c) == IF c \in BondCountries THEN {"transit_bond"} ELSE {}
<1>1. MandatorySacu \subseteq MandatorySaOrigin
  BY DEF MandatorySacu, MandatorySaOrigin
<1>2. \A c \in BondCountries : c \notin SacuMembers
  BY DEF BondCountries, SacuMembers
<1>3. destination \in stops
  OBVIOUS
<1>4. \A c \in stops :
          RequiredDocTypes(origin, c, {}) =
              IF {origin, c} \subseteq SacuMembers THEN MandatorySacu
              ELSE MandatorySaOrigin \union Bond(c)
  BY LegFacts
<1>5. CASE {origin} \union stops \subseteq SacuMembers
  <2>1. RequiredDocTypes(origin, destination, transit) = MandatorySacu
    BY <1>5 DEF RequiredDocTypes, IsSacuOnly
  <2>2. \A c \in stops : RequiredDocTypes(origin, c, {}) = MandatorySacu
    <3>1. \A c \in stops : {origin, c} \subseteq SacuMembers
      BY <1>5
    <3> QED
      BY <1>4, <3>1
  <2> HIDE DEF stops
  <2>3. UNION legs = MandatorySacu
    BY <1>3, <2>2
  <2> HIDE DEF legs
  <2> QED
    BY <2>1, <2>3 DEF legs, stops
<1>6. CASE ~ ({origin} \union stops \subseteq SacuMembers)
  <2>1. RequiredDocTypes(origin, destination, transit) =
            MandatorySaOrigin \union
                (IF stops \intersect BondCountries # {} THEN {"transit_bond"} ELSE {})
    <3>1. ~ IsSacuOnly(origin, destination, transit)
      BY <1>6 DEF IsSacuOnly
    <3>2. CountryDocs(destination, transit) =
              IF stops \intersect BondCountries # {} THEN {"transit_bond"} ELSE {}
      BY DEF CountryDocs
    <3> QED
      BY <3>1, <3>2 DEF RequiredDocTypes
  <2>2. PICK outside \in stops : ~ ({origin, outside} \subseteq SacuMembers)
    BY <1>3, <1>6
  <2> HIDE DEF stops
  <2>3. MandatorySaOrigin \subseteq UNION legs
    BY <1>4, <2>2
  <2>4. UNION legs \subseteq
            MandatorySaOrigin \union
                (IF stops \intersect BondCountries # {} THEN {"transit_bond"} ELSE {})
    <3> SUFFICES ASSUME NEW c \in stops, NEW type \in RequiredDocTypes(origin, c, {}),
                        type \notin MandatorySaOrigin
                 PROVE  stops \intersect BondCountries # {} /\ type = "transit_bond"
      OBVIOUS
    <3> QED
      BY <1>1, <1>4
  <2>5. stops \intersect BondCountries # {} => "transit_bond" \in UNION legs
    <3> SUFFICES ASSUME NEW c \in stops, c \in BondCountries
                 PROVE  "transit_bond" \in UNION legs
      OBVIOUS
    <3>1. ~ ({origin, c} \subseteq SacuMembers)
      BY <1>2
    <3>2. "transit_bond" \in RequiredDocTypes(origin, c, {})
      BY <1>4, <3>1
    <3> QED
      BY <3>2
  <2> HIDE DEF legs
  <2>6. RequiredDocTypes(origin, destination, transit) = UNION legs
    BY <2>1, <2>3, <2>4, <2>5
  <2> QED
    BY <2>6 DEF legs, stops
<1> QED
  BY <1>5, <1>6
=============================================================================

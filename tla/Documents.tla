----------------------------- MODULE Documents ------------------------------
(***************************************************************************)
(* Documents of trips, the objects that hold their bytes and the checklist *)
(* of what a trip still needs: src/app/services/document.py under          *)
(* api/v1/documents.py and the uploads of api/public/carrier_portal.py,    *)
(* with the requirements that services/trip.py creates and reads and the   *)
(* documents that services/tracking.py shows to the public.                *)
(*                                                                         *)
(* A row and its object are two stores.  A key is made of the type, the    *)
(* second and the file name; the object is put under it, however slowly;   *)
(* the row follows when the session ends.  The client of the object store  *)
(* repeats a put that times out, so a put may land more than once, also    *)
(* when its request is over; such a straggler takes the place of the       *)
(* session.  Sessions overlap as in OrmSession.  Commits is the set of     *)
(* operations whose caller commits: none does in the repository, all of    *)
(* them in the instance that is checked.                                   *)
(*                                                                         *)
(* One tenant.  A file is its contents; size and media type are left out.  *)
(***************************************************************************)
EXTENDS Naturals, RequiredDocuments, OrmSession

CONSTANTS
    Sessions, Trips, Docs,
    Routes,      \* <<origin, destination>> of the trips created
    DocTypes,    \* types that the API may be given
    Names,       \* file names
    Contents,    \* contents of files, none of them empty
    Reviewers,
    Commits,     \* the operations whose caller commits
    None,
    MaxClock     \* bound on the clock, in seconds

\* The border documents of a carrier have a type of the API, the proof of
\* delivery has its own.
Types == DocTypes \union {"pod_photo"}

Ops == {"create_trip", "upload", "carrier_upload", "verify"}

ASSUME DocumentsAssumption ==
    /\ None \notin Trips \union Docs \union Reviewers \union Nat
    /\ Commits \subseteq Ops
    /\ MaxClock \in Nat

VARIABLES
    reqs,      \* Trips -> the requirements of a committed trip, or None
    docs,      \* the committed documents: Docs -> DocRow or None
    objects,   \* the object store: its keys -> the contents of the object
    sess,      \* the open sessions
    clock

db   == <<reqs, docs>>
vars == <<reqs, docs, objects, sess, clock>>

-----------------------------------------------------------------------------
\* A storage key, the tenant left out.
Keys == Types \X Nat \X Names

DocRow ==
    [trip : Trips \union {None}, type : Types, key : Keys,
     verified : BOOLEAN, by : Reviewers \union {None}, notes : BOOLEAN \union {None}]

\* A requirement; required is always TRUE.
Requirement == [uploaded : BOOLEAN, document : Docs \union {None}]

AllRequired == MandatorySaOrigin \union {"transit_bond"}

RequiredSets == {MandatorySacu, MandatorySaOrigin, AllRequired}

ASSUME NullDocumentAssumption ==
    /\ None \notin DocRow
    /\ None \notin Keys
    /\ \A types \in RequiredSets : None \notin [types -> Requirement]

\* Fault variant of NewRequirement: the flag is left to the database.
NewRequirementBlank == [uploaded |-> None, document |-> None]

NewRequirement == [uploaded |-> FALSE, document |-> None]

Idle == [op |-> "idle"]

\* store: whether the object store has answered.
UploadSession ==
    [op : {"upload", "carrier_upload"}, doc : Docs, trip : Trips \union {None}, type : Types,
     name : Names, content : Contents, key : Keys, store : {"waiting", "answered"}]

\* row: the document as loaded.
VerifySession ==
    [op : {"verify"}, doc : Docs, row : DocRow, verdict : BOOLEAN, by : Reviewers]

\* A put under way whose request is over.
Straggler == [op : {"straggler"}, key : Keys, content : Contents]

TripSession == [op : {"create_trip"}, trip : Trips, route : Routes]

TypeOK ==
    /\ DOMAIN reqs = Trips
    /\ \A t \in Trips :
        reqs[t] = None \/ \E types \in RequiredSets : reqs[t] \in [types -> Requirement]
    /\ docs \in [Docs -> DocRow \union {None}]
    /\ DOMAIN objects \subseteq Keys
    /\ \A key \in DOMAIN objects : objects[key] \in Contents
    /\ sess \in [Sessions -> {Idle} \union UploadSession \union VerifySession \union TripSession
                              \union Straggler]
    /\ clock \in Nat

Init ==
    /\ reqs = [t \in Trips |-> None]
    /\ docs = [d \in Docs |-> None]
    /\ objects = [key \in {} |-> None]
    /\ sess = [s \in Sessions |-> Idle]
    /\ clock = 0

-----------------------------------------------------------------------------
Open(s, request) ==
    /\ sess[s] = Idle
    /\ sess' = [sess EXCEPT ![s] = request]
    /\ UNCHANGED <<reqs, docs, objects, clock>>

\* POST /trips
CreateTrip(s, t, route) ==
    /\ reqs[t] = None
    /\ \A r \in Sessions : sess[r].op = "create_trip" => sess[r].trip # t
    /\ Open(s, [op |-> "create_trip", trip |-> t, route |-> route])

\* Fault variant of StorageKey: no second.
StorageKeyUndated(type, second, name) == <<type, 0, name>>

StorageKey(type, second, name) == <<type, second, name>>

\* The clock is read as the handler starts.
OpenUpload(s, op, d, t, type, name, content) ==
    /\ docs[d] = None
    /\ \A r \in Sessions : sess[r].op \in {"upload", "carrier_upload"} => sess[r].doc # d
    /\ Open(s, [op |-> op, doc |-> d, trip |-> t, type |-> type, name |-> name,
                content |-> content, key |-> StorageKey(type, clock, name),
                store |-> "waiting"])

\* POST /documents/upload: a non-empty file, and any trip id or none.
Upload(s, d, t, type, name, content) == OpenUpload(s, "upload", d, t, type, name, content)

\* POST /carrier/{token}/pod and /border-docs: the trip of the token.
CarrierUpload(s, d, t, type, name, content) ==
    /\ reqs[t] # None
    /\ OpenUpload(s, "carrier_upload", d, t, type, name, content)

\* POST /documents/{id}/verify
Verify(s, d, verdict, reviewer) ==
    /\ docs[d] # None
    /\ Open(s, [op |-> "verify", doc |-> d, row |-> docs[d], verdict |-> verdict,
                by |-> reviewer])

-----------------------------------------------------------------------------
Uploading(s) == sess[s].op \in {"upload", "carrier_upload"}

\* put overwrites.
Stored(key, content) ==
    [k \in DOMAIN objects \union {key} |-> IF k = key THEN content ELSE objects[k]]

\* Fault variant of Put: nobody waits for the store.
PutUnstored(s) ==
    /\ Uploading(s)
    /\ sess' = [sess EXCEPT ![s].store = "answered"]
    /\ UNCHANGED <<reqs, docs, objects, clock>>

\* An attempt of the put lands and the store answers.
Put(s) ==
    /\ Uploading(s)
    /\ objects' = Stored(sess[s].key, sess[s].content)
    /\ sess' = [sess EXCEPT ![s].store = "answered"]
    /\ UNCHANGED <<reqs, docs, clock>>

Finish(s) == sess' = [sess EXCEPT ![s] = Idle]

\* An upload ends.  An attempt of its put may still be under way.
FinishPut(s) ==
    \/ Finish(s)
    \/ sess' = [sess EXCEPT ![s] = [op |-> "straggler", key |-> sess[s].key,
                                     content |-> sess[s].content]]

\* A put lands that nobody waits for.
Land(s) ==
    /\ sess[s].op = "straggler"
    /\ objects' = Stored(sess[s].key, sess[s].content)
    /\ Finish(s)
    /\ UNCHANGED <<reqs, docs, clock>>

\* Fault variant of Fulfilled: the requirement is looked up without its trip.
FulfilledAnywhere(r) ==
    [t \in Trips |->
        IF reqs[t] # None /\ r.type \in DOMAIN reqs[t]
        THEN [reqs[t] EXCEPT ![r.type] = [uploaded |-> TRUE, document |-> r.doc]]
        ELSE reqs[t]]

\* _update_requirement: the id is always new, so it is written in any case, and
\* uploaded is never unset.
Fulfilled(r) ==
    IF r.trip # None /\ r.type \in DOMAIN reqs[r.trip]
    THEN [reqs EXCEPT ![r.trip][r.type] = [uploaded |-> TRUE, document |-> r.doc]]
    ELSE reqs

\* A document row that points to no trip violates the foreign key.
TripKnown(r) == r.trip = None \/ reqs[r.trip] # None

\* The INSERT of the row, the requirement, the answer.
FinishUpload(s) ==
    /\ Uploading(s)
    /\ sess[s].store = "answered"
    /\ LET r == sess[s] IN
       IF TripKnown(r) /\ r.op \in Commits
       THEN /\ docs' = [docs EXCEPT ![r.doc] =
                           [trip |-> r.trip, type |-> r.type, key |-> r.key,
                            verified |-> FALSE, by |-> None, notes |-> None]]
            /\ reqs' = Fulfilled(r)
       ELSE UNCHANGED db
    /\ FinishPut(s)
    /\ UNCHANGED <<objects, clock>>

\* Fault variant of Judged: a rejection leaves the flag alone.
JudgedMildly(r) ==
    [r.row EXCEPT !.verified = @ \/ r.verdict, !.by = r.by, !.notes = r.verdict]

\* What verify leaves on the loaded document.  The notes tell the verdict.
Judged(r) == [r.row EXCEPT !.verified = r.verdict, !.by = r.by, !.notes = r.verdict]

FinishVerify(s) ==
    /\ sess[s].op = "verify"
    /\ IF "verify" \in Commits
       THEN docs' = [docs EXCEPT ![sess[s].doc] = Flushed(@, sess[s].row, Judged(sess[s]))]
       ELSE UNCHANGED docs
    /\ Finish(s)
    /\ UNCHANGED <<reqs, objects, clock>>

\* The trip and its requirements.
FinishTrip(s) ==
    /\ sess[s].op = "create_trip"
    /\ IF "create_trip" \in Commits
       THEN reqs' = [reqs EXCEPT ![sess[s].trip] =
                [type \in RequiredDocTypes(sess[s].route[1], sess[s].route[2], {}) |-> NewRequirement]]
       ELSE UNCHANGED reqs
    /\ Finish(s)
    /\ UNCHANGED <<docs, objects, clock>>

\* A failing store, an exception or a killed process: the database rolls back,
\* a stored object stays, a put under way may land or get lost.
Abort(s) ==
    /\ sess[s] # Idle
    /\ IF Uploading(s) THEN FinishPut(s) ELSE Finish(s)
    /\ UNCHANGED <<reqs, docs, objects, clock>>

Tick ==
    /\ clock < MaxClock
    /\ clock' = clock + 1
    /\ UNCHANGED <<reqs, docs, objects, sess>>

Next ==
    \/ \E s \in Sessions :
        \/ \E t \in Trips, route \in Routes : CreateTrip(s, t, route)
        \/ \E d \in Docs, name \in Names, content \in Contents :
            \/ \E t \in Trips \union {None}, type \in DocTypes : Upload(s, d, t, type, name, content)
            \/ \E t \in Trips, type \in Types : CarrierUpload(s, d, t, type, name, content)
        \/ \E d \in Docs, verdict \in BOOLEAN, reviewer \in Reviewers :
            Verify(s, d, verdict, reviewer)
        \/ Put(s)
        \/ Land(s)
        \/ FinishUpload(s)
        \/ FinishVerify(s)
        \/ FinishTrip(s)
        \/ Abort(s)
    \/ Tick

Spec == Init /\ [][Next]_vars

-----------------------------------------------------------------------------
\* download: the bytes under the key of the row.
Downloaded(d) == objects[docs[d].key]

\* Fault variant of Tracked: the link shows every document.
TrackedAll(t) == {d \in Docs : docs[d] # None /\ docs[d].trip = t}

\* GET /track/{token}: the documents that the public link of a trip shows.
Tracked(t) == {d \in Docs : docs[d] # None /\ docs[d].trip = t /\ docs[d].verified}

\* get_doc_checklist
Missing(t)    == {type \in DOMAIN reqs[t] : ~ reqs[t][type].uploaded}
IsComplete(t) == Missing(t) = {}
=============================================================================

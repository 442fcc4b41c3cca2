------------------------ MODULE DocumentsProperties -------------------------
(***************************************************************************)
(* What Documents guarantees.                                              *)
(***************************************************************************)
EXTENDS Documents

(***************************************************************************)
(* A document that is listed can be downloaded: wherever an upload fails   *)
(* or the process dies between the store and the commit, a committed row   *)
(* has its object.  The converse does not hold: an object may be orphaned  *)
(* (services/document.py:50-71).                                           *)
(***************************************************************************)
RowsHaveObjects ==
    \A d \in Docs : docs[d] # None => docs[d].key \in DOMAIN objects

Holds(s, key) == sess[s].op \in {"upload", "carrier_upload", "straggler"} /\ sess[s].key = key

\* The second of the key is over and no put under it is under way.
Settled(key) == clock > key[2] /\ \A s \in Sessions : ~ Holds(s, key)

(***************************************************************************)
(* The key is not unique, and puts are slow or repeated: another upload of *)
(* the same second may replace the bytes of a document long after it was   *)
(* committed.  Only an upload of the same type and file name does, and it  *)
(* ends: once the second of the key is over and its puts have landed, the  *)
(* document is settled, stays settled and keeps its bytes                  *)
(* (services/document.py:44-52).                                           *)
(***************************************************************************)
BytesSettle ==
    [][\A d \in Docs : docs[d] # None =>
        /\ Settled(docs[d].key) => Settled(docs[d].key)' /\ Downloaded(d)' = Downloaded(d)
        /\ Downloaded(d)' # Downloaded(d) =>
            \E s \in Sessions :
                /\ Holds(s, docs[d].key) /\ (Put(s) \/ Land(s))
                /\ Put(s) => sess[s].type = docs[d].type /\ sess[s].name = docs[d].key[3]]_vars

(***************************************************************************)
(* The checklist tells the truth: a requirement is marked as uploaded      *)
(* exactly if a document of that type is committed for that trip, and      *)
(* points to one, also when uploads of one type overlap or name a trip     *)
(* that is not committed (services/document.py:141-152,                    *)
(* services/trip.py:154-165).                                              *)
(***************************************************************************)
ChecklistTruthful ==
    \A t \in Trips : reqs[t] # None =>
        \A type \in DOMAIN reqs[t] :
            LET fitting == {d \in Docs : docs[d] # None /\ docs[d].trip = t /\ docs[d].type = type} IN
            /\ type \in Missing(t) <=> fitting = {}
            /\ fitting # {} => reqs[t][type].document \in fitting

\* The document has changed since session s loaded it.
Overtaken(s) == sess[s].op = "verify" /\ docs[sess[s].doc] # sess[s].row

\* Flag, reviewer and notes come from one verdict.
Whole(row) == IF row.by = None THEN ~ row.verified ELSE row.verified = row.notes

(***************************************************************************)
(* The verified flag of a document is the verdict of the reviewer named    *)
(* beside it.  Two reviewers who overlap may break that: the flag is       *)
(* written only by whoever differs from what he loaded, the reviewer and   *)
(* the notes by the last one.  Nothing else does                           *)
(* (services/document.py:104-109).                                         *)
(***************************************************************************)
VerdictsWholeUnlessOvertaken ==
    [][\A d \in Docs : docs'[d] # docs[d] =>
        \/ (docs[d] = None \/ Whole(docs[d])) => Whole(docs'[d])
        \/ \E s \in Sessions : Overtaken(s) /\ sess[s].doc = d /\ FinishVerify(s)]_vars

(***************************************************************************)
(* The public link shows what a reviewer let it show: a document appears   *)
(* there in the step in which somebody approves it and disappears in the   *)
(* step in which somebody rejects it, also when reviewers overlap and      *)
(* write only what differs from what they loaded                           *)
(* (services/tracking.py:26-31, services/document.py:104-109).             *)
(***************************************************************************)
LinkFollowsReviewers ==
    [][\A t \in Trips, d \in Docs :
        (d \in Tracked(t)') # (d \in Tracked(t)) =>
            \E s \in Sessions :
                /\ sess[s].op = "verify" /\ sess[s].doc = d /\ FinishVerify(s)
                /\ sess[s].verdict = (d \in Tracked(t)')]_vars
=============================================================================

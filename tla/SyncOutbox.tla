----------------------------- MODULE SyncOutbox ------------------------------
(***************************************************************************)
(* The events that a phone collects offline and uploads in batches, and    *)
(* the worker job that processes them: src/app/services/sync.py under      *)
(* api/v1/sync.py and tasks/worker.py.                                     *)
(*                                                                         *)
(* An event is its idempotency key.  A phone sends a batch again whenever  *)
(* it got no answer, so any batch may be opened at any time.  Commits is   *)
(* the set of operations whose caller commits: only the job in the         *)
(* repository, the route as well in the instance that is checked.          *)
(* A row is known by its place in the table.  What the phone did, the trip *)
(* and the order in which rows are polled are left out.                    *)
(***************************************************************************)
EXTENDS Naturals, FiniteSets, Sequences, SequencesExt

CONSTANTS
    Sessions,   \* batches that may be open at the same time
    Tenants, Keys,
    Commits,
    None,
    MaxBatch,   \* bound on the length of a batch
    MaxRows     \* bound on the table

ASSUME SyncAssumption ==
    /\ Commits \subseteq {"batch", "job"}
    /\ None \notin Tenants \union Keys \union BOOLEAN
    /\ {MaxBatch, MaxRows} \subseteq Nat
    /\ IsFiniteSet(Sessions)

VARIABLES
    rows,    \* the committed rows of sync_events
    acked,   \* the <<tenant, key>> pairs answered with 200
    sess,    \* the open batches
    job      \* the running job of the worker

vars == <<rows, acked, sess, job>>

-----------------------------------------------------------------------------
SyncEvent == [tenant : Tenants, key : Keys, processed : BOOLEAN]

\* Fault variant of NewEvent: the flag is left to the database.
NewEventUnset(tenant, key) == [tenant |-> tenant, key |-> key, processed |-> None]

NewEvent(tenant, key) == [tenant |-> tenant, key |-> key, processed |-> FALSE]

Idle == [op |-> "idle"]

\* todo: the events still to be looked at.  added: those the session has added.
Batch ==
    [op : {"batch"}, tenant : Tenants, events : Seq(Keys), todo : Seq(Keys), added : Seq(Keys)]

Job == [op : {"job"}, tenant : Tenants, events : SUBSET (1 .. MaxRows)]

TypeOK ==
    /\ rows \in Seq(SyncEvent)
    /\ acked \subseteq Tenants \X Keys
    /\ sess \in [Sessions -> {Idle} \union Batch]
    /\ job \in {Idle} \union Job

Init ==
    /\ rows = <<>>
    /\ acked = {}
    /\ sess = [s \in Sessions |-> Idle]
    /\ job = Idle

-----------------------------------------------------------------------------
\* POST /sync/events
SyncEvents(s, tenant, events) ==
    /\ sess[s] = Idle
    /\ sess' = [sess EXCEPT ![s] =
                   [op |-> "batch", tenant |-> tenant, events |-> events,
                    todo |-> events, added |-> <<>>]]
    /\ UNCHANGED <<rows, acked, job>>

Copies(key) == Cardinality({i \in DOMAIN rows : rows[i].key = key})

\* Fault variant of Found: what the session has added is not flushed first.
FoundCommitted(r, key) == Copies(key)

\* The SELECT by key, whatever the tenant: autoflush shows the session its own
\* rows too.
Found(r, key) == Copies(key) + Cardinality({i \in DOMAIN r.added : r.added[i] = key})

\* Fault variant of Added: the new row is not added to the session.
AddedNever(r, key) == r.added

Added(r, key) == IF Found(r, key) = 0 THEN Append(r.added, key) ELSE r.added

\* One pass of the loop of process_batch.  scalar_one_or_none raises when two
\* rows have the key: 400, and nothing of the batch is kept.
CheckEvent(s) ==
    /\ sess[s] # Idle
    /\ sess[s].todo # <<>>
    /\ LET r   == sess[s]
           key == Head(r.todo) IN
       sess' = [sess EXCEPT ![s] =
           IF Found(r, key) > 1 THEN Idle
           ELSE [r EXCEPT !.todo = Tail(@), !.added = Added(r, key)]]
    /\ UNCHANGED <<rows, acked, job>>

\* The flush, the answer and, if the caller does so, the commit.
FinishBatch(s) ==
    /\ sess[s] # Idle
    /\ sess[s].todo = <<>>
    /\ LET r    == sess[s]
           new  == [i \in DOMAIN r.added |-> NewEvent(r.tenant, r.added[i])] IN
       /\ rows' = IF "batch" \in Commits THEN rows \o new ELSE rows
       /\ Len(rows') <= MaxRows
       /\ acked' = acked \union ({r.tenant} \X ToSet(r.events))
    /\ sess' = [sess EXCEPT ![s] = Idle]
    /\ UNCHANGED job

\* An exception, or a phone that goes away: nothing of the batch is kept.
Abort(s) ==
    /\ sess[s] # Idle
    /\ sess' = [sess EXCEPT ![s] = Idle]
    /\ UNCHANGED <<rows, acked, job>>

-----------------------------------------------------------------------------
\* poll_unprocessed: "not SyncEvent.processed" is evaluated by Python, not by
\* the database.  It is the constant False, and no row passes it.
Polled(tenant) == {i \in DOMAIN rows : rows[i].tenant = tenant /\ FALSE}

\* The job process_sync_events for one tenant.
StartJob(tenant) ==
    /\ job = Idle
    /\ job' = [op |-> "job", tenant |-> tenant, events |-> Polled(tenant)]
    /\ UNCHANGED <<rows, acked, sess>>

\* mark_processed for each event, and the commit.
FinishJob ==
    /\ job # Idle
    /\ rows' = [i \in DOMAIN rows |->
                   IF "job" \in Commits /\ i \in job.events
                   THEN [rows[i] EXCEPT !.processed = TRUE] ELSE rows[i]]
    /\ job' = Idle
    /\ UNCHANGED <<acked, sess>>

Next ==
    \/ \E s \in Sessions :
        \/ \E tenant \in Tenants, events \in BoundedSeq(Keys, MaxBatch) :
               SyncEvents(s, tenant, events)
        \/ CheckEvent(s)
        \/ FinishBatch(s)
        \/ Abort(s)
    \/ \E tenant \in Tenants : StartJob(tenant)
    \/ FinishJob

Spec == Init /\ [][Next]_vars

\* The worker is asked again and again for every tenant, and ends its jobs.
FairSpec ==
    /\ Spec
    /\ \A tenant \in Tenants : SF_vars(StartJob(tenant))
    /\ WF_vars(FinishJob)
=============================================================================

# DeliveryFlow backend: verification project

TLA+ models of the rules of `src/app` that are hard to test, model-checked with
TLC and proved with TLAPS. Paths below are relative to `src/app`
unless they start with `src/`.

- [1. Inventory](#1-inventory)
- [2. How the code is modelled](#2-how-the-code-is-modelled)
- [3. Modules](#3-modules)
- [4. Runs](#4-runs)
- [5. What the code does not do](#5-what-the-code-does-not-do)
- [6. Proofs](#6-proofs)
- [7. Not modelled](#7-not-modelled)
- [8. Plan](#8-plan)

## 1. Inventory

DeliveryFlow is a FastAPI backend for road freight: asynchronous handlers in one
process, a PostgreSQL database through SQLAlchemy, a Taskiq worker on
Redis, an object store (SeaweedFS), two mail providers and vision LLMs. All
lasting state but the stored objects and the YAML templates is in the database.
The components talk through rows: no handler calls another one, and nothing
tells a handler that a row it has loaded has changed.

| Component | State | Operations | Hard behaviour | What makes it correct |
|---|---|---|---|---|
| Session and commits, `deps.py` | loaded rows of a request | load, flush, commit, rollback at close | no locks, no version columns, most callers never commit | an acknowledged write is stored; a stale write damages only what it must |
| Trips, `services/trip.py` | `trips` | create, assign, award, accept, begin transit, complete, cancel | gate queried before the write; award re-submits loaded parties | no award against a closed gate; parties are those somebody asked for |
| Driver's packs, `state_machines/drivers_pack.py`, `services/drivers_pack.py` | `drivers_packs` | create, verify, clear, resubmit, expire | reviewer, verification and expiry job race for a row; old evidence after a resubmission | cleared means flagged and reviewed; transitions are legal; due packs expire |
| Invoices, `state_machines/invoice.py`, `services/invoice.py` | `invoices`, `invoice_milestones` | create, issue, verify PoD, other transitions | two handlers on one status; two transitions in one transaction; rounding | log and row agree; amounts are frozen at issue; shares make up the total |
| Tenant settings, `api/v1/tenant.py` | row of `tenants` with a JSON document; logo object | branding, logo upload and deletion, onboarding, bank accounts | whole-document saves overwrite each other; object stored before its row; branding takes any logo key | a field changes only if asked for; an uploaded logo exists; onboarded tenants are complete |
| Documents, `services/document.py`, `storage/`, `services/tracking.py` | `documents`, `trip_document_requirements`, objects | upload, verify, download, public link | key of one-second resolution, puts that are slow or repeated, orphaned objects, requirement never reset, two reviewers | a row has its object; bytes come to rest; the checklist is true; the public sees what a reviewer approved |
| One-time passwords and accounts, `services/otp.py`, `api/v1/auth.py` | `otp_code`, `otp_expires_at` of a user | register, send, verify, reset password | one pair of columns for two purposes; verify and clear are apart; code committed before it is mailed | a code works at most once, before it expires or is replaced |
| Mail router, `notifications/email/router.py` | set of depleted providers | send, reset | fallback across awaits; depletion is for ever | mail goes out while a provider is available |
| Notifications, `notifications/dispatcher.py`, `services/notification.py` | registered channels | send | console fallback; `get_notifier` does not exist on the dispatcher | a message takes the requested channel or the fallback |
| Offline sync, `services/sync.py` | `sync_events` | batch upload, poll, mark processed | check-then-insert idempotency; the poll's condition is constant | an event is stored once and processed eventually |
| Provisioning, `services/tenant.py` | `tenants`, `users` | provision, ensure super admin | check-then-insert of slugs and addresses | one tenant and one user per address |
| Companies, `api/v1/companies.py` | `companies` | create, update, delete | as for trips | as for trips |
| LLM extraction, `services/llm_extractor.py` | none across calls | extract with retries over providers, batch | threads and a semaphore; a failing image leaves the others running; template kept across providers | every extraction ends; a valid result satisfies its template |
| Template registry, `services/template_registry.py`, `api/v1/templates.py` | cache per process, YAML files | load, add, delete, reload | threads load while the loop changes; files torn half-way or edited outside the routes; the cache changed before a file operation that fails; reload empties first | the cache is what the files say, and what sets them apart is known and ends with a reload; a template stays found |
| Required documents, `core/documents/` | constant tables | lookup by route | none | the documents of both ends and the category |
| PDF, debug inspector | none that matters | reads and rendering | none | - |

`PROJECT.json` lists the same components with their sources and status, and
under `hazards` every place where the hard behaviour bites, at its line.

## 2. How the code is modelled

**Sessions.** A handler takes its row, awaits, writes what it derived from the
loaded row, and answers. The models have a function `sess` from session names to
what the open session holds: its operation, the row as loaded, its arguments. A
request is two steps or three: one that opens the session (with the handler's
404s and 400s as guards, since a refused request changes nothing), for
assignments `CheckGate` and for uploads `Put`, and `Respond`. Any step of other
sessions may come between. `Abort` ends a session at any point: an exception, a
client that goes away, a killed process. In memory nothing survives a crash, so a
crash is the abort of every open session. The mail router, the template cache
and the threads are state of a process: there a crash is the action `Restart`.

**Mail, threads and files.** `EmailRouter` has one action per provider call, so
that other requests run during each of them; a provider answers with any status
of a set, or not at all, in which case the mail may still arrive. The registry
runs one route at a time on the event loop, but extractions use the same cache
from threads without a lock: each access to the cache or to a file is an action
of its own, and a file is truncated in one and written in the next. A route
changes the cache before the file, and `HandlerOpenFails`, `HandlerDumpFails` and
`HandlerUnlinkFails` end it with the cache changed and the file not, or torn.
`EditFile` is what `src/PLAN.md:1008-1031` has an administrator do before a
reload: a file is put into the directory, changed or removed by no route, at any
time. The history variable `apart` collects the types that one of these, or a
thread that stores late, has set apart from their files, until a reload, a restart
or a successful change of the template.

The clock is read when an upload begins, and the put is awaited: it may land any
time later. The client of the store repeats a put that times out, so it may land
twice, and after its request is over (`Straggler`, `Land`).

**Writes.** `OrmSession!Flushed` is the UPDATE the ORM emits: the columns whose
value differs from the loaded one, applied to the row as it now is. That is what
decides which races do damage. A flush and the end of its transaction are one
step, because other transactions neither see nor overwrite flushed rows before
(READ COMMITTED; an UPDATE of such a row waits).

**Commits.** Services only flush. In the repository `carrier_accept`, the expiry
job and all the tenant routes commit; the routes of trips, packs and invoices do
not, and `get_db` rolls their sessions back. `TripAward`, `InvoiceMilestones`,
`Documents` and `SyncOutbox` take the committing operations as a constant `Commits`. The run
`deployed_commits` has the value of the repository and shows the consequence;
the others set `Commits` to all operations, which is the service layer under
callers that commit, as the docs and the API describe it. The theorems hold for
every value of `Commits`.

**Abstraction of data.** Money is in cents. Timestamps that are only ever set
are flags; `submitted_at`, which the expiry job compares, counts days. The
cross-check of a pack and its four document references, which handlers only
read, are one value: NULL, sufficient or not. A settings document is a function from a few fields to a few values, None
for an absent key. Texts, references, notes and `updated_at` are left out: no
rule reads them. A one-time password is the number of its generation, a slug the
number of its suffix, an event its idempotency key, a template its version. What
a model reads off a document is, per field, its JSON kind, whether its text is a
number, and the tests that it fails as a value of each kind, since the code
converts values before it tests them. Requests are those an authenticated user of
the tenant can make; a branding body may name any logo key.

## 3. Modules

| Module | Models | Correspondence |
|---|---|---|
| `OrmSession` | the UPDATE of a loaded object | one operator, `Flushed` |
| `DriversPack` | pack row, transition table, verdict, gate, expiry query | operators without state: `MayMove`/`MovePack` = `validate_transition`/`transition_drivers_pack`, `AutoVerdict` = `run_auto_verification`, `GateOpen` = `check_pack_gate`, `IsDue` = `check_and_expire` |
| `TripAward` | trips, packs and the gate as overlapping sessions | `trip`, `pack`: the tables; `today`: the clock. `CreateTrip`, `Assign`, `Award`, `Progress`, `Accept`, `CreatePack`, `HandlePack`, `Sweep` open a session; `CheckGate`, `Respond`, `Abort` go on |
| `TripAwardPromise` | the same rules, one request at a time | abstract specification, written from the rules in `src/PLAN.md` 4.2 |
| `TripAwardProperties`, `MCTripAward` | properties; constants for TLC | |
| `InvoiceMilestones` | invoices and their log | `invoice`, `log`: the tables. `Create`, `Issue`, `VerifyPod`, `Advance` open a session with the path of statuses the handler will take; `Walk` and `Entries` are `transition_invoice` along it |
| `InvoicePromise` | the milestones, one call at a time | abstract specification, from `src/PLAN.md` 4.1 |
| `InvoiceProperties`, `MCInvoice` | properties; constants for TLC | |
| `TenantSettings` | the tenant's row, logo documents and objects | `UpdateBranding`, `UploadLogo`, `DeleteLogo`, `CompleteOnboarding`, `UpdateBankAccounts` open a session; `Put` stores the object; `Saved` is the UPDATE with `flag_modified` |
| `TenantProperties`, `MCTenant` | properties; constants for TLC | |
| `EmailRouter` | the router and the two providers | `Routed` = `get_email_router`, `QuotaUsedUp`/`Outcome` = the `send` of a provider, `Route` and `Attempt` = the list and one pass of the loop of `send` |
| `Accounts` | one-time passwords, account routes, provisioning | `user`, `tenants`: the tables; `inbox`: what providers took. `Register`, `RequestCode`, `UseCode`, `Provision`, `Adopt`, `EnsureSuperadmin` open a session; `IssueCode` = `create_otp`, `ProbeSlug` = one SELECT of the slug search, `FinishUse` = `clear_otp` |
| `AccountsPromise` | the same, one request at a time | abstract specification |
| `AccountsProperties`, `MCAccounts` | properties; constants for TLC | |
| `RequiredDocuments` | which documents a route asks for | operators: `RequiredDocTypes` = `get_required_doc_types` |
| `Documents` | trip documents, objects, requirements, the public link | `docs`, `reqs`: the tables; `objects`: the store. `Upload`, `CarrierUpload`, `Verify`, `CreateTrip` open a session; `Put` and `Land` are the store's put, in time or late; `Missing`, `Tracked`, `Downloaded` are what the reading routes show |
| `DocumentsProperties`, `MCDocuments` | properties; constants for TLC | |
| `SyncOutbox` | the outbox and the worker job | `rows`: the table; `CheckEvent` = one pass of the loop of `process_batch`, `Polled` = `poll_unprocessed`, `FinishJob` = `mark_processed` for each |
| `SyncProperties`, `MCSync` | properties; constants for TLC | |
| `ExtractionRules` | the rules of a template | operators: `Converted`, `Errors`, `Valid` = `validate_extraction`, `Broken` = `_run_validation`, `Delivered` = the fields that it leaves converted |
| `TemplateRegistry` | the cache over the files | `disk`, `cache`, `loaded`; `loader`: a `load_from_disk` in progress, of the loop or a thread; `handler`: the route on the event loop, by step; `EditFile`: a change of a file by no route; `apart`: history, the types whose cache and file were set apart |
| `Extraction` | extractions over the registry | `job`: one call of `extract`, by step; `batch`: the jobs of `extract_batch` that somebody waits for |
| `ExtractionProperties`, `MCExtraction` | properties; constants for TLC | |
| `TripAwardProofs`, `InvoiceProofs`, `TenantProofs`, `AccountsProofs`, `DocumentsProofs`, `SyncProofs`, `ExtractionProofs` | theorems | section 6 |

`TripAward` composes `DriversPack` and `OrmSession`; `InvoiceMilestones` and
`TenantSettings` use `OrmSession`. `Accounts` composes the account routes, the
provisioning and `EmailRouter`; `Documents` composes `RequiredDocuments` and
`OrmSession`; `Extraction` composes `TemplateRegistry` and `ExtractionRules`. Operators named `...Whole`, `...Truncated`, `...Unstamped` and so
on, each marked "Fault variant" and standing before the operator it varies, are
used by no specification: putting one in the place of the original is a bug that
must make its property fail.

### Implementing the abstract specifications

A plain refinement `Spec => Promise!Spec` is false and should be: without locks
a stale session does what no serial execution does. The property
`AtomicUnlessOvertaken` says exactly how far the code goes. The promise is
instantiated on the committed tables (`Promise == INSTANCE ... WITH`), and every
step that changes them is a step of the promise **or** ends a session that
another one has overtaken, meaning that its row, the answer of its gate query or
its list of due packs is no longer what it read. Hence sessions that do not
interfere are atomic, each checks what it must against the current rows, and
only a real race can break a rule. `AccountsPromise` is used in the same way:
there a session is overtaken when its code was spent, replaced or has expired
since it was checked, or when the user to adopt has got a tenant. All three are
checked on their runs and proved step by step for every instance (section 6).

## 4. Runs

**Fairness.** Requests are never fair: nobody has to send one. Where the program
itself goes on, its steps are.
`Extraction!FairSpec` has weak fairness of the threads (`JobStep`: the
executor runs them, and calls of the provider libraries end) and of a route that
has begun (`HandlerStep`, `EndTest`: nothing of it waits). It has strong fairness
of what the event loop does for a job (`LoopStep`): the loop is taken again and
again by routes, and asyncio runs ready callbacks in their order, so that one
that is ready each time the loop is free gets its turn.
`SyncOutbox!FairSpec` says that the worker is asked again and again for every
tenant and ends its jobs; it is there to be generous, since the run shows that
even so nothing is processed. The other components do not wait for anything and
have no liveness.

`CHECK_DEADLOCK FALSE` is set because a bounded instance may end (all days
passed, the log full) and because the program may stop whenever no request comes.

| Run | Instance | Shows |
|---|---|---|
| `trip_award` | 2 sessions, 1 trip, 1 pack for a driver or a vehicle, 2 drivers, 1 vehicle, expiry after 0 days, days 0..1 | `TypeOK`; `AtomicUnlessOvertaken`; `ClearedWasFlagged`; `OnlyAssignMovesParties` |
| `invoice` | 2 sessions, 1 invoice, totals of 5 and 12 cents, a session opens only while its rows fit into a log of 9 | `TypeOK`; `AtomicUnlessOvertaken`; `LogEndsAtStatus`; `MoneyIsLogged`; `FrozenAmounts`; `SplitExcess` |
| `tenant_settings` | 2 sessions, 1 required detail, 1 footer, 1 text, 1 logo name, seconds 0..1 | `TypeOK`; `ChangesAreAskedOrReverted`; `ColumnsNeverReverted`; `OnboardedKeepsDetails`; `LogoIsStored` |
| `accounts` | 2 sessions, 1 address, 2 passwords, 2 codes that expire after 0 ticks, clock 0..1, slugs 0..2 of which 1 may be given, answers 200, 201, 401 and none, each with and without talk of credit where it is a refusal | `TypeOK`; `AtomicUnlessOvertaken`; `TenantsKeepUsers`; `SlugsWithoutGaps`; `SuccessMeansMailed`; `FailureMeansExhausted` |
| `documents` | 2 sessions, 1 trip beyond SACU, 2 documents, 1 type of the API beside `pod_photo`, 1 name, 2 contents, 1 reviewer, seconds 0..1 | `TypeOK`; `RowsHaveObjects`; `ChecklistTruthful`; `BytesSettle`; `VerdictsWholeUnlessOvertaken`; `LinkFollowsReviewers` |
| `sync` | 2 sessions, 2 tenants, 2 events, batches of up to 2, tables of up to 4 rows | `TypeOK`; `AcknowledgedIsStored`; `CopiesBounded` |
| `extraction` | 2 jobs, both in a batch that asks for the type or one in the test route that does not, 1 type with 1 version, 2 providers, 2 attempts, 1 thread of a batch, 4 answers | `TypeOK`; `TemplatesStayFound`; `CacheIsDisk`; `ResultsFitTheirTemplate`; `UncheckedOnlyIfUnknown`; `ExtractionsEnd` |
| `sync_never_processed` | 1 session, 1 tenant, 2 rows, `FairSpec` | violation of `PendingIsProcessed` |
| `deployed_commits` | as `trip_award`, commits of the repository | violation of `AcknowledgedIsDurable` |
| `sweep_any_state` | as `trip_award` | violation of `SweepReachesAnyState` |
| `split_adds_up` | as `invoice` | violation of `SharesSplitTotal` |
| `settings_clobber` | as `tenant_settings` | violation of `DetailsNotClobbered` |

Bounds, and why they are enough. *Two sessions*: a race is between the session
that is overtaken and the one that overtakes it; the second may be followed by
others within the same run, since names are reused. *One trip, pack, invoice,
tenant*: no operation but the expiry job touches two rows of a table, and that
treats each on its own; the theorems cover any number. *Two drivers, one
vehicle*: an assignment can change a party, and a pack can block through either.
*Days 0..1 with expiry after 0*: packs on both sides of the boundary, and on it.
*Totals 5 and 12*: one whose shares round up together and one whose shares round
in opposite directions; `SplitRounding` is the proof for all. *Nine log rows*:
all milestones (eight) and one repeated or reverted. *One detail and one text*:
a field set, absent, or taken back by a stale save; fields are independent of
each other apart from being saved together, which the footer, the logo and the
bank accounts beside the detail exercise. *Seconds 0..1*: two uploads with the
same storage key and with different ones. *One address*: everything but the
slugs happens on one row, and both slugs and the mail of two addresses meet
already with two sessions for one. *Two codes*: a code and the one that replaces
it. *Slugs 0..2*: a search that passes a taken slug, and a given slug in its way.
*One route, two documents*: two uploads of one type and name, or one upload and
its review. *Four rows*: two batches that overlap with two
copies of two events; a batch that would exceed the table stays open. *Two
jobs, one thread*: one job in the pool while another waits for the semaphore, or
runs in the test route, or is left over by a failed batch. *Two attempts* where
the code has three: the counter needs one retry and one last attempt. *One
version*: a deletion and a new creation tell old from new. In `extraction` one
batch is open at a time, what a failed one has left included; its template has a
date that must not be past, a flag that must be true, as in
`insurance_letter.yaml`, and a number with a range, and the answers are one that
satisfies it, one whose flag is false, one whose fields are no object and text
that is no JSON. The semaphore admits jobs in the order of their batch, as that of
asyncio does. `ExtractionsEnd` is checked for the second job, `Observed`: it does
in the test route what the first one does there, and in a batch it waits for the
semaphore until the first one has left the pool, and may be left over.

The largest runs are `tenant_settings` (3.2 million distinct states), `documents`
(1.0 million) and `extraction` (0.3 million, with the graph of its liveness
property the slowest).

Symmetry is over sessions, over drivers in `trip_award`, passwords in
`accounts`, documents and contents in `documents`, tenants and events in `sync`:
models treat their members alike and no property names one. The two runs with
liveness have none.

What the properties say, in the words of the code:

- `ClearedWasFlagged` - a pack is `manually_cleared` only if it was flagged and a
  reviewer cleared it, although expiry, resubmission, verification and two
  reviewers may race for the row.
- `OnlyAssignMovesParties` - the driver and the vehicle of a trip change only to
  what an ending `assign` request asks. The two may come from different
  requests: of two overlapping assignments, one that leaves the driver as it
  loaded it writes only the vehicle. An award never moves them.
- `LogEndsAtStatus`, `MoneyIsLogged` - status, milestone rows, shares and payment
  stamps stay in step even where stale sessions repeat `issued` or revert a
  status.
- `FrozenAmounts` - the shares and the total never change after issue. A second,
  stale issue writes them again, with equal values.
- `SplitExcess` - the shares are the total or a cent more.
- `ChangesAreAskedOrReverted`, `ColumnsNeverReverted`, `OnboardedKeepsDetails` -
  the extent of the lost update in the settings document: fields change to what
  is asked or go back to what the overtaken session loaded; the name and the
  onboarding flag do not take part.
- `LogoIsStored` - a logo of the settings that no PUT /branding named has a row
  and an object. The route stores any key it is sent
  (`api/v1/tenant.py:208-209`): for those nothing is promised.
- `AtomicUnlessOvertaken` of `Accounts` - a one-time password serves twice, and a
  code just mailed is wiped, only by a use that was already running when it
  happened.
- `TenantsKeepUsers`, `SlugsWithoutGaps` - a tenant is committed with its user or
  not at all, except when two callers adopt the same user; a slug found by
  search has all smaller ones before it, whoever else inserts meanwhile.
- `SuccessMeansMailed`, `FailureMeansExhausted` - what the mail router reports is
  true in both directions, although its list is drawn up before its awaits and
  other deliveries mark providers as depleted meanwhile.
- `RowsHaveObjects`, `ChecklistTruthful` - row, object and requirement belong
  together through failed, repeated and overlapping uploads.
- `BytesSettle` - the storage key is not unique and puts are slow, so an upload of
  the same second, type and name may replace the bytes of a document after it was
  committed, and after the second. That ends: once the second is over and no put
  under the key is under way, the bytes never change again.
- `VerdictsWholeUnlessOvertaken`, `LinkFollowsReviewers` - only two reviewers who
  overlap can leave the flag of one verdict beside the name of the other; and even
  then a document appears on the public link, or leaves it, only with a verdict to
  that effect.
- `AcknowledgedIsStored`, `CopiesBounded` - idempotency without a UNIQUE key: no
  acknowledged event is lost, and only batches that overlap store one twice.
- `TemplatesStayFound`, `CacheIsDisk` - a template with a whole file is found at
  any time but during a reload or its removal; between routes the cache is what
  the files say. The types in `apart` are excepted: those edited outside the
  routes, those whose file operation failed after the cache had changed, and those
  that a thread stored as it read them before a change. A reload empties `apart`,
  but for what such a thread stores afterwards.
- `ResultsFitTheirTemplate`, `UncheckedOnlyIfUnknown` - `is_valid` means that the
  fields as they are delivered, after the conversions, are complete, have kinds of
  their types, and satisfy the stated rules that mean something for such a value:
  `pattern`, `not_expired` and `id_checksum` for text, `range` for what reads as a
  number, `equals` for all. It does not mean more: `regex` and `custom` are in the
  template language (`src/PLAN.md:994`) and are never looked at. The template is of
  the right type unless an earlier provider failed in validation. A reading passes
  unchecked only while its template is hidden, or before the reload that an edit
  or a failed file operation calls for.
- `ExtractionsEnd` - liveness: an extraction ends and gives its place back, also
  when the batch it belonged to has failed.

Every property of a passing run has a mutant in `PROJECT.json` that breaks it.

## 5. What the code does not do

Five statements of the repository that the runs refute; `findings` in
`PROJECT.json` quotes them.

1. `deployed_commits`: `POST /trips` answers 201 and stores nothing, because
   nobody commits. The same holds for the other routes on trips, packs,
   invoices, documents and sync events; only the carrier's acceptance, the
   worker, tenants, companies, accounts and provisioning commit.
2. `sweep_any_state`: "Any state -> expired" is not what the expiry job does. A
   flagged pack stays flagged at any age.
3. `split_adds_up`: a total that ends in 5 cents is split into shares that add
   up to one cent more.
4. `settings_clobber`: a partial save removes a detail that an overlapping save
   has just stored.
5. `sync_never_processed`: "Process pending sync events for a tenant." The
   condition of the poll is the Python expression `not SyncEvent.processed`,
   which is False: the job never marks an event.

Further disagreements met while reading, for which no run was made, either
because they are plain from one line or because a property above already says
exactly how far the code goes:

- "one-time passwords" (`services/otp.py:2`) and "Generate unique storage key"
  (`services/document.py:47`) hold only as far as `AtomicUnlessOvertaken` of
  `Accounts` and `BytesSettle` say.
- "Duplicate `(event_uuid, device_id)` is rejected" (`src/PLAN.md:1490`): the
  UNIQUE constraint of the plan (`src/PLAN.md:595`) is not in the migration, and
  a duplicate is returned as if it had been processed. `CopiesBounded` is what is
  left of it.
- "no new records are created" (`services/tenant.py:8-9`): an existing user
  without a tenant gets one (`services/tenant.py:69-80`, `Adopt`).
- "with configured providers" (`deps.py:32`): `is_configured` is a coroutine
  function whose result is not awaited, so every provider counts as configured
  (`Routed`).
- `services/notification.py:26` and `tasks/worker.py:43` call
  `notification_dispatcher.get_notifier`; the dispatcher has `get`
  (`notifications/dispatcher.py:21`). Every notification fails.
- `regex` and `custom` are validation types (`services/template_registry.py:28`,
  `src/PLAN.md:994`) that `_run_validation` ignores (`Broken`).
- "SA ID 13-digit checksum" (`src/PLAN.md:991`): the code weighs every second
  digit by three and adds; the check digit of these numbers is a Luhn digit. The
  usual sample number 8001015009087 has a valid one and is refused.
- `COUNTRY_SPECIFIC_DOCS` names Zambia "ZMB" and Congo "DRC" beside two-letter
  codes (`core/documents/registry.py:89-95`): a trip to "ZM" or "CD" is asked for
  no bond.

## 6. Proofs

Seven modules hold the theorems, one per component. They are for any sets of
sessions, rows, parties, documents, events, templates and jobs, any totals in
whole cents, any bounds and any `Commits`. Every property that a passing run
checks is a theorem, but for the liveness property `ExtractionsEnd`.

| Module | Theorem | Statement |
|---|---|---|
| `TripAwardProofs` | `TypeCorrect` | `Spec => []TypeOK` |
| | `ClearedPacksWereFlagged` | `Spec => []ClearedWasFlagged` |
| | `AssignMovesParties` | `Spec => OnlyAssignMovesParties` |
| | `StepsKeepPromise` | `Spec => AtomicUnlessOvertaken` |
| `InvoiceProofs` | `TypeCorrect` | `Spec => []TypeOK` |
| | `LogMatchesStatus` | `Spec => []LogEndsAtStatus` |
| | `MoneyMatchesLog` | `Spec => []MoneyIsLogged` |
| | `SplitRounding`, `SplitIsWithinACent` | the shares of every total; `Spec => []SplitExcess` |
| | `AmountsAreFrozen` | `Spec => FrozenAmounts` |
| | `StepsKeepPromise` | `Spec => AtomicUnlessOvertaken` |
| `TenantProofs` | `TypeCorrect`, `LogoStaysStored` | `Spec => []TypeOK`, `Spec => []LogoIsStored` |
| | `FieldsAreAskedOrReverted` | `Spec => ChangesAreAskedOrReverted` |
| | `OtherColumnsStay` | `Spec => ColumnsNeverReverted` |
| | `OnboardingNeedsDetails` | `Spec => OnboardedKeepsDetails` |
| `AccountsProofs` | `TypeCorrect`, `NoGaps` | `Spec => []TypeOK`, `Spec => []SlugsWithoutGaps` |
| | `FailuresAreExhausted` | `Spec => []FailureMeansExhausted` |
| | `SuccessesAreMailed` | `Spec => SuccessMeansMailed` |
| | `TenantsStayInhabited` | `Spec => TenantsKeepUsers` |
| | `StepsKeepPromise` | `Spec => AtomicUnlessOvertaken` |
| `DocumentsProofs` | `TypeCorrect`, `RowsCanBeDownloaded` | `Spec => []TypeOK`, `Spec => []RowsHaveObjects` |
| | `ChecklistAgrees` | `Spec => []ChecklistTruthful` |
| | `BytesComeToRest` | `Spec => BytesSettle` |
| | `VerdictsStayWhole` | `Spec => VerdictsWholeUnlessOvertaken` |
| | `LinkFollowsVerdicts` | `Spec => LinkFollowsReviewers` |
| | `RouteIsItsLegs` | a route with transit asks for what its legs ask for, for all countries |
| `SyncProofs` | `TypeCorrect`, `CopiesAreBounded` | `Spec => []TypeOK`, `Spec => []CopiesBounded` |
| | `AcknowledgedEventsAreStored` | `Spec => []AcknowledgedIsStored` if `"batch" \in Commits` |
| `ExtractionProofs` | `TypeCorrect` | `Spec => []TypeOK` |
| | `TemplatesAreFound` | `Spec => []TemplatesStayFound` |
| | `CacheAgreesWithDisk` | `Spec => []CacheIsDisk` |
| | `ResultsFit` | `Spec => []ResultsFitTheirTemplate` |
| | `TemplatesAreApplied` | `Spec => UncheckedOnlyIfUnknown` |
| | `ValidSatisfies` | the fields of an answer that `Valid` accepts, as `Delivered`, are what `Satisfies` asks, for all templates and answers |

One theorem has a hypothesis beyond the assumptions: `AcknowledgedEventsAreStored`
is about a batch route that commits. The one of the repository does not (section
5, item 1); then every batch is answered and none is stored, and the conclusion
is false.

**Assumptions.** They are named, stated in the module that declares the
constants, and evaluated by TLC in the runs.

- `PackAssumption`, `AwardAssumption`, `InvoiceAssumption`, `DocumentsAssumption`,
  `AccountsAssumption`, `RegistryAssumption`: NULL is not an id, a name or an
  amount; `Commits` names operations; bounds are naturals; the file marker and
  the name `UNKNOWN` are not versions or types.
- `SettingsAssumption`: the required details are details; the logo, the bank
  accounts and the name are none; a body gives each field it has a text, null or
  an empty string, which are three things, and the logo any key.
- `SyncAssumption`: as the first group, and the sessions are finitely many, as
  the requests in progress of a process are: `CopiesBounded` counts them.
- `ExtractionAssumption`: there is at least one attempt and one place in the pool,
  jobs are numbers, batches are made of jobs, what is asked for is a type or None, the layout of every version is made of field definitions, and a reading that is
  not malformed is made of JSON values. `ObservedAssumption`: the jobs whose end is
  checked are jobs.
- `NullPackAssumption`, `NullTripAssumption`, `NullAssumption`,
  `NullDocumentAssumption`, `NullAccountAssumption`, `NullLoadAssumption`,
  `NullExtractionAssumption`, and `NullBriefAssumption` of `TripAwardProperties`
  and of `InvoiceProperties`: NULL is not a row, a key, a load or an answer. TLA+
  has no types that would say so.

**The invariants.** None of the properties is inductive: a commit writes what a
session *loaded*, so the invariant has to speak of what open sessions hold. Each
module has its `IInv`, the lemma that `Init` gives it, one lemma or step per
action that it is kept (`NextInv`), and `Invariance`, from which the properties
follow.

*Invoices.* `IInv` adds to the properties `LoadedRowsAge`: what a session
loaded is the current row or an *older* form of it - the total equal, each stamp
and share that the old row has also on the current one, and the first status of
the session's path a legal successor of the loaded status - and
`AmountsAreShares`: a share that is set is `Share(total, pct)`. From these, a
stale flush can only set columns to the values they have or should have, and the
row's new status is the last entry it appends to the log. `CommitFacts`,
`FlushFacts` and `AppendFacts` carry that argument.

*Trips and packs.* `IInv` adds `PacksStamped` (a flagged pack has `flagged_at`,
a cleared one both stamps), `LoadedPacksAge` and `SweptPacksAge` (stamps are never
unset, so what a session loaded has at most the current ones, and the loaded
status allows the transition), `AwardsKeepParties` (an award carries the parties
it loaded), `TripsFound` and `IdsAreNew` (rows in sessions exist, ids to be
inserted do not). `OnlyAssignMovesParties` then follows step by step: only an
assignment's target differs from its loaded row in the parties.

*Tenant settings.* `SessionsFit`: a session clears no detail, knows the object it
has stored, and names as logo only one that has its document or that a PUT
/branding may name. So whatever part of whichever version of the settings is saved
last, the logo in it is stored or one of those that nobody checks.

*Accounts.* `SessionsFit` (what the next step of a session relies on: the user
it issues a code for exists, a password is at hand where one will be written),
`CodesIssued`, `SlugsProbed` (a search has passed taken slugs only, and tenants
are never removed, which gives `SlugsWithoutGaps`) and `DeliveriesFit`: every
provider of the route is still to come, was tried, or is depleted; a delivery
that was sent has its mail in the inbox. It is what the loop of the router knows
while other deliveries and restarts change the set of depleted providers.

*Documents.* `KeysStored` (an upload that the store has answered has its object,
and objects are never removed), `KeysNamed` (a key tells the type and the name of
its upload), `IdsFresh` (an id that was drawn is nobody else's),
`TripsKnown` (the foreign key), `RequirementsTrue`. The step theorems rest on
`RowStep` (a row appears unverified or ends a verdict) and `ObjectStep` (an object
changes only by a put under its key). A key of a past second that no session holds
is held by none later, since new keys are of the present second.

*Sync.* `AddedOnce`, `EventsAccounted` (an event of an open batch is still to be
looked at, is added, or is stored) and `AckedStored` give the acknowledgement.
`RowsAndPending` bounds the copies: the rows of an event and the sessions that
have one to insert are together at most the sessions. A new one is only added
while no row is committed, and a commit turns a pending one into a row.

*Extraction.* `RegistryFits` says what threads and routes may rely on in the
unlocked cache: `LoadsFit`, `LookupsFollowLoads`, `CacheFits` (what is cached was
read from the file, will be written to it, or is of a type in `apart`), `LoadsCover`
(before a first load has ended every load in progress still covers all files; in
a reload the one of the loop does) and `NothingEarly` (nothing is cached before a
load has begun, so an edit before it needs no excuse). `JobsFit` relates the
template a job carries, its answer and its verdict. `ValidSatisfies` compares the
two operators kind by kind of field.

**The refinements.** `StepsKeepPromise` of trips, invoices and accounts takes a
step that changes the tables, and a session that was not overtaken: its loaded
row is the current one, so the flush is the assignment the promise makes, to the
same row, with the guards that the invariant keeps for it. For this, `TripAward`
needs one more invariant, `RequestsHold`: what the early returns of a handler
left to be relied upon still holds of the row it loaded. A stale gate or an
outdated list of packs to expire is a case of `Overtaken`. In `InvoiceMilestones` a
session walks through several statuses in one transaction; `WalkIsStored` says
that the row and the log it leaves are those of the promise's walk.

**Left to TLC.** `ExtractionsEnd` and the violation of `PendingIsProcessed` are
about liveness, which the prover does not reach; the other four violations are
behaviours of an instance, found by a run and proved by nothing else. No formula
uses ENABLED. Nothing is proved by induction over data: sequences are handled by
their length, last element and set of elements. `tlapm` checks all modules to
the last leaf, with Z3, Zenon and LS4.

## 7. Not modelled

- Authentication, tenancy filters, schemas and HTTP codes, except as guards.
- The columns `verified_at`, `ocr_pass`, `expires_at` (never set), `due_date`,
  `invoice_number`, the carrier of a trip: written and read by no rule here.
- `created_at` of milestone rows. The GET route sorts by it and it defaults to
  the start of the transaction, so the history may show rows in another order
  than they were committed in; `log` is the commit order.
- The writers of a pack's documents and cross-check. No code in the repository
  writes them; `AttachEvidence` stands for whatever will.
- Requests without a caller yet: `run_auto_verification`, the resubmission of a
  pack, invoice creation and the transitions beyond issue and PoD are modelled as
  the services implement them.
- Connection failures at commit, where the client cannot know the outcome.
- Connections that break at an INSERT of `Accounts` after the provider has taken
  the mail: the request ends, which `Abort` covers; nobody is told anything.
- Login, refresh tokens, the poll of `GET /sync/events` and lists: they read.
- Several processes over one template directory: `src/entrypoint.sh:18` starts a
  single one. To one of several, the routes of the others would be edits of files
  (`EditFile`).
- Names of template files that differ only in case from another type's, and the
  clean-up of fields in `post_process_result`; statistics, health checks.
- Notifications: neither caller reaches the dispatcher (section 5).
- Companies: rows that nothing else reads, one commit each.
- The milestone list of the public link: a copy of the trip's status, in which a
  cancelled trip looks like a draft.
- PDF rendering, HTML templates, prompts, image coding, the tables that describe
  document types, the debug inspector, schemas, migrations: rendering, I/O or
  declarations.

## 8. Plan

Done, in this order, the most important first:

1. `DriversPack`, `TripAward` with its promise, runs and proofs.
2. `InvoiceMilestones` with its promise, runs and proofs.
3. `TenantSettings` with its runs.
4. `EmailRouter` and `Accounts` with its promise, provisioning included.
5. `RequiredDocuments` and `Documents`; `SyncOutbox`.
6. `ExtractionRules`, `TemplateRegistry` and `Extraction`, with liveness.

7. `SyncProofs`: storage of acknowledged events, bound of the copies.
8. `DocumentsProofs`: all properties of the run, and `RouteIsItsLegs`.
9. `AccountsProofs`: all properties of the run, the mail router included.
10. `TenantProofs` and `ExtractionProofs`: all properties of their runs.
11. `AtomicUnlessOvertaken` of trips, invoices and accounts, step by step.

Left:

12. Lemmas on `DriversPack` and `EmailRouter` in their own right: the transition
    tables against the walks they allow; what a router leaves untried.
13. Which of two overlapping batches commits a copy (`CopiesBounded` for batches
    that share the event, instead of all sessions).
14. A promise for `Documents` and `TenantSettings`, with the same form of theorem.

The modules keep their parameters constant, have one action per operation and no
RECURSIVE operator, so all of these can be stated for every instance.

--------------------------- MODULE TenantSettings ---------------------------
(***************************************************************************)
(* The row of one tenant, its settings document and its logo:              *)
(* src/app/api/v1/tenant.py over DocumentService.upload, as database       *)
(* sessions that overlap (see OrmSession).  All these routes commit.       *)
(*                                                                         *)
(* settings is one JSON column.  A handler changes keys of the loaded      *)
(* document and stores the whole of it (flag_modified), while the columns  *)
(* name and onboarding_completed are written only when they change.        *)
(*                                                                         *)
(* The document is a function over Fields: Details are the top-level       *)
(* company details, Looks the branding keys but for the logo's storage     *)
(* key; None is an absent key and Empty the empty string.                  *)
(***************************************************************************)
EXTENDS Naturals, OrmSession

CONSTANTS
    Sessions,  \* database sessions that may be open at the same time
    Details,   \* company details
    Required,  \* the details complete_onboarding asks for
    Looks,     \* branding keys: colours and footers
    Values,    \* non-empty texts
    Bodies,    \* what a PUT /branding may send
    Files,     \* names of uploaded logos
    None, Empty,
    MaxClock   \* bound on the clock, in seconds

Fields == Details \union Looks \union {"logo", "bank"}

\* A storage key is made of the second of the upload and the file name.
Keys == Nat \X Files

\* The fields of CompanyBranding.
Sent == Details \union Looks \union {"logo", "name"}

ASSUME SettingsAssumption ==
    /\ Required \subseteq Details
    /\ {"logo", "bank", "name"} \intersect (Details \union Looks) = {}
    /\ Bodies \subseteq [Sent -> Values \union Keys \union {None, Empty}]
    /\ \A body \in Bodies, f \in Details \union {"name"} : body[f] \in Values \union {None, Empty}
    /\ None # Empty
    /\ None \notin Values \union Keys
    /\ Empty \notin Values \union Keys
    /\ MaxClock \in Nat

VARIABLES
    tenant,   \* the committed row
    docs,     \* the storage keys of the committed documents
    objects,  \* the keys of the stored objects
    sess,     \* the open sessions
    clock

vars == <<tenant, docs, objects, sess, clock>>

-----------------------------------------------------------------------------
Settings == [Fields -> Values \union Keys \union {None, Empty}]

TenantRow == [settings : Settings, name : Values \union {Empty}, onboarded : BOOLEAN]

\* Fault variant of NewTenant: blank texts instead of an empty document.
NewTenantBlank(name) ==
    [settings |-> [f \in Fields |-> Empty], name |-> name, onboarded |-> FALSE]

\* What provision_tenant creates.
NewTenant(name) ==
    [settings |-> [f \in Fields |-> None], name |-> name, onboarded |-> FALSE]

Idle == [op |-> "idle"]

Ops == {"branding", "upload_logo", "delete_logo", "complete", "bank"}

\* changes: the fields the handler assigns, None for the others.
\* key: the storage key of an upload, assigned once the object is stored.
Session ==
    [op : Ops, row : TenantRow, changes : Settings,
     name : Values \union {None, Empty}, key : Keys \union {None}]

TypeOK ==
    /\ tenant \in TenantRow
    /\ \A d \in Details : tenant.settings[d] \in Values \union {None}
    /\ docs \subseteq Keys
    /\ objects \subseteq Keys
    /\ sess \in [Sessions -> {Idle} \union Session]
    /\ clock \in Nat

Init ==
    /\ \E name \in Values : tenant = NewTenant(name)
    /\ docs = {}
    /\ objects = {}
    /\ sess = [s \in Sessions |-> Idle]
    /\ clock = 0

-----------------------------------------------------------------------------
NoChange == [f \in Fields |-> None]

Open(s, op, changes, name, key) ==
    /\ sess[s] = Idle
    /\ sess' = [sess EXCEPT ![s] =
                   [op |-> op, row |-> tenant, changes |-> changes, name |-> name, key |-> key]]
    /\ UNCHANGED <<tenant, docs, objects, clock>>

\* Fault variant of Kept: an empty detail overwrites.
KeptIfAbsent(field, value) == value = None

\* The values of a body that update_branding skips.
Kept(field, value) == value = None \/ (field \in Details /\ value = Empty)

\* PUT /branding: any values, the logo's key included.
UpdateBranding(s, body) ==
    Open(s, "branding",
         [f \in Fields |-> IF f \notin Sent \/ Kept(f, body[f]) THEN None ELSE body[f]],
         body["name"], None)

\* POST /branding/logo, content type and size validated.  The clock is read.
UploadLogo(s, file) == Open(s, "upload_logo", NoChange, None, <<clock, file>>)

\* DELETE /branding/logo: nothing to do without a logo.
DeleteLogo(s) ==
    /\ tenant.settings["logo"] # None
    /\ Open(s, "delete_logo", NoChange, None, None)

\* Fault variant of DetailsGiven: the required fields are not looked at.
DetailsAssumed(row) == TRUE

DetailsGiven(row) == \A d \in Required : row.settings[d] # None

\* POST /onboarding/complete: 400 while a required detail is missing.
CompleteOnboarding(s) ==
    /\ DetailsGiven(tenant)
    /\ Open(s, "complete", NoChange, None, None)

\* PUT /bank-accounts
UpdateBankAccounts(s, accounts) ==
    Open(s, "bank", [NoChange EXCEPT !["bank"] = accounts], None, None)

-----------------------------------------------------------------------------
Uploading(s) == sess[s].op = "upload_logo" /\ sess[s].changes["logo"] = None

\* Fault variant of Put: a failed put is swallowed.
PutSwallowed(s) ==
    /\ Uploading(s)
    /\ sess' = [sess EXCEPT ![s].changes["logo"] = sess[s].key]
    /\ UNCHANGED <<tenant, docs, objects, clock>>

\* DocumentService.upload: the object is stored before anything is flushed.
Put(s) ==
    /\ Uploading(s)
    /\ objects' = objects \union {sess[s].key}
    /\ sess' = [sess EXCEPT ![s].changes["logo"] = sess[s].key]
    /\ UNCHANGED <<tenant, docs, clock>>

\* The loaded tenant as the handler leaves it.
Target(r) ==
    [settings  |-> [f \in Fields |->
                       IF r.op = "delete_logo" /\ f = "logo" THEN None
                       ELSE IF r.changes[f] # None THEN r.changes[f] ELSE r.row.settings[f]],
     name      |-> IF r.name # None THEN r.name ELSE r.row.name,
     onboarded |-> r.row.onboarded \/ r.op = "complete"]

\* flag_modified: settings is written whether it differs or not, except by
\* complete_onboarding, which does not touch it.
Saved(stored, r) ==
    [Flushed(stored, r.row, Target(r)) EXCEPT
        !.settings = IF r.op = "complete" THEN stored.settings ELSE Target(r).settings]

Ready(s) == sess[s] # Idle /\ ~ Uploading(s)

\* flush, commit, answer.
Respond(s) ==
    /\ Ready(s)
    /\ tenant' = Saved(tenant, sess[s])
    /\ docs' = IF sess[s].op = "upload_logo" THEN docs \union {sess[s].key} ELSE docs
    /\ sess' = [sess EXCEPT ![s] = Idle]
    /\ UNCHANGED <<objects, clock>>

\* An exception, a disconnected client or a killed process: the database rolls
\* back, a stored object stays, a put under way may land.
Abort(s) ==
    /\ sess[s] # Idle
    /\ sess' = [sess EXCEPT ![s] = Idle]
    /\ \/ UNCHANGED objects
       \/ Uploading(s) /\ objects' = objects \union {sess[s].key}
    /\ UNCHANGED <<tenant, docs, clock>>

Tick ==
    /\ clock < MaxClock
    /\ clock' = clock + 1
    /\ UNCHANGED <<tenant, docs, objects, sess>>

Next ==
    \/ \E s \in Sessions :
        \/ \E body \in Bodies : UpdateBranding(s, body)
        \/ \E file \in Files : UploadLogo(s, file)
        \/ DeleteLogo(s)
        \/ CompleteOnboarding(s)
        \/ \E accounts \in Values : UpdateBankAccounts(s, accounts)
        \/ Put(s)
        \/ Respond(s)
        \/ Abort(s)
    \/ Tick

Spec == Init /\ [][Next]_vars
=============================================================================

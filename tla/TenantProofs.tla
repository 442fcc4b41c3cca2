---------------------------- MODULE TenantProofs -----------------------------
(***************************************************************************)
(* Proofs about TenantSettings, for every set of sessions, every choice of *)
(* details, looks and required details, and every body a client may send.  *)
(***************************************************************************)
EXTENDS TenantProperties, TLAPS

-----------------------------------------------------------------------------
(* The inductive invariant.                                                *)

\* The logos that need no document row.
Unchecked == NamedLogos \union {None, Empty}

\* A session never clears a detail, puts no logo that is neither named by a
\* body nor has a document, and assigns the key of its upload once that is stored.
SessionFits(r) ==
    /\ \A d \in Details : {r.row.settings[d], r.changes[d]} \subseteq Values \union {None}
    /\ r.row.settings["logo"] \in docs \union Unchecked
    /\ IF r.op = "upload_logo"
       THEN /\ r.key \in Keys
            /\ r.changes["logo"] \in {r.key, None}
            /\ r.changes["logo"] # None => r.key \in objects
       ELSE r.changes["logo"] \in Unchecked
    /\ r.op = "complete" => DetailsGiven(r.row)

SessionsFit == \A s \in Sessions : sess[s] # Idle => SessionFits(sess[s])

IInv ==
    /\ TypeOK
    /\ SessionsFit
    /\ LogoIsStored

-----------------------------------------------------------------------------
(* What a save writes.                                                     *)

LEMMA SessionFields ==
    ASSUME TypeOK, NEW s \in Sessions, sess[s] # Idle
    PROVE  sess[s] \in Session
BY DEF TypeOK

\* Field by field, the settings document that a session stores.
LEMMA TargetFacts ==
    ASSUME NEW r \in Session
    PROVE  /\ Target(r).settings \in Settings
           /\ \A f \in Fields : Target(r).settings[f] =
                IF r.op = "delete_logo" /\ f = "logo" THEN None
                ELSE IF r.changes[f] # None THEN r.changes[f] ELSE r.row.settings[f]
           /\ Target(r).name = IF r.name # None THEN r.name ELSE r.row.name
           /\ Target(r).name \in Values \union {Empty}
           /\ Target(r).onboarded = (r.row.onboarded \/ r.op = "complete")
<1>1. r.row \in TenantRow /\ r.changes \in Settings /\ r.name \in Values \union {None, Empty}
  BY DEF Session
<1>2. r.row.settings \in Settings /\ r.row.name \in Values \union {Empty}
  BY <1>1 DEF TenantRow
<1>3. Target(r).settings \in Settings
  BY <1>1, <1>2 DEF Target, Settings
<1>4. Target(r).name = IF r.name # None THEN r.name ELSE r.row.name
  BY DEF Target
<1>5. Target(r).onboarded = (r.row.onboarded \/ r.op = "complete")
  BY Zenon DEF Target
<1> QED
  BY <1>1, <1>2, <1>3, <1>4, <1>5 DEF Target

\* Column by column, the row after the commit.
LEMMA SavedFacts ==
    ASSUME NEW stored \in TenantRow, NEW r \in Session
    PROVE  /\ Saved(stored, r) \in TenantRow
           /\ Saved(stored, r).settings =
                IF r.op = "complete" THEN stored.settings ELSE Target(r).settings
           /\ Saved(stored, r).name # stored.name => Saved(stored, r).name = r.name
           /\ stored.onboarded => Saved(stored, r).onboarded
           /\ Saved(stored, r).onboarded => stored.onboarded \/ r.op = "complete"
<1> DEFINE target   == Target(r)
           settings == IF r.op = "complete" THEN stored.settings ELSE target.settings
           name     == IF target.name = r.row.name THEN stored.name ELSE target.name
           done     == IF target.onboarded = r.row.onboarded THEN stored.onboarded
                       ELSE target.onboarded
           flushed  == Flushed(stored, r.row, target)
           saved    == Saved(stored, r)
<1>1. /\ target.settings \in Settings
      /\ target.name = IF r.name # None THEN r.name ELSE r.row.name
      /\ target.name \in Values \union {Empty}
      /\ target.onboarded = (r.row.onboarded \/ r.op = "complete")
  BY TargetFacts
<1>2. r.row \in TenantRow /\ r.row.onboarded \in BOOLEAN /\ stored.onboarded \in BOOLEAN
  BY DEF Session, TenantRow
<1>3. target.onboarded \in BOOLEAN
  BY <1>1, <1>2
<1>4. DOMAIN stored = {"settings", "name", "onboarded"}
  BY DEF TenantRow
<1>5. /\ DOMAIN flushed = {"settings", "name", "onboarded"}
      /\ flushed.name = name
      /\ flushed.onboarded = done
  BY <1>4, Zenon DEF Flushed
<1>6. saved = [flushed EXCEPT !.settings = settings]
  BY DEF Saved
<1> HIDE DEF flushed, saved
<1>7. /\ DOMAIN saved = {"settings", "name", "onboarded"}
      /\ saved.settings = settings
      /\ saved.name = name
      /\ saved.onboarded = done
  <2>1. saved = [c \in DOMAIN flushed |-> IF c = "settings" THEN settings ELSE flushed[c]]
    BY <1>6, Zenon
  <2> HIDE DEF settings, name, done
  <2> QED
    BY <1>5, <2>1, Zenon
<1>8. settings \in Settings /\ name \in Values \union {Empty} /\ done \in BOOLEAN
  BY <1>1, <1>2, <1>3 DEF TenantRow
<1>9. saved = [settings |-> settings, name |-> name, onboarded |-> done]
  <2> HIDE DEF settings, name, done
  <2>1. saved = [c \in {"settings", "name", "onboarded"} |-> saved[c]]
    BY <1>6, <1>7 DEF Flushed, flushed
  <2> QED
    BY <1>7, <2>1
<1>10. saved \in TenantRow
  <2> HIDE DEF settings, name, done
  <2> QED
    BY <1>8, <1>9 DEF TenantRow
<1>11. name # stored.name => name = r.name
  BY <1>1
<1>12. /\ stored.onboarded => done
       /\ done => stored.onboarded \/ r.op = "complete"
  BY <1>1, <1>2
<1> QED
  BY <1>7, <1>10, <1>11, <1>12 DEF saved

-----------------------------------------------------------------------------
(* Steps of one session.                                                   *)

LEMMA StepInv ==
    ASSUME IInv, NEW s \in Sessions, NEW w \in {Idle} \union Session,
           sess' = [sess EXCEPT ![s] = w], UNCHANGED clock,
           tenant' \in TenantRow, \A d \in Details : tenant'.settings[d] \in Values \union {None},
           docs \subseteq docs', docs' \subseteq Keys,
           objects \subseteq objects', objects' \subseteq Keys,
           w # Idle => SessionFits(w)', LogoIsStored'
    PROVE  IInv'
<1>1. sess'[s] = w /\ \A q \in Sessions \ {s} : sess'[q] = sess[q]
  BY DEF IInv, TypeOK
<1>2. TypeOK'
  BY DEF IInv, TypeOK
<1>3. SessionsFit'
  <2> SUFFICES ASSUME NEW q \in Sessions, q # s, sess[q] # Idle
               PROVE  SessionFits(sess[q])'
    BY <1>1 DEF SessionsFit
  <2>1. SessionFits(sess[q])
    BY DEF IInv, SessionsFit
  <2> QED
    BY <1>1, <2>1 DEF SessionFits
<1> QED
  BY <1>2, <1>3 DEF IInv

\* A request is opened with changes that clear no detail.
LEMMA OpenInv ==
    ASSUME IInv, NEW s \in Sessions, NEW op \in Ops, NEW changes \in Settings,
           NEW name \in Values \union {None, Empty}, NEW key \in Keys \union {None},
           Open(s, op, changes, name, key),
           \A d \in Details : changes[d] \in Values \union {None},
           IF op = "upload_logo" THEN key \in Keys /\ changes["logo"] = None
           ELSE changes["logo"] \in Unchecked,
           op = "complete" => DetailsGiven(tenant)
    PROVE  IInv'
<1>1. PICK w : w = [op |-> op, row |-> tenant, changes |-> changes, name |-> name, key |-> key]
  OBVIOUS
<1>2. w \in Session
  BY <1>1 DEF IInv, TypeOK, Session
<1>3. w.op = op /\ w.row = tenant /\ w.changes = changes /\ w.key = key
  BY <1>1
<1>4. sess' = [sess EXCEPT ![s] = w] /\ UNCHANGED <<tenant, docs, objects, clock>>
  BY <1>1 DEF Open
<1>5. SessionFits(w)
  BY <1>3 DEF IInv, TypeOK, LogoIsStored, SessionFits, Unchecked
<1>6. SessionFits(w)'
  BY <1>4, <1>5 DEF SessionFits
<1>7. LogoIsStored'
  BY <1>4 DEF IInv, LogoIsStored
<1> QED
  BY <1>2, <1>4, <1>6, <1>7, StepInv DEF IInv, TypeOK

LEMMA NoChangeFacts ==
    /\ NoChange \in Settings
    /\ NoChange["logo"] = None
    /\ \A d \in Details : NoChange[d] = None
BY DEF NoChange, Settings, Fields

LEMMA UpdateBrandingInv ==
    ASSUME IInv, NEW s \in Sessions, NEW body \in Bodies, UpdateBranding(s, body)
    PROVE  IInv'
<1>1. PICK changes :
        changes = [f \in Fields |-> IF f \notin Sent \/ Kept(f, body[f]) THEN None ELSE body[f]]
  OBVIOUS
<1>2. body \in [Sent -> Values \union Keys \union {None, Empty}]
  BY SettingsAssumption
<1>3. \A f \in Details \union {"name"} : body[f] \in Values \union {None, Empty}
  BY SettingsAssumption
<1>4. changes \in Settings
  BY <1>1, <1>2 DEF Settings
<1>5. \A d \in Details : changes[d] \in Values \union {None}
  BY <1>1, <1>3 DEF Fields, Kept, Sent
<1>6. body["logo"] \in NamedLogos
  BY DEF NamedLogos
<1>7. changes["logo"] \in Unchecked
  BY <1>1, <1>6 DEF Fields, Unchecked
<1>8. Open(s, "branding", changes, body["name"], None)
  BY <1>1 DEF UpdateBranding
<1> QED
  BY <1>3, <1>4, <1>5, <1>7, <1>8, OpenInv DEF Ops

LEMMA UpdateBankAccountsInv ==
    ASSUME IInv, NEW s \in Sessions, NEW accounts \in Values, UpdateBankAccounts(s, accounts)
    PROVE  IInv'
<1>1. PICK changes : changes = [NoChange EXCEPT !["bank"] = accounts]
  OBVIOUS
<1>2. changes \in Settings
  BY <1>1, NoChangeFacts DEF Settings
<1>3. changes["logo"] = None /\ \A d \in Details : changes[d] = None
  BY <1>1, NoChangeFacts, SettingsAssumption DEF Settings, Fields
<1>4. Open(s, "bank", changes, None, None)
  BY <1>1 DEF UpdateBankAccounts
<1> QED
  BY <1>2, <1>3, <1>4, OpenInv DEF Ops, Unchecked

LEMMA PutInv ==
    ASSUME IInv, NEW s \in Sessions, Put(s)
    PROVE  IInv'
<1>1. PICK changes : changes = [sess[s].changes EXCEPT !["logo"] = sess[s].key]
  OBVIOUS
<1>2. PICK w : w = [sess[s] EXCEPT !.changes = changes]
  OBVIOUS
<1>3. sess[s] # Idle /\ sess[s].op = "upload_logo"
  BY DEF Put, Uploading, Idle
<1>4. sess[s] \in Session /\ SessionFits(sess[s])
  BY <1>3, SessionFields DEF IInv, SessionsFit
<1>5. sess[s].key \in Keys
  BY <1>3, <1>4 DEF SessionFits
<1>6. /\ changes \in Settings
      /\ changes["logo"] = sess[s].key
      /\ \A d \in Details : changes[d] = sess[s].changes[d]
  BY <1>1, <1>4, <1>5, SettingsAssumption DEF Session, Settings, Fields
<1>7. /\ w \in Session
      /\ w.op = "upload_logo" /\ w.row = sess[s].row /\ w.changes = changes
      /\ w.key = sess[s].key
  BY <1>2, <1>3, <1>4, <1>6 DEF Session
<1>8. /\ sess' = [sess EXCEPT ![s] = w]
      /\ objects' = objects \union {sess[s].key}
      /\ UNCHANGED <<tenant, docs, clock>>
  BY <1>1, <1>2 DEF Put, IInv, TypeOK
<1>9. SessionFits(w)'
  BY <1>3, <1>4, <1>5, <1>6, <1>7, <1>8 DEF SessionFits
<1>10. LogoIsStored'
  BY <1>8 DEF IInv, LogoIsStored
<1> QED
  BY <1>5, <1>7, <1>8, <1>9, <1>10, StepInv DEF IInv, TypeOK

\* What Respond writes: each detail is kept or given, the logo has its row.
LEMMA RespondFacts ==
    ASSUME IInv, NEW s \in Sessions, Respond(s)
    PROVE  /\ tenant' \in TenantRow
           /\ \A d \in Details : tenant'.settings[d] \in Values \union {None}
           /\ tenant'.settings["logo"] \in docs' \union Unchecked
           /\ docs \subseteq docs' /\ docs' \subseteq objects
<1> DEFINE r == sess[s]
<1>1. r \in Session /\ SessionFits(r) /\ tenant \in TenantRow
  BY SessionFields DEF Respond, Ready, IInv, SessionsFit, TypeOK
<1>2. docs' = IF r.op = "upload_logo" THEN docs \union {r.key} ELSE docs
  BY DEF Respond
<1>3. r.op = "upload_logo" => r.key \in objects
  BY <1>1 DEF Respond, Ready, Uploading, SessionFits
<1>4. docs \subseteq docs' /\ docs' \subseteq objects
  BY <1>2, <1>3 DEF IInv, LogoIsStored
<1>5. tenant' = Saved(tenant, r)
  BY DEF Respond
<1> HIDE DEF r
<1>6. /\ tenant' \in TenantRow
      /\ tenant'.settings = IF r.op = "complete" THEN tenant.settings ELSE Target(r).settings
  BY <1>1, <1>5, SavedFacts
<1>7. \A f \in Fields : Target(r).settings[f] =
        IF r.op = "delete_logo" /\ f = "logo" THEN None
        ELSE IF r.changes[f] # None THEN r.changes[f] ELSE r.row.settings[f]
  BY <1>1, TargetFacts
<1>8. \A d \in Details : Target(r).settings[d] \in Values \union {None}
  BY <1>1, <1>7 DEF SessionFits, Fields
<1>9. Target(r).settings["logo"] \in docs' \union Unchecked
  BY <1>1, <1>2, <1>7 DEF SessionFits, Fields, Unchecked
<1>10. \A d \in Details : tenant'.settings[d] \in Values \union {None}
  BY <1>6, <1>8 DEF IInv, TypeOK
<1>11. tenant'.settings["logo"] \in docs' \union Unchecked
  BY <1>4, <1>6, <1>9 DEF IInv, LogoIsStored, Unchecked
<1> QED
  BY <1>4, <1>6, <1>10, <1>11

LEMMA RespondInv ==
    ASSUME IInv, NEW s \in Sessions, Respond(s)
    PROVE  IInv'
<1>1. /\ tenant' \in TenantRow
      /\ \A d \in Details : tenant'.settings[d] \in Values \union {None}
      /\ tenant'.settings["logo"] \in docs' \union Unchecked
      /\ docs \subseteq docs' /\ docs' \subseteq objects
  BY RespondFacts
<1>2. sess' = [sess EXCEPT ![s] = Idle] /\ UNCHANGED <<objects, clock>>
  BY DEF Respond
<1>3. LogoIsStored'
  BY <1>1, <1>2 DEF LogoIsStored, Unchecked
<1> QED
  BY <1>1, <1>2, <1>3, StepInv DEF IInv, TypeOK

LEMMA AbortInv ==
    ASSUME IInv, NEW s \in Sessions, Abort(s)
    PROVE  IInv'
<1>1. objects \subseteq objects' /\ objects' \subseteq Keys
  <2>1. CASE UNCHANGED objects
    BY <2>1 DEF IInv, TypeOK
  <2>2. CASE Uploading(s) /\ objects' = objects \union {sess[s].key}
    <3>1. sess[s] # Idle /\ sess[s].op = "upload_logo"
      BY <2>2 DEF Uploading, Idle
    <3>2. sess[s].key \in Keys
      BY <3>1 DEF IInv, SessionsFit, SessionFits
    <3> QED
      BY <2>2, <3>2 DEF IInv, TypeOK
  <2> QED
    BY <2>1, <2>2 DEF Abort
<1>2. LogoIsStored'
  BY <1>1 DEF Abort, IInv, LogoIsStored
<1> QED
  BY <1>1, <1>2, StepInv DEF Abort, IInv, TypeOK

-----------------------------------------------------------------------------
LEMMA InitInv == Init => IInv
<1> SUFFICES ASSUME Init
             PROVE  IInv
  OBVIOUS
<1>1. PICK name \in Values : tenant = NewTenant(name)
  BY DEF Init
<1>2. tenant \in TenantRow /\ \A f \in Fields : tenant.settings[f] = None
  BY <1>1 DEF NewTenant, TenantRow, Settings
<1>3. TypeOK
  BY <1>2 DEF Init, TypeOK, Fields
<1> QED
  BY <1>2, <1>3 DEF Init, IInv, SessionsFit, LogoIsStored, Fields

LEMMA NextInv == IInv /\ [Next]_vars => IInv'
<1> SUFFICES ASSUME IInv, [Next]_vars
             PROVE  IInv'
  OBVIOUS
<1>1. ASSUME NEW s \in Sessions, NEW body \in Bodies, UpdateBranding(s, body)
      PROVE  IInv'
  BY <1>1, UpdateBrandingInv
<1>2. ASSUME NEW s \in Sessions, NEW file \in Files, UploadLogo(s, file)
      PROVE  IInv'
  <2>1. <<clock, file>> \in Keys
    BY DEF IInv, TypeOK, Keys
  <2> QED
    BY <1>2, <2>1, NoChangeFacts, OpenInv DEF UploadLogo, Ops
<1>3. ASSUME NEW s \in Sessions, DeleteLogo(s)
      PROVE  IInv'
  BY <1>3, NoChangeFacts, OpenInv DEF DeleteLogo, Ops, Unchecked
<1>4. ASSUME NEW s \in Sessions, CompleteOnboarding(s)
      PROVE  IInv'
  BY <1>4, NoChangeFacts, OpenInv DEF CompleteOnboarding, Ops, Unchecked
<1>5. ASSUME NEW s \in Sessions, NEW accounts \in Values, UpdateBankAccounts(s, accounts)
      PROVE  IInv'
  BY <1>5, UpdateBankAccountsInv
<1>6. ASSUME NEW s \in Sessions, Put(s)
      PROVE  IInv'
  BY <1>6, PutInv
<1>7. ASSUME NEW s \in Sessions, Respond(s)
      PROVE  IInv'
  BY <1>7, RespondInv
<1>8. ASSUME NEW s \in Sessions, Abort(s)
      PROVE  IInv'
  BY <1>8, AbortInv
<1>9. ASSUME UNCHANGED <<tenant, docs, objects, sess>>, clock' \in Nat
      PROVE  IInv'
  BY <1>9 DEF IInv, TypeOK, SessionsFit, SessionFits, LogoIsStored
<1>10. CASE Tick
  BY <1>9, <1>10 DEF Tick, IInv, TypeOK
<1>11. CASE UNCHANGED vars
  BY <1>9, <1>11 DEF vars, IInv, TypeOK
<1> QED
  BY <1>1, <1>2, <1>3, <1>4, <1>5, <1>6, <1>7, <1>8, <1>10, <1>11 DEF Next

-----------------------------------------------------------------------------
(***************************************************************************)
(* Every reachable state satisfies the inductive invariant.                *)
(***************************************************************************)
THEOREM Invariance == Spec => []IInv
BY InitInv, NextInv, PTL DEF Spec

(***************************************************************************)
(* The row, its settings document and the sessions keep their types: no    *)
(* save stores an empty company detail (api/v1/tenant.py:188-193).         *)
(***************************************************************************)
THEOREM TypeCorrect == Spec => []TypeOK
<1>1. IInv => TypeOK
  BY DEF IInv
<1> QED
  BY <1>1, Invariance, PTL

(***************************************************************************)
(* A logo of the committed settings that no PUT /branding may name has its *)
(* document row and its stored object, in any order of uploads, deletions, *)
(* stale saves and aborts (services/document.py:47-71,                     *)
(* api/v1/tenant.py:208-209).                                              *)
(***************************************************************************)
THEOREM LogoStaysStored == Spec => []LogoIsStored
<1>1. IInv => LogoIsStored
  BY DEF IInv
<1> QED
  BY <1>1, Invariance, PTL

-----------------------------------------------------------------------------
(* What a step does to the row.                                            *)

\* Only the end of a session writes the row.
LEMMA RowStep ==
    ASSUME IInv, Next, tenant' # tenant
    PROVE  \E s \in Sessions :
             /\ Respond(s)
             /\ sess[s] # Idle /\ sess'[s] = Idle
             /\ sess[s] \in Session /\ SessionFits(sess[s])
             /\ tenant' = Saved(tenant, sess[s])
<1>1. PICK s \in Sessions : Respond(s)
  BY DEF Next, UpdateBranding, UploadLogo, DeleteLogo, CompleteOnboarding,
         UpdateBankAccounts, Open, Put, Abort, Tick
<1>2. sess[s] # Idle /\ tenant' = Saved(tenant, sess[s]) /\ sess'[s] = Idle
  BY <1>1 DEF Respond, Ready, IInv, TypeOK
<1>3. sess[s] \in Session /\ SessionFits(sess[s])
  BY <1>2, SessionFields DEF IInv, SessionsFit
<1> QED
  BY <1>1, <1>2, <1>3

(***************************************************************************)
(* A field of the settings changes to what a request asks for it, or back  *)
(* to what an overtaken session had loaded, and never to an empty detail   *)
(* (api/v1/tenant.py:180-231).                                             *)
(***************************************************************************)
THEOREM FieldsAreAskedOrReverted == Spec => ChangesAreAskedOrReverted
<1> DEFINE Explained(f) ==
        tenant'.settings[f] # tenant.settings[f] =>
            \E s \in Sessions :
                /\ sess[s] # Idle /\ sess'[s] = Idle
                /\ ~ (f \in Details /\ tenant'.settings[f] = Empty)
                /\ \/ Asks(s, f, tenant'.settings[f])
                   \/ Overtaken(s) /\ tenant'.settings[f] = sess[s].row.settings[f]
<1>1. IInv /\ [Next]_vars => [\A f \in Fields : Explained(f)]_tenant
  <2> SUFFICES ASSUME IInv, Next, tenant' # tenant, NEW f \in Fields,
                      tenant'.settings[f] # tenant.settings[f]
               PROVE  Explained(f)
    BY DEF vars
  <2>1. PICK s \in Sessions :
          /\ Respond(s)
          /\ sess[s] # Idle /\ sess'[s] = Idle
          /\ sess[s] \in Session /\ SessionFits(sess[s])
          /\ tenant' = Saved(tenant, sess[s])
    BY RowStep
  <2>2. ~ (f \in Details /\ tenant'.settings[f] = Empty)
    BY <2>1, RespondFacts, SettingsAssumption
  <2> DEFINE r == sess[s]
  <2>3. r.op # "complete" /\ tenant'.settings = Target(r).settings
    BY <2>1, SavedFacts DEF IInv, TypeOK
  <2>4. Target(r).settings[f] =
          IF r.op = "delete_logo" /\ f = "logo" THEN None
          ELSE IF r.changes[f] # None THEN r.changes[f] ELSE r.row.settings[f]
    BY <2>1, TargetFacts
  <2>5. \/ Asks(s, f, tenant'.settings[f])
        \/ tenant'.settings[f] = r.row.settings[f]
    BY <2>3, <2>4 DEF Asks
  <2>6. tenant'.settings[f] = r.row.settings[f] => Overtaken(s)
    BY <2>1 DEF Overtaken
  <2> QED
    BY <2>1, <2>2, <2>5, <2>6
<1> QED
  BY <1>1, Invariance, PTL DEF Spec, ChangesAreAskedOrReverted

(***************************************************************************)
(* No stale save takes back a new name or a completed onboarding           *)
(* (api/v1/tenant.py:185-186, 374).                                        *)
(***************************************************************************)
THEOREM OtherColumnsStay == Spec => ColumnsNeverReverted
<1> DEFINE Stays ==
        /\ tenant.onboarded => tenant'.onboarded
        /\ tenant'.name # tenant.name =>
             \E s \in Sessions : sess[s] # Idle /\ sess'[s] = Idle /\ sess[s].name = tenant'.name
<1>1. IInv /\ [Next]_vars => [Stays]_tenant
  <2> SUFFICES ASSUME IInv, Next, tenant' # tenant
               PROVE  Stays
    BY DEF vars
  <2>1. PICK s \in Sessions :
          /\ sess[s] # Idle /\ sess'[s] = Idle
          /\ sess[s] \in Session
          /\ tenant' = Saved(tenant, sess[s])
    BY RowStep
  <2>2. /\ tenant'.name # tenant.name => tenant'.name = sess[s].name
        /\ tenant.onboarded => tenant'.onboarded
    BY <2>1, SavedFacts DEF IInv, TypeOK
  <2> QED
    BY <2>1, <2>2
<1> QED
  BY <1>1, Invariance, PTL DEF Spec, ColumnsNeverReverted

(***************************************************************************)
(* Only a session that was overtaken leaves an onboarded tenant without a  *)
(* required detail (api/v1/tenant.py:359-374).                             *)
(***************************************************************************)
THEOREM OnboardingNeedsDetails == Spec => OnboardedKeepsDetails
<1> DEFINE Explained ==
        Lacking(tenant') /\ ~ Lacking(tenant) => \E s \in Sessions : Overtaken(s) /\ Respond(s)
<1>1. IInv /\ [Next]_vars => [Explained]_tenant
  <2> SUFFICES ASSUME IInv, Next, tenant' # tenant, ~ Lacking(tenant),
                      ~ \E s \in Sessions : Overtaken(s) /\ Respond(s)
               PROVE  ~ Lacking(tenant')
    BY DEF vars
  <2>1. PICK s \in Sessions :
          /\ Respond(s)
          /\ sess[s] # Idle
          /\ sess[s] \in Session /\ SessionFits(sess[s])
          /\ tenant' = Saved(tenant, sess[s])
    BY RowStep
  <2> DEFINE r == sess[s]
  <2>2. tenant = r.row
    BY <2>1 DEF Overtaken
  <2>3. /\ tenant'.settings = IF r.op = "complete" THEN tenant.settings ELSE Target(r).settings
        /\ tenant'.onboarded => tenant.onboarded \/ r.op = "complete"
    BY <2>1, SavedFacts DEF IInv, TypeOK
  <2>4. \A d \in Required : d \in Fields /\ d # "logo"
    BY SettingsAssumption DEF Fields
  <2>5. \A d \in Required : tenant.settings[d] # None => Target(r).settings[d] # None
    BY <2>1, <2>2, <2>4, TargetFacts
  <2>6. r.op = "complete" => \A d \in Required : tenant.settings[d] # None
    BY <2>1, <2>2 DEF SessionFits, DetailsGiven
  <2> QED
    BY <2>3, <2>5, <2>6 DEF Lacking
<1> QED
  BY <1>1, Invariance, PTL DEF Spec, OnboardedKeepsDetails
=============================================================================

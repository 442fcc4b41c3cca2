-------------------------- MODULE TenantProperties --------------------------
(***************************************************************************)
(* What TenantSettings guarantees, and a statement of the repository that  *)
(* it does not.                                                            *)
(***************************************************************************)
EXTENDS TenantSettings

\* The row has changed since session s loaded it.
Overtaken(s) == sess[s] # Idle /\ tenant # sess[s].row

\* What the request of session s asks field f to be.
Asks(s, f, value) ==
    \/ sess[s].op = "delete_logo" /\ f = "logo" /\ value = None
    \/ value # None /\ value = sess[s].changes[f]

(***************************************************************************)
(* Two saves of the settings document overwrite each other whole.  Still,  *)
(* a field only ever changes to what a request asks for it, or back to     *)
(* what it was when a session that has since been overtaken loaded it; an  *)
(* empty detail or an absent one never changes anything                    *)
(* (api/v1/tenant.py:180-231).                                             *)
(***************************************************************************)
ChangesAreAskedOrReverted ==
    [][\A f \in Fields :
        tenant'.settings[f] # tenant.settings[f] =>
            \E s \in Sessions :
                /\ sess[s] # Idle /\ sess'[s] = Idle
                /\ ~ (f \in Details /\ tenant'.settings[f] = Empty)
                /\ \/ Asks(s, f, tenant'.settings[f])
                   \/ Overtaken(s) /\ tenant'.settings[f] = sess[s].row.settings[f]]_tenant

(***************************************************************************)
(* The other columns of the row are not part of that race: a stale save    *)
(* never takes back a new name or a completed onboarding                   *)
(* (api/v1/tenant.py:185-186, 374).                                        *)
(***************************************************************************)
ColumnsNeverReverted ==
    [][/\ tenant.onboarded => tenant'.onboarded
       /\ tenant'.name # tenant.name =>
            \E s \in Sessions : sess[s] # Idle /\ sess'[s] = Idle /\ sess[s].name = tenant'.name]_tenant

Lacking(row) == row.onboarded /\ \E d \in Required : row.settings[d] = None

(***************************************************************************)
(* A tenant is onboarded without a required detail only through a session  *)
(* that was overtaken (api/v1/tenant.py:359-374).                          *)
(***************************************************************************)
OnboardedKeepsDetails ==
    [][Lacking(tenant') /\ ~ Lacking(tenant) =>
        \E s \in Sessions : Overtaken(s) /\ Respond(s)]_tenant

\* The logos that a PUT /branding may name.
NamedLogos == {body["logo"] : body \in Bodies}

(***************************************************************************)
(* PUT /branding stores whatever logo key it is sent, unchecked            *)
(* (api/v1/tenant.py:208-209).  Any other logo of the committed settings   *)
(* was uploaded: it has its document row and its stored object, whatever   *)
(* aborts, and in any order of uploads, deletions and stale saves          *)
(* (services/document.py:47-71).                                           *)
(***************************************************************************)
LogoIsStored ==
    /\ tenant.settings["logo"] \in docs \union NamedLogos \union {None, Empty}
    /\ docs \subseteq objects

-----------------------------------------------------------------------------
(***************************************************************************)
(* "partial saves (e.g. onboarding step 3) don't clobber fields already    *)
(* populated in earlier steps" (api/v1/tenant.py:183-184).                 *)
(***************************************************************************)
DetailsNotClobbered ==
    [][\A d \in Details : tenant.settings[d] # None => tenant'.settings[d] # None]_tenant
=============================================================================

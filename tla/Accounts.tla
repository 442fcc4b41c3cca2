------------------------------ MODULE Accounts ------------------------------
(***************************************************************************)
(* User accounts and their tenants: the one-time passwords of              *)
(* src/app/services/otp.py under the routes of api/v1/auth.py, and the     *)
(* provisioning of services/tenant.py under api/v1/admin.py and the two    *)
(* scripts, as database sessions that overlap.  Mail goes through          *)
(* EmailRouter.                                                            *)
(*                                                                         *)
(* Unlike most of the application these functions commit.  A column is     *)
(* written when it differs from the loaded one; here that is always so     *)
(* where it matters: a bcrypt hash is new each time, a cleared code was    *)
(* not NULL, an adopted user had no tenant, and the verified flag and the  *)
(* role of a super admin are never taken back.                             *)
(*                                                                         *)
(* A slug is the number of its suffix, 0 for none: users of one local part *)
(* compete for the same series.  It also stands for the id of its tenant.  *)
(* Requests that change nothing (401, 404, 409, login, refresh) are left   *)
(* out.                                                                    *)
(***************************************************************************)
EXTENDS EmailRouter

CONSTANTS
    Emails, Passwords, None,
    GivenSlugs,   \* slugs that a provisioning request may name
    OtpMinutes,   \* OTP_EXPIRY_MINUTES, in units of the clock
    MaxCode,      \* bound on the codes generated
    MaxSlug,      \* bound on the slugs probed
    MaxClock      \* bound on the clock

ASSUME AccountsAssumption ==
    /\ EmailEnabled \in BOOLEAN
    /\ None \notin Emails \union Passwords \union Nat
    /\ GivenSlugs \subseteq Nat
    /\ {OtpMinutes, MaxCode, MaxSlug, MaxClock} \subseteq Nat

VARIABLES
    user,      \* the committed users: Emails -> UserRow or None
    tenants,   \* the committed tenants, by slug
    inbox,     \* the <<address, code>> pairs that providers took
    codes,     \* the number of codes generated so far
    sess,      \* the open sessions
    clock

db     == <<user, tenants>>
router == <<depleted, delivery>>
vars   == <<user, tenants, inbox, codes, sess, clock, depleted, delivery>>

-----------------------------------------------------------------------------
\* Codes are told apart by the order of their generation.
Otp == [code : Nat, until : Nat]

UserRow ==
    [password : Passwords, verified : BOOLEAN,
     role : {"tenant_staff", "tenant_admin", "super_admin"},
     tenant : Nat \union {None}, otp : Otp \union {None}]

ASSUME NullAccountAssumption == None \notin UserRow \union Otp

\* Fault variant of NewUser: the role is left to the database.
NewUserRoleless(password, verified, role, slug) ==
    [password |-> password, verified |-> verified, role |-> None,
     tenant |-> slug, otp |-> None]

NewUser(password, verified, role, slug) ==
    [password |-> password, verified |-> verified, role |-> role,
     tenant |-> slug, otp |-> None]

Idle == [op |-> "idle"]

MailOps == {"register", "resend", "forgot"}
UseOps  == {"verify", "reset"}
SlugOps == {"provision", "adopt"}
AdminOps == {"seed", "promote"}

\* step: what the session does next.  code: the one it mails or was given.
\* slug: the one it probes or inserts.
Session ==
    [op : MailOps \union UseOps \union SlugOps \union AdminOps,
     step : {"insert", "issue", "mail", "probe", "write"},
     email : Emails, password : Passwords \union {None}, code : Nat, slug : Nat]

TypeOK ==
    /\ user \in [Emails -> UserRow \union {None}]
    /\ tenants \subseteq Nat
    /\ inbox \subseteq Emails \X Nat
    /\ codes \in Nat
    /\ sess \in [Sessions -> {Idle} \union Session]
    /\ clock \in Nat
    /\ RouterTypeOK

Init ==
    /\ user = [e \in Emails |-> None]
    /\ tenants = {}
    /\ inbox = {}
    /\ codes = 0
    /\ sess = [s \in Sessions |-> Idle]
    /\ clock = 0
    /\ RouterInit

-----------------------------------------------------------------------------
(* Opening a session: the SELECT of the user and the refusals.             *)

Open(s, op, step, email, password, code, slug) ==
    /\ sess[s] = Idle
    /\ sess' = [sess EXCEPT ![s] =
                   [op |-> op, step |-> step, email |-> email,
                    password |-> password, code |-> code, slug |-> slug]]
    /\ UNCHANGED <<user, tenants, inbox, codes, clock, router>>

\* POST /auth/register: 409 if the address has an account.
Register(s, e, password) ==
    /\ user[e] = None
    /\ Open(s, "register", "insert", e, password, 0, 0)

\* POST /auth/resend-otp and /auth/forgot-password
RequestCode(s, op, e) ==
    /\ user[e] # None
    /\ Open(s, op, "issue", e, None, 0, 0)

\* Fault variant of Valid: an expired code is accepted.
ValidForever(row, code, now) == row.otp # None /\ row.otp.code = code

\* verify_otp
Valid(row, code, now) ==
    /\ row.otp # None
    /\ now <= row.otp.until
    /\ row.otp.code = code

\* POST /auth/verify-otp and /auth/reset-password
UseCode(s, op, e, password, code) ==
    /\ user[e] # None
    /\ Valid(user[e], code, clock)
    /\ op = "verify" <=> password = None
    /\ Open(s, op, "write", e, password, code, 0)

\* POST /platform/tenants and provision_tenant.py for an unused address: with
\* a slug of the caller or with one to be found.
Provision(s, e, password, slug) ==
    /\ user[e] = None
    /\ Open(s, "provision", IF slug = None THEN "probe" ELSE "write", e, password, 0,
            IF slug = None THEN 0 ELSE slug)

\* The same for a user without a tenant; one with a tenant is returned as is.
Adopt(s, e) ==
    /\ user[e] # None
    /\ user[e].tenant = None
    /\ Open(s, "adopt", "probe", e, None, 0, 0)

\* ensure_superadmin, for an unused and for a known address
EnsureSuperadmin(s, e, password) ==
    Open(s, IF user[e] = None THEN "seed" ELSE "promote", "write", e, password, 0, 0)

-----------------------------------------------------------------------------
At(s, step) == sess[s] # Idle /\ sess[s].step = step

Close(s) == sess' = [sess EXCEPT ![s] = Idle]

\* The INSERT of register: the UNIQUE address refuses a second row (500).
InsertRegistered(s) ==
    /\ At(s, "insert")
    /\ IF user[sess[s].email] = None
       THEN /\ user' = [user EXCEPT ![sess[s].email] =
                            NewUser(sess[s].password, FALSE, "tenant_staff", None)]
            /\ sess' = [sess EXCEPT ![s].step = "issue"]
       ELSE Close(s) /\ UNCHANGED user
    /\ UNCHANGED <<tenants, inbox, codes, clock, router>>

\* create_otp: the new code is committed before it is mailed.
IssueCode(s) ==
    /\ At(s, "issue")
    /\ codes < MaxCode
    /\ codes' = codes + 1
    /\ user' = [user EXCEPT ![sess[s].email].otp =
                   [code |-> codes + 1, until |-> clock + OtpMinutes]]
    /\ sess' = [sess EXCEPT ![s].step = "mail", ![s].code = codes + 1]
    /\ UNCHANGED <<tenants, inbox, clock, router>>

StartMail(s) ==
    /\ At(s, "mail")
    /\ Route(s)
    /\ UNCHANGED <<user, tenants, inbox, codes, sess, clock>>

\* One call of a provider.
CallProvider(s, p, answer) ==
    /\ At(s, "mail")
    /\ Attempt(s, p, answer)
    /\ \E arrives \in Arrivals(answer) :
          inbox' = IF arrives THEN inbox \union {<<sess[s].email, sess[s].code>>} ELSE inbox
    /\ UNCHANGED <<user, tenants, codes, sess, clock>>

\* The request ends: 200 or 201 after phase "sent", else 400 or 500.
AnswerMail(s, phase) ==
    /\ At(s, "mail")
    /\ delivery[s].phase = phase
    /\ Close(s)
    /\ Forgotten(s)
    /\ UNCHANGED <<user, tenants, inbox, codes, clock>>

ReportSent(s)   == AnswerMail(s, "sent")
ReportFailed(s) == AnswerMail(s, "failed")

\* clear_otp
Cleared(row) == [row EXCEPT !.otp = None]

\* The end of verify-otp and reset-password: clear_otp commits.
FinishUse(s) ==
    /\ At(s, "write")
    /\ sess[s].op \in UseOps
    /\ LET e   == sess[s].email
           row == Cleared(user[e]) IN
       user' = [user EXCEPT ![e] =
                   [row EXCEPT
                       !.verified = @ \/ sess[s].op = "verify",
                       !.password = IF sess[s].op = "reset" THEN sess[s].password ELSE @]]
    /\ Close(s)
    /\ UNCHANGED <<tenants, inbox, codes, clock, router>>

\* Fault variant of NextProbe: the suffix is counted up twice.
NextProbeTwice(slug) == slug + 2

NextProbe(slug) == slug + 1

\* One SELECT of the slug search.
ProbeSlug(s) ==
    /\ At(s, "probe")
    /\ IF sess[s].slug \in tenants
       THEN /\ sess[s].slug < MaxSlug
            /\ sess' = [sess EXCEPT ![s].slug = NextProbe(@)]
       ELSE sess' = [sess EXCEPT ![s].step = "write"]
    /\ UNCHANGED <<user, tenants, inbox, codes, clock, router>>

\* Fault variant of FinishProvision: the tenant is committed on its own.
FinishProvisionLeaky(s) ==
    /\ At(s, "write")
    /\ sess[s].op = "provision"
    /\ tenants' = tenants \union {sess[s].slug}
    /\ user' = [user EXCEPT ![sess[s].email] =
                   IF @ # None \/ sess[s].slug \in tenants THEN @
                   ELSE NewUser(sess[s].password, TRUE, "tenant_admin", sess[s].slug)]
    /\ Close(s)
    /\ UNCHANGED <<inbox, codes, clock, router>>

\* The INSERT of the tenant, then of its user, and the commit: a taken slug or
\* address undoes both.
FinishProvision(s) ==
    /\ At(s, "write")
    /\ sess[s].op = "provision"
    /\ IF sess[s].slug \in tenants \/ user[sess[s].email] # None
       THEN UNCHANGED db
       ELSE /\ tenants' = tenants \union {sess[s].slug}
            /\ user' = [user EXCEPT ![sess[s].email] =
                           NewUser(sess[s].password, TRUE, "tenant_admin", sess[s].slug)]
    /\ Close(s)
    /\ UNCHANGED <<inbox, codes, clock, router>>

\* The INSERT of the tenant and the UPDATE of the user who had none.
FinishAdopt(s) ==
    /\ At(s, "write")
    /\ sess[s].op = "adopt"
    /\ IF sess[s].slug \in tenants
       THEN UNCHANGED db
       ELSE /\ tenants' = tenants \union {sess[s].slug}
            /\ user' = [user EXCEPT ![sess[s].email].tenant = sess[s].slug]
    /\ Close(s)
    /\ UNCHANGED <<inbox, codes, clock, router>>

\* The INSERT or the UPDATE of ensure_superadmin.
FinishSuperadmin(s) ==
    /\ At(s, "write")
    /\ sess[s].op \in AdminOps
    /\ LET e == sess[s].email
           password == sess[s].password IN
       user' = [user EXCEPT ![e] =
                   CASE sess[s].op = "promote" ->
                            [@ EXCEPT !.password = password, !.verified = TRUE,
                                      !.role = "super_admin"]
                     [] sess[s].op = "seed" /\ @ = None ->
                            NewUser(password, TRUE, "super_admin", None)
                     [] OTHER -> @]
    /\ Close(s)
    /\ UNCHANGED <<tenants, inbox, codes, clock, router>>

\* An exception: what the session has not committed is rolled back.
Abort(s) ==
    /\ sess[s] # Idle
    /\ Close(s)
    /\ Forgotten(s)
    /\ UNCHANGED <<user, tenants, inbox, codes, clock>>

\* The process is killed and started again.
Restart ==
    /\ sess' = [s \in Sessions |-> Idle]
    /\ RouterRestart
    /\ UNCHANGED <<user, tenants, inbox, codes, clock>>

Tick ==
    /\ clock < MaxClock
    /\ clock' = clock + 1
    /\ UNCHANGED <<user, tenants, inbox, codes, sess, router>>

Next ==
    \/ \E s \in Sessions :
        \/ \E e \in Emails :
            \/ \E password \in Passwords : Register(s, e, password)
            \/ \E op \in {"resend", "forgot"} : RequestCode(s, op, e)
            \/ \E op \in UseOps, password \in Passwords \union {None}, code \in 1 .. codes :
                   UseCode(s, op, e, password, code)
            \/ \E password \in Passwords, slug \in GivenSlugs \union {None} :
                   Provision(s, e, password, slug)
            \/ Adopt(s, e)
            \/ \E password \in Passwords : EnsureSuperadmin(s, e, password)
        \/ InsertRegistered(s)
        \/ IssueCode(s)
        \/ StartMail(s)
        \/ \E p \in Providers, answer \in Answers : CallProvider(s, p, answer)
        \/ ReportSent(s)
        \/ ReportFailed(s)
        \/ FinishUse(s)
        \/ ProbeSlug(s)
        \/ FinishProvision(s)
        \/ FinishAdopt(s)
        \/ FinishSuperadmin(s)
        \/ Abort(s)
    \/ Restart
    \/ Tick

Spec == Init /\ [][Next]_vars
=============================================================================

------------------------- MODULE AccountsProperties -------------------------
(***************************************************************************)
(* What Accounts guarantees.                                               *)
(***************************************************************************)
EXTENDS Accounts

Promise ==
    INSTANCE AccountsPromise WITH
        Codes <- 1 .. MaxCode, Slugs <- 0 .. MaxSlug \union GivenSlugs

\* What session s checked when it began no longer holds: its code was spent,
\* replaced or has expired, or its user has got a tenant.
Overtaken(s) ==
    \/ sess[s].op \in UseOps /\ ~ Valid(user[sess[s].email], sess[s].code, clock)
    \/ sess[s].op = "adopt" /\ user[sess[s].email].tenant # None

(***************************************************************************)
(* A code is checked in one step and cleared in a later one, a tenant      *)
(* looked up and attached later.  Whatever overlaps, and wherever a        *)
(* request fails or the process dies, every step on users and tenants is   *)
(* one operation of the promise on the current rows, unless it ends a      *)
(* session that another one has overtaken.  So a one-time password serves  *)
(* twice, and a code just mailed is wiped, only by a use that was already  *)
(* running (services/otp.py:45-74, services/tenant.py:48-80).              *)
(***************************************************************************)
AtomicUnlessOvertaken ==
    [][db # db' => \/ \E s \in Sessions : Overtaken(s) /\ (FinishUse(s) \/ FinishAdopt(s))
                  \/ Promise!Next]_db

Inhabited(slug) == \E e \in Emails : user[e] # None /\ user[e].tenant = slug

(***************************************************************************)
(* No tenant is left without a user: not by a conflict on the address      *)
(* after the tenant was flushed, not by two callers on one slug.  The      *)
(* exception are two callers that adopt the same user, where the later     *)
(* one moves the user to its own tenant (services/tenant.py:76-80,         *)
(* 110-123).                                                               *)
(***************************************************************************)
TenantsKeepUsers ==
    [][(\A slug \in tenants : Inhabited(slug)) =>
          \/ \A slug \in tenants' : Inhabited(slug)'
          \/ \E s \in Sessions : Overtaken(s) /\ FinishAdopt(s)]_db

(***************************************************************************)
(* Slugs found by search leave no gap: base-2 exists only beside base-1    *)
(* and base, although the search is a SELECT per suffix with other         *)
(* callers in between (services/tenant.py:64-68, 99-101).                  *)
(***************************************************************************)
SlugsWithoutGaps ==
    \A slug \in tenants \ GivenSlugs : 0 .. slug \subseteq tenants

(***************************************************************************)
(* A request for a code succeeds only if the code is on its way and was    *)
(* stored before, however the providers answer and whichever of them is    *)
(* depleted meanwhile (services/otp.py:91-96,                              *)
(* notifications/email/router.py:39-49).                                   *)
(***************************************************************************)
SuccessMeansMailed ==
    [][\A s \in Sessions :
        ReportSent(s) => <<sess[s].email, sess[s].code>> \in inbox]_vars

(***************************************************************************)
(* It fails only if every provider has been asked in vain or is depleted:  *)
(* one failing provider never keeps a request from the other one           *)
(* (notifications/email/router.py:31-49).                                  *)
(***************************************************************************)
FailureMeansExhausted ==
    \A s \in Sessions :
        delivery[s].phase = "failed" => Routed \subseteq delivery[s].tried \union depleted
=============================================================================

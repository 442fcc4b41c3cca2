-------------------------- MODULE AccountsPromise ---------------------------
(***************************************************************************)
(* What accounts and tenants promise, one request at a time: an address    *)
(* has one account, an account one tenant, and a one-time password works   *)
(* once and until it expires or is replaced.                               *)
(***************************************************************************)
EXTENDS Naturals

CONSTANTS Emails, Passwords, None, Codes, Slugs, OtpMinutes

VARIABLES user, tenants, clock

Put(e, row) == user' = [user EXCEPT ![e] = row]

SignUp(e) ==
    /\ user[e] = None
    /\ \E password \in Passwords :
        Put(e, [password |-> password, verified |-> FALSE, role |-> "tenant_staff",
                tenant |-> None, otp |-> None])
    /\ UNCHANGED tenants

GetCode(e) ==
    /\ user[e] # None
    /\ \E code \in Codes :
        /\ user[e].otp # None => user[e].otp.code < code
        /\ Put(e, [user[e] EXCEPT !.otp = [code |-> code, until |-> clock + OtpMinutes]])
    /\ UNCHANGED tenants

\* Spending the code proves the address or sets a new password.
SpendCode(e) ==
    /\ user[e] # None
    /\ user[e].otp # None
    /\ clock <= user[e].otp.until
    /\ \/ Put(e, [user[e] EXCEPT !.otp = None, !.verified = TRUE])
       \/ \E password \in Passwords :
            Put(e, [user[e] EXCEPT !.otp = None, !.password = password])
    /\ UNCHANGED tenants

\* A new tenant with its first user, or for a user who has none.
GetTenant(e) ==
    \E slug \in Slugs \ tenants :
        /\ tenants' = tenants \union {slug}
        /\ \/ /\ user[e] = None
              /\ \E password \in Passwords :
                    Put(e, [password |-> password, verified |-> TRUE, role |-> "tenant_admin",
                            tenant |-> slug, otp |-> None])
           \/ /\ user[e] # None
              /\ user[e].tenant = None
              /\ Put(e, [user[e] EXCEPT !.tenant = slug])

BecomeSuperadmin(e) ==
    /\ \E password \in Passwords :
        Put(e, IF user[e] = None
               THEN [password |-> password, verified |-> TRUE, role |-> "super_admin",
                     tenant |-> None, otp |-> None]
               ELSE [user[e] EXCEPT !.password = password, !.verified = TRUE,
                                    !.role = "super_admin"])
    /\ UNCHANGED tenants

Next ==
    \E e \in Emails :
        SignUp(e) \/ GetCode(e) \/ SpendCode(e) \/ GetTenant(e) \/ BecomeSuperadmin(e)
=============================================================================

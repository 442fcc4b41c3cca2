--------------------------- MODULE AccountsProofs ----------------------------
(***************************************************************************)
(* Proofs about Accounts and EmailRouter, for every set of sessions,       *)
(* addresses and passwords, every choice of given slugs, every provider    *)
(* answer and every bound.                                                 *)
(***************************************************************************)
EXTENDS AccountsProperties, TLAPS

-----------------------------------------------------------------------------
(* The inductive invariant.                                                *)

\* What the next step of a session may rely on.
SessionFits(r) ==
    /\ r.op \in MailOps => r.step \in {"insert", "issue", "mail"}
    /\ r.op \in UseOps \union AdminOps => r.step = "write"
    /\ r.op \in SlugOps => r.step \in {"probe", "write"}
    /\ r.step = "insert" => r.op = "register"
    /\ r.step = "insert" \/ r.op \in {"reset", "provision"} \union AdminOps =>
           r.password \in Passwords
    /\ r.step \in {"issue", "mail"} \/ r.op \in UseOps \union {"adopt", "promote"} =>
           user[r.email] # None

SessionsFit == \A s \in Sessions : sess[s] # Idle => SessionFits(sess[s])

\* A stored code is one of those generated.
CodesIssued == \A e \in Emails :
    user[e] # None /\ user[e].otp # None => user[e].otp.code <= codes

\* The search for a slug has passed taken ones only.
Passed(slug) == 0 .. (slug - 1) \subseteq tenants

SlugFits(r) == r.op \in SlugOps =>
    /\ r.step = "probe" \/ r.slug \notin GivenSlugs => Passed(r.slug)
    /\ r.slug \in 0 .. MaxSlug \union GivenSlugs
    /\ r.step = "probe" => r.slug <= MaxSlug

SlugsProbed == \A s \in Sessions : sess[s] # Idle => SlugFits(sess[s])

\* A delivery belongs to a session that waits for it.
DeliveryFits(s) ==
    LET d == delivery[s] IN
    /\ d.phase # "none" => At(s, "mail")
    /\ d.phase = "trying" => Routed \subseteq d.left \union d.tried \union depleted
    /\ d.phase = "failed" => Routed \subseteq d.tried \union depleted
    /\ d.phase = "sent" => <<sess[s].email, sess[s].code>> \in inbox

DeliveriesFit == \A s \in Sessions : DeliveryFits(s)

IInv ==
    /\ TypeOK
    /\ SessionsFit
    /\ CodesIssued
    /\ SlugsProbed
    /\ SlugsWithoutGaps
    /\ DeliveriesFit

-----------------------------------------------------------------------------
(* The rows that the operations write.                                     *)

LEMMA NewUserFacts ==
    ASSUME NEW password \in Passwords, NEW verified \in BOOLEAN,
           NEW role \in {"tenant_staff", "tenant_admin", "super_admin"},
           NEW slug \in Nat \union {None}
    PROVE  LET row == NewUser(password, verified, role, slug) IN
           row \in UserRow /\ row.tenant = slug /\ row.otp = None
BY DEF NewUser, UserRow

\* The first user of a tenant.
LEMMA FirstUserFacts ==
    ASSUME NEW password \in Passwords, NEW slug \in Nat
    PROVE  LET row == NewUser(password, TRUE, "tenant_admin", slug) IN
           row \in UserRow /\ row.tenant = slug /\ row.otp = None
<1>1. TRUE \in BOOLEAN /\ slug \in Nat \union {None}
  OBVIOUS
<1>2. "tenant_admin" \in {"tenant_staff", "tenant_admin", "super_admin"}
  OBVIOUS
<1> QED
  BY <1>1, <1>2, NewUserFacts

\* The columns of a user after his code has been spent.
Used(row, op, password) ==
    [Cleared(row) EXCEPT
        !.verified = @ \/ op = "verify",
        !.password = IF op = "reset" THEN password ELSE @]

LEMMA UsedRow ==
    ASSUME NEW row \in UserRow, NEW op, NEW password,
           op = "reset" => password \in Passwords
    PROVE  /\ Used(row, op, password) \in UserRow
           /\ Used(row, op, password).tenant = row.tenant
           /\ Used(row, op, password).otp = None
<1> DEFINE verified == row.verified \/ op = "verify"
           hash     == IF op = "reset" THEN password ELSE row.password
<1>1. verified \in BOOLEAN /\ hash \in Passwords
  BY DEF UserRow
<1>2. Used(row, op, password) = [Cleared(row) EXCEPT !.verified = verified, !.password = hash]
  <2>1. Cleared(row).verified = row.verified /\ Cleared(row).password = row.password
    BY DEF Cleared, UserRow
  <2> QED
    BY <2>1, Zenon DEF Used
<1> HIDE DEF verified, hash
<1> QED
  BY <1>1, <1>2 DEF Cleared, UserRow

-----------------------------------------------------------------------------
(* Steps of one session that mails nothing.                                *)

LEMMA SessionFields ==
    ASSUME TypeOK, NEW s \in Sessions, sess[s] # Idle
    PROVE  /\ sess[s] \in Session
           /\ sess[s].op \in MailOps \union UseOps \union SlugOps \union AdminOps
           /\ sess[s].email \in Emails /\ sess[s].code \in Nat /\ sess[s].slug \in Nat
           /\ user[sess[s].email] \in UserRow \union {None}
BY DEF TypeOK, Session

LEMMA NotMailing ==
    ASSUME DeliveriesFit, NEW s \in Sessions, ~ At(s, "mail")
    PROVE  delivery[s].phase = "none"
BY DEF DeliveriesFit, DeliveryFits

LEMMA StepInv ==
    ASSUME IInv, NEW s \in Sessions, NEW w \in {Idle} \union Session,
           sess' = [sess EXCEPT ![s] = w], ~ At(s, "mail"),
           user' \in [Emails -> UserRow \union {None}],
           \A e \in Emails : user[e] # None => user'[e] # None,
           tenants \subseteq tenants', tenants' \subseteq Nat,
           codes' \in Nat, UNCHANGED <<inbox, clock, depleted, delivery>>,
           w # Idle => SessionFits(w)' /\ SlugFits(w)',
           CodesIssued', SlugsWithoutGaps'
    PROVE  IInv'
<1>1. sess'[s] = w /\ \A q \in Sessions \ {s} : sess'[q] = sess[q]
  BY DEF IInv, TypeOK
<1>2. TypeOK'
  BY DEF IInv, TypeOK, RouterTypeOK
<1>3. SessionsFit'
  <2> SUFFICES ASSUME NEW q \in Sessions, q # s, sess[q] # Idle
               PROVE  SessionFits(sess[q])'
    BY <1>1 DEF SessionsFit
  <2>1. SessionFits(sess[q]) /\ sess[q].email \in Emails
    BY SessionFields DEF IInv, SessionsFit
  <2> QED
    BY <1>1, <2>1 DEF SessionFits
<1>4. SlugsProbed'
  <2> SUFFICES ASSUME NEW q \in Sessions, q # s, sess[q] # Idle
               PROVE  SlugFits(sess[q])'
    BY <1>1 DEF SlugsProbed
  <2>1. SlugFits(sess[q])
    BY DEF IInv, SlugsProbed
  <2> QED
    BY <1>1, <2>1 DEF SlugFits, Passed
<1>5. DeliveriesFit'
  <2>1. delivery[s].phase = "none"
    BY NotMailing DEF IInv
  <2> SUFFICES ASSUME NEW q \in Sessions
               PROVE  DeliveryFits(q)'
    BY DEF DeliveriesFit
  <2>2. DeliveryFits(q)
    BY DEF IInv, DeliveriesFit
  <2>3. CASE q = s
    BY <2>1, <2>3 DEF DeliveryFits
  <2>4. CASE q # s
    BY <1>1, <2>2, <2>4 DEF DeliveryFits, At
  <2> QED
    BY <2>3, <2>4
<1> QED
  BY <1>2, <1>3, <1>4, <1>5 DEF IInv

\* The tables stay: so do codes and slugs.
LEMMA TablesKept ==
    ASSUME IInv, UNCHANGED <<user, tenants, codes>>
    PROVE  /\ CodesIssued' /\ SlugsWithoutGaps'
           /\ user' \in [Emails -> UserRow \union {None}]
           /\ \A e \in Emails : user[e] # None => user'[e] # None
           /\ tenants \subseteq tenants' /\ tenants' \subseteq Nat /\ codes' \in Nat
BY DEF IInv, TypeOK, CodesIssued, SlugsWithoutGaps

LEMMA OpenInv ==
    ASSUME IInv, NEW s \in Sessions, NEW op, NEW step, NEW email, NEW password, NEW code, NEW slug,
           Open(s, op, step, email, password, code, slug),
           LET w == [op |-> op, step |-> step, email |-> email,
                     password |-> password, code |-> code, slug |-> slug] IN
           w \in Session /\ SessionFits(w) /\ SlugFits(w)
    PROVE  IInv'
<1> DEFINE w == [op |-> op, step |-> step, email |-> email,
                 password |-> password, code |-> code, slug |-> slug]
<1>1. /\ sess' = [sess EXCEPT ![s] = w] /\ ~ At(s, "mail")
      /\ UNCHANGED <<user, tenants, inbox, codes, clock, depleted, delivery>>
  BY DEF Open, At, router
<1>2. w \in Session /\ SessionFits(w) /\ SlugFits(w)
  OBVIOUS
<1> HIDE DEF w
<1>3. PICK v : v = w
  OBVIOUS
<1>4. SessionFits(v)' /\ SlugFits(v)'
  BY <1>1, <1>2, <1>3 DEF SessionFits, SlugFits, Passed
<1> QED
  BY <1>1, <1>2, <1>3, <1>4, TablesKept, StepInv

\* A session that commits nothing ends.
LEMMA CloseInv ==
    ASSUME IInv, NEW s \in Sessions, Close(s), ~ At(s, "mail"),
           UNCHANGED <<user, tenants, inbox, codes, clock, router>>
    PROVE  IInv'
<1>1. sess' = [sess EXCEPT ![s] = Idle]
      /\ UNCHANGED <<user, tenants, inbox, codes, clock, depleted, delivery>>
  BY DEF Close, router
<1> QED
  BY <1>1, TablesKept, StepInv

-----------------------------------------------------------------------------
(* Commits of users and tenants.                                           *)

LEMMA InitInv == Init => IInv
<1> SUFFICES ASSUME Init PROVE IInv
  OBVIOUS
<1>1. TypeOK
  BY DEF Init, TypeOK, RouterInit, RouterTypeOK, NoDelivery, Delivery
<1>2. SessionsFit /\ CodesIssued /\ SlugsProbed /\ SlugsWithoutGaps
  BY DEF Init, SessionsFit, CodesIssued, SlugsProbed, SlugsWithoutGaps
<1>3. DeliveriesFit
  BY DEF Init, RouterInit, NoDelivery, DeliveriesFit, DeliveryFits
<1> QED
  BY <1>1, <1>2, <1>3 DEF IInv

\* A step that writes one user and no tenant keeps the codes and the slugs.
LEMMA UserWritten ==
    ASSUME IInv, NEW e \in Emails, NEW w \in UserRow, user' = [user EXCEPT ![e] = w],
           UNCHANGED tenants, codes' \in Nat, codes <= codes',
           w.otp # None => w.otp.code <= codes'
    PROVE  /\ CodesIssued' /\ SlugsWithoutGaps'
           /\ user' \in [Emails -> UserRow \union {None}]
           /\ \A f \in Emails : user[f] # None => user'[f] # None
           /\ user'[e] = w /\ w # None
           /\ tenants \subseteq tenants' /\ tenants' \subseteq Nat
<1>1. w # None /\ \A row \in UserRow : row # None
  BY NullAccountAssumption
<1>2. user'[e] = w /\ \A f \in Emails \ {e} : user'[f] = user[f]
  BY DEF IInv, TypeOK
<1>3. user' \in [Emails -> UserRow \union {None}]
  BY DEF IInv, TypeOK
<1>4. CodesIssued'
  <2> SUFFICES ASSUME NEW f \in Emails, user'[f] # None, user'[f].otp # None
               PROVE  user'[f].otp.code <= codes'
    BY DEF CodesIssued
  <2>1. CASE f = e
    BY <1>2, <2>1
  <2>2. CASE f # e
    <3>1. user[f] \in UserRow /\ user[f].otp \in Otp /\ user[f].otp.code <= codes
      BY <1>2, <2>2 DEF IInv, TypeOK, CodesIssued, UserRow
    <3> QED
      BY <1>2, <2>2, <3>1 DEF Otp, IInv, TypeOK
  <2> QED
    BY <2>1, <2>2
<1>5. SlugsWithoutGaps'
  BY DEF IInv, SlugsWithoutGaps
<1> QED
  BY <1>1, <1>2, <1>3, <1>4, <1>5 DEF IInv, TypeOK

LEMMA InsertInv ==
    ASSUME IInv, NEW s \in Sessions, InsertRegistered(s)
    PROVE  IInv'
<1> DEFINE r == sess[s]
           w == NewUser(r.password, FALSE, "tenant_staff", None)
           v == [r EXCEPT !.step = "issue"]
<1>1. /\ r # Idle /\ r.step = "insert" /\ ~ At(s, "mail")
      /\ UNCHANGED <<tenants, inbox, codes, clock, depleted, delivery>>
      /\ IF user[r.email] = None
         THEN user' = [user EXCEPT ![r.email] = w] /\ sess' = [sess EXCEPT ![s] = v]
         ELSE Close(s) /\ UNCHANGED user
  BY DEF InsertRegistered, At, router
<1>2. r \in Session /\ r.email \in Emails /\ r.op = "register" /\ r.password \in Passwords
  BY <1>1, SessionFields DEF IInv, SessionsFit, SessionFits
<1>3. CASE user[r.email] # None
  BY <1>1, <1>3, CloseInv DEF router
<1>4. CASE user[r.email] = None
  <2> HIDE DEF r
  <2>1. w \in UserRow /\ w.otp = None
    BY <1>2, NewUserFacts
  <2> HIDE DEF w
  <2>2. v \in Session /\ v.op = "register" /\ v.step = "issue" /\ v.email = r.email
    BY <1>2 DEF Session
  <2> HIDE DEF v
  <2>3. /\ CodesIssued' /\ SlugsWithoutGaps'
        /\ user' \in [Emails -> UserRow \union {None}]
        /\ \A f \in Emails : user[f] # None => user'[f] # None
        /\ user'[r.email] # None
        /\ tenants \subseteq tenants' /\ tenants' \subseteq Nat /\ codes' \in Nat
    BY <1>1, <1>2, <1>4, <2>1, UserWritten DEF IInv, TypeOK
  <2>4. PICK x : x = v
    OBVIOUS
  <2>5. SessionFits(x)' /\ SlugFits(x)'
    BY <2>2, <2>3, <2>4 DEF SessionFits, SlugFits, MailOps, UseOps, SlugOps, AdminOps
  <2> QED
    BY <1>1, <1>4, <2>2, <2>3, <2>4, <2>5, StepInv
<1> QED
  BY <1>3, <1>4

\* What create_otp writes.
LEMMA IssueFacts ==
    ASSUME IInv, NEW s \in Sessions, IssueCode(s)
    PROVE  LET r   == sess[s]
               otp == [code |-> codes + 1, until |-> clock + OtpMinutes]
               w   == [user[r.email] EXCEPT !.otp = otp] IN
           /\ r \in Session /\ r # Idle /\ r.step = "issue" /\ r.op \in MailOps
           /\ r.email \in Emails /\ user[r.email] \in UserRow /\ user[r.email] # None
           /\ otp \in Otp /\ w \in UserRow /\ w.otp = otp /\ w.tenant = user[r.email].tenant
           /\ codes \in Nat /\ codes' = codes + 1 /\ codes' \in 1 .. MaxCode
           /\ user' = [user EXCEPT ![r.email] = w]
<1> DEFINE r   == sess[s]
           otp == [code |-> codes + 1, until |-> clock + OtpMinutes]
           w   == [user[r.email] EXCEPT !.otp = otp]
<1>1. r # Idle /\ r.step = "issue" /\ codes < MaxCode /\ codes' = codes + 1
      /\ user' = [user EXCEPT ![r.email] = w]
  BY DEF IssueCode, At
<1>2. r \in Session /\ r.email \in Emails /\ user[r.email] \in UserRow \union {None}
  BY <1>1, SessionFields DEF IInv
<1>3. user[r.email] # None /\ r.op \in MailOps
  BY <1>1, SessionFields DEF IInv, SessionsFit, SessionFits
<1>4. codes \in Nat /\ clock \in Nat /\ OtpMinutes \in Nat /\ MaxCode \in Nat
  BY AccountsAssumption DEF IInv, TypeOK
<1>5. otp \in Otp
  BY <1>4 DEF Otp
<1> HIDE DEF r, otp
<1>6. w \in UserRow /\ w.otp = otp /\ w.tenant = user[r.email].tenant
  BY <1>2, <1>3, <1>5 DEF UserRow
<1> HIDE DEF w
<1> QED
  BY <1>1, <1>2, <1>3, <1>4, <1>5, <1>6 DEF r, otp, w

LEMMA IssueInv ==
    ASSUME IInv, NEW s \in Sessions, IssueCode(s)
    PROVE  IInv'
<1> DEFINE r   == sess[s]
           otp == [code |-> codes + 1, until |-> clock + OtpMinutes]
           w   == [user[r.email] EXCEPT !.otp = otp]
           v   == [r EXCEPT !.step = "mail", !.code = codes + 1]
<1>1. /\ sess' = [sess EXCEPT ![s] = v] /\ ~ At(s, "mail")
      /\ UNCHANGED <<tenants, inbox, clock, depleted, delivery>>
  BY IssueFacts DEF IssueCode, At, router
<1>2. /\ r \in Session /\ r # Idle /\ r.op \in MailOps /\ r.email \in Emails
      /\ w \in UserRow /\ w.otp = otp /\ otp.code = codes + 1
      /\ codes \in Nat /\ codes' = codes + 1
      /\ user' = [user EXCEPT ![r.email] = w]
  BY IssueFacts
<1> HIDE DEF r, otp, w
<1>3. v \in Session /\ v.op = r.op /\ v.step = "mail" /\ v.email = r.email
  <2>1. PICK c \in Nat : c = codes + 1
    BY <1>2
  <2>2. v = [r EXCEPT !.step = "mail", !.code = c]
    BY <2>1
  <2> HIDE DEF v
  <2> QED
    BY <1>2, <2>2 DEF Session
<1> HIDE DEF v
<1>4. /\ CodesIssued' /\ SlugsWithoutGaps'
      /\ user' \in [Emails -> UserRow \union {None}]
      /\ \A f \in Emails : user[f] # None => user'[f] # None
      /\ user'[r.email] # None
      /\ tenants \subseteq tenants' /\ tenants' \subseteq Nat /\ codes' \in Nat
  <2>1. codes' \in Nat /\ codes <= codes' /\ w.otp.code <= codes'
    BY <1>2
  <2> QED
    BY <1>1, <1>2, <2>1, UserWritten
<1>5. PICK x : x = v
  OBVIOUS
<1>6. SessionFits(x)' /\ SlugFits(x)'
  BY <1>2, <1>3, <1>4, <1>5 DEF SessionFits, SlugFits, MailOps, UseOps, SlugOps, AdminOps
<1> QED
  BY <1>1, <1>3, <1>4, <1>5, <1>6, StepInv

\* What clear_otp writes.
LEMMA UseFacts ==
    ASSUME IInv, NEW s \in Sessions, FinishUse(s)
    PROVE  LET r == sess[s]
               w == Used(user[r.email], r.op, r.password) IN
           /\ r # Idle /\ r.step = "write" /\ r.op \in UseOps
           /\ r.op = "reset" => r.password \in Passwords
           /\ r.email \in Emails /\ user[r.email] \in UserRow /\ user[r.email] # None
           /\ user' = [user EXCEPT ![r.email] = w]
<1> DEFINE r == sess[s]
<1>1. r # Idle /\ r.step = "write" /\ r.op \in UseOps
  BY DEF FinishUse, At
<1>2. r \in Session /\ r.email \in Emails /\ user[r.email] \in UserRow \union {None}
  BY <1>1, SessionFields DEF IInv
<1>3. user[r.email] # None /\ (r.op = "reset" => r.password \in Passwords)
  BY <1>1 DEF IInv, SessionsFit, SessionFits
<1>4. user' = [user EXCEPT ![r.email] = Used(user[r.email], r.op, r.password)]
  BY Zenon DEF FinishUse, Used
<1> HIDE DEF r
<1> QED
  BY <1>1, <1>2, <1>3, <1>4 DEF r

LEMMA UseInv ==
    ASSUME IInv, NEW s \in Sessions, FinishUse(s)
    PROVE  IInv'
<1> DEFINE r == sess[s]
           w == Used(user[r.email], r.op, r.password)
<1>1. /\ sess' = [sess EXCEPT ![s] = Idle] /\ ~ At(s, "mail")
      /\ UNCHANGED <<tenants, inbox, codes, clock, depleted, delivery>>
  BY UseFacts DEF FinishUse, Close, At, router
<1>2. /\ r.email \in Emails /\ user[r.email] \in UserRow
      /\ user' = [user EXCEPT ![r.email] = w]
      /\ r.op = "reset" => r.password \in Passwords
  BY UseFacts
<1> HIDE DEF r
<1>3. w \in UserRow /\ w.otp = None
  <2>1. PICK row \in UserRow : row = user[r.email]
    BY <1>2
  <2>2. Used(row, r.op, r.password) \in UserRow /\ Used(row, r.op, r.password).otp = None
    BY <1>2, UsedRow
  <2> QED
    BY <2>1, <2>2
<1> HIDE DEF w
<1>4. codes' \in Nat /\ codes <= codes'
  BY <1>1 DEF IInv, TypeOK
<1>5. /\ CodesIssued' /\ SlugsWithoutGaps'
      /\ user' \in [Emails -> UserRow \union {None}]
      /\ \A f \in Emails : user[f] # None => user'[f] # None
      /\ tenants \subseteq tenants' /\ tenants' \subseteq Nat
  BY <1>1, <1>2, <1>3, <1>4, UserWritten
<1> QED
  BY <1>1, <1>4, <1>5, StepInv

\* A probe that meets a taken slug has passed one more.
LEMMA ProbeInv ==
    ASSUME IInv, NEW s \in Sessions, ProbeSlug(s)
    PROVE  IInv'
<1> DEFINE r    == sess[s]
           next == [r EXCEPT !.slug = r.slug + 1]
           stop == [r EXCEPT !.step = "write"]
<1>1. /\ r # Idle /\ r.step = "probe" /\ ~ At(s, "mail")
      /\ UNCHANGED <<user, tenants, inbox, codes, clock, depleted, delivery>>
      /\ \/ r.slug \in tenants /\ r.slug < MaxSlug /\ sess' = [sess EXCEPT ![s] = next]
         \/ r.slug \notin tenants /\ sess' = [sess EXCEPT ![s] = stop]
  BY DEF ProbeSlug, At, router, NextProbe
<1>2. /\ r \in Session /\ r.email \in Emails /\ r.slug \in Nat
      /\ SessionFits(r) /\ SlugFits(r)
  BY <1>1, SessionFields DEF IInv, SessionsFit, SlugsProbed
<1> HIDE DEF r
<1>3. r.op \in SlugOps /\ Passed(r.slug) /\ r.slug <= MaxSlug /\ MaxSlug \in Nat
  BY <1>1, <1>2, AccountsAssumption
     DEF Session, SessionFits, SlugFits, MailOps, UseOps, SlugOps, AdminOps
<1>4. CASE r.slug \in tenants /\ r.slug < MaxSlug /\ sess' = [sess EXCEPT ![s] = next]
  <2>1. PICK n \in Nat : n = r.slug + 1
    BY <1>2
  <2>2. next \in Session /\ next.op = r.op /\ next.step = "probe" /\ next.slug = n
        /\ next.email = r.email /\ next.password = r.password
    BY <1>1, <1>2, <2>1 DEF Session
  <2> HIDE DEF next
  <2>3. n - 1 = r.slug /\ n \in 0 .. MaxSlug
    BY <1>2, <1>3, <1>4, <2>1
  <2>4. Passed(n)
    <3>1. \A i \in 0 .. r.slug : i = r.slug \/ i \in 0 .. (r.slug - 1)
      BY <1>2
    <3> QED
      BY <1>3, <1>4, <2>3, <3>1 DEF Passed
  <2>5. PICK x : x = next
    OBVIOUS
  <2>6. SessionFits(x)' /\ SlugFits(x)'
    BY <1>1, <1>2, <1>3, <2>2, <2>3, <2>4, <2>5
       DEF SessionFits, SlugFits, Passed, MailOps, UseOps, SlugOps, AdminOps
  <2> QED
    BY <1>1, <1>4, <2>2, <2>5, <2>6, TablesKept, StepInv
<1>5. CASE r.slug \notin tenants /\ sess' = [sess EXCEPT ![s] = stop]
  <2>1. stop \in Session /\ stop.op = r.op /\ stop.step = "write" /\ stop.slug = r.slug
        /\ stop.email = r.email /\ stop.password = r.password
    BY <1>1, <1>2 DEF Session
  <2> HIDE DEF stop
  <2>2. PICK x : x = stop
    OBVIOUS
  <2>3. SessionFits(x)' /\ SlugFits(x)'
    BY <1>1, <1>2, <1>3, <2>1, <2>2
       DEF SessionFits, SlugFits, Passed, MailOps, UseOps, SlugOps, AdminOps
  <2> QED
    BY <1>1, <1>5, <2>1, <2>2, <2>3, TablesKept, StepInv
<1> QED
  BY <1>1, <1>4, <1>5

\* A session that stores a tenant has probed all slugs before it, or was given one.
LEMMA TenantWritten ==
    ASSUME IInv, NEW slug \in Nat, tenants' = tenants \union {slug},
           slug \notin GivenSlugs => Passed(slug)
    PROVE  /\ SlugsWithoutGaps'
           /\ tenants \subseteq tenants' /\ tenants' \subseteq Nat
<1>1. tenants \subseteq tenants' /\ tenants' \subseteq Nat
  BY DEF IInv, TypeOK
<1>2. SlugsWithoutGaps'
  <2> SUFFICES ASSUME NEW x \in tenants' \ GivenSlugs
               PROVE  0 .. x \subseteq tenants'
    BY DEF SlugsWithoutGaps
  <2>1. CASE x \in tenants
    BY <1>1, <2>1 DEF IInv, SlugsWithoutGaps
  <2>2. CASE x = slug
    <3>1. \A i \in 0 .. slug : i = slug \/ i \in 0 .. (slug - 1)
      OBVIOUS
    <3> QED
      BY <2>2, <3>1 DEF Passed
  <2> QED
    BY <2>1, <2>2
<1> QED
  BY <1>1, <1>2

\* What the provisioning of a tenant writes, with its first user or for an old one.
LEMMA ProvisionFacts ==
    ASSUME IInv, NEW s \in Sessions, FinishProvision(s)
    PROVE  LET r == sess[s]
               w == NewUser(r.password, TRUE, "tenant_admin", r.slug) IN
           /\ r # Idle /\ ~ At(s, "mail") /\ r.email \in Emails /\ r.slug \in Nat
           /\ r.slug \notin GivenSlugs => Passed(r.slug)
           /\ r.slug \in 0 .. MaxSlug \union GivenSlugs
           /\ r.password \in Passwords /\ w \in UserRow /\ w.otp = None /\ w.tenant = r.slug
           /\ sess' = [sess EXCEPT ![s] = Idle]
           /\ UNCHANGED <<inbox, codes, clock, depleted, delivery>>
           /\ \/ UNCHANGED <<user, tenants>>
              \/ /\ r.slug \notin tenants /\ user[r.email] = None
                 /\ tenants' = tenants \union {r.slug}
                 /\ user' = [user EXCEPT ![r.email] = w]
<1> DEFINE r == sess[s]
           w == NewUser(r.password, TRUE, "tenant_admin", r.slug)
<1>1. /\ r # Idle /\ r.step = "write" /\ r.op = "provision" /\ ~ At(s, "mail")
      /\ sess' = [sess EXCEPT ![s] = Idle]
      /\ UNCHANGED <<inbox, codes, clock, depleted, delivery>>
      /\ \/ UNCHANGED <<user, tenants>>
         \/ /\ r.slug \notin tenants /\ user[r.email] = None
            /\ tenants' = tenants \union {r.slug}
            /\ user' = [user EXCEPT ![r.email] = w]
  BY DEF FinishProvision, At, Close, router, db
<1>2. r \in Session /\ r.email \in Emails /\ r.slug \in Nat /\ SessionFits(r) /\ SlugFits(r)
  BY <1>1, SessionFields DEF IInv, SessionsFit, SlugsProbed
<1> HIDE DEF r
<1>3. r.password \in Passwords
  BY <1>1, <1>2 DEF SessionFits
<1>4. w \in UserRow /\ w.otp = None /\ w.tenant = r.slug
  BY <1>2, <1>3, FirstUserFacts
<1>5. (r.slug \notin GivenSlugs => Passed(r.slug)) /\ r.slug \in 0 .. MaxSlug \union GivenSlugs
  BY <1>1, <1>2 DEF SlugFits, SlugOps
<1> QED
  BY <1>1, <1>2, <1>3, <1>4, <1>5 DEF r

LEMMA ProvisionInv ==
    ASSUME IInv, NEW s \in Sessions, FinishProvision(s)
    PROVE  IInv'
<1> DEFINE r == sess[s]
           w == NewUser(r.password, TRUE, "tenant_admin", r.slug)
<1>1. /\ ~ At(s, "mail") /\ sess' = [sess EXCEPT ![s] = Idle]
      /\ UNCHANGED <<inbox, codes, clock, depleted, delivery>>
  BY ProvisionFacts
<1>2. /\ r.email \in Emails /\ r.slug \in Nat
      /\ r.slug \notin GivenSlugs => Passed(r.slug)
      /\ w \in UserRow /\ w.otp = None
      /\ \/ UNCHANGED <<user, tenants>>
         \/ /\ user[r.email] = None
            /\ tenants' = tenants \union {r.slug}
            /\ user' = [user EXCEPT ![r.email] = w]
  BY ProvisionFacts
<1> HIDE DEF r, w
<1>3. CASE UNCHANGED <<user, tenants>>
  BY <1>1, <1>3, TablesKept, StepInv
<1>4. CASE /\ user[r.email] = None
           /\ tenants' = tenants \union {r.slug}
           /\ user' = [user EXCEPT ![r.email] = w]
  <2>1. SlugsWithoutGaps' /\ tenants \subseteq tenants' /\ tenants' \subseteq Nat
    BY <1>2, <1>4, TenantWritten
  <2>2. w # None /\ codes' \in Nat /\ user \in [Emails -> UserRow \union {None}]
    BY <1>1, <1>2, NullAccountAssumption DEF IInv, TypeOK
  <2>3. CodesIssued' /\ user' \in [Emails -> UserRow \union {None}]
        /\ \A e \in Emails : user[e] # None => user'[e] # None
    BY <1>1, <1>2, <1>4, <2>2 DEF IInv, CodesIssued
  <2> QED
    BY <1>1, <2>1, <2>2, <2>3, StepInv
<1> QED
  BY <1>2, <1>3, <1>4

LEMMA AdoptFacts ==
    ASSUME IInv, NEW s \in Sessions, FinishAdopt(s)
    PROVE  LET r == sess[s]
               w == [user[r.email] EXCEPT !.tenant = r.slug] IN
           /\ r # Idle /\ r.op = "adopt" /\ ~ At(s, "mail")
           /\ r.email \in Emails /\ user[r.email] \in UserRow /\ user[r.email] # None
           /\ r.slug \in Nat
           /\ r.slug \notin GivenSlugs => Passed(r.slug)
           /\ r.slug \in 0 .. MaxSlug \union GivenSlugs
           /\ w \in UserRow /\ w.otp = user[r.email].otp /\ w.tenant = r.slug
           /\ sess' = [sess EXCEPT ![s] = Idle]
           /\ UNCHANGED <<inbox, codes, clock, depleted, delivery>>
           /\ \/ UNCHANGED <<user, tenants>>
              \/ /\ r.slug \notin tenants
                 /\ tenants' = tenants \union {r.slug}
                 /\ user' = [user EXCEPT ![r.email] = w]
<1> DEFINE r == sess[s]
           w == [user[r.email] EXCEPT !.tenant = r.slug]
<1>1. /\ r # Idle /\ r.step = "write" /\ r.op = "adopt" /\ ~ At(s, "mail")
      /\ sess' = [sess EXCEPT ![s] = Idle]
      /\ UNCHANGED <<inbox, codes, clock, depleted, delivery>>
      /\ \/ UNCHANGED <<user, tenants>>
         \/ /\ r.slug \notin tenants
            /\ tenants' = tenants \union {r.slug}
            /\ user' = [user EXCEPT ![r.email] = w]
  BY DEF FinishAdopt, At, Close, router, db
<1>2. /\ r \in Session /\ r.email \in Emails /\ r.slug \in Nat /\ SessionFits(r) /\ SlugFits(r)
      /\ user[r.email] \in UserRow \union {None}
  BY <1>1, SessionFields DEF IInv, SessionsFit, SlugsProbed
<1> HIDE DEF r
<1>3. user[r.email] # None
  BY <1>1, <1>2 DEF SessionFits
<1>4. w \in UserRow /\ w.otp = user[r.email].otp /\ w.tenant = r.slug
  BY <1>2, <1>3 DEF UserRow
<1>5. (r.slug \notin GivenSlugs => Passed(r.slug)) /\ r.slug \in 0 .. MaxSlug \union GivenSlugs
  BY <1>1, <1>2 DEF SlugFits, SlugOps
<1> HIDE DEF w
<1> QED
  BY <1>1, <1>2, <1>3, <1>4, <1>5 DEF r, w

LEMMA AdoptInv ==
    ASSUME IInv, NEW s \in Sessions, FinishAdopt(s)
    PROVE  IInv'
<1> DEFINE r == sess[s]
           w == [user[r.email] EXCEPT !.tenant = r.slug]
<1>1. /\ ~ At(s, "mail") /\ sess' = [sess EXCEPT ![s] = Idle]
      /\ UNCHANGED <<inbox, codes, clock, depleted, delivery>>
  BY AdoptFacts
<1>2. /\ r.email \in Emails /\ r.slug \in Nat /\ user[r.email] # None
      /\ r.slug \notin GivenSlugs => Passed(r.slug)
      /\ w \in UserRow /\ w.otp = user[r.email].otp
      /\ \/ UNCHANGED <<user, tenants>>
         \/ /\ tenants' = tenants \union {r.slug}
            /\ user' = [user EXCEPT ![r.email] = w]
  BY AdoptFacts
<1> HIDE DEF r, w
<1>3. CASE UNCHANGED <<user, tenants>>
  BY <1>1, <1>3, TablesKept, StepInv
<1>4. CASE /\ tenants' = tenants \union {r.slug}
           /\ user' = [user EXCEPT ![r.email] = w]
  <2>1. SlugsWithoutGaps' /\ tenants \subseteq tenants' /\ tenants' \subseteq Nat
    BY <1>2, <1>4, TenantWritten
  <2>2. w # None /\ codes' \in Nat /\ user \in [Emails -> UserRow \union {None}]
    BY <1>1, <1>2, NullAccountAssumption DEF IInv, TypeOK
  <2>3. CodesIssued' /\ user' \in [Emails -> UserRow \union {None}]
        /\ \A e \in Emails : user[e] # None => user'[e] # None
    BY <1>1, <1>2, <1>4, <2>2 DEF IInv, CodesIssued
  <2> QED
    BY <1>1, <2>1, <2>2, <2>3, StepInv
<1> QED
  BY <1>2, <1>3, <1>4

\* A super admin is new, or an account that keeps its tenant and its code.
LEMMA SuperadminFacts ==
    ASSUME IInv, NEW s \in Sessions, FinishSuperadmin(s)
    PROVE  LET r == sess[s]
               new == NewUser(r.password, TRUE, "super_admin", None)
               old == [user[r.email] EXCEPT !.password = r.password, !.verified = TRUE,
                                            !.role = "super_admin"] IN
           /\ r # Idle /\ ~ At(s, "mail") /\ r.email \in Emails /\ r.password \in Passwords
           /\ sess' = [sess EXCEPT ![s] = Idle]
           /\ UNCHANGED <<tenants, inbox, codes, clock, depleted, delivery>>
           /\ \/ user' = user
              \/ /\ user[r.email] = None
                 /\ user' = [user EXCEPT ![r.email] = new]
                 /\ new \in UserRow /\ new.otp = None
              \/ /\ user[r.email] \in UserRow /\ user[r.email] # None
                 /\ user' = [user EXCEPT ![r.email] = old]
                 /\ old \in UserRow /\ old.otp = user[r.email].otp
                 /\ old.tenant = user[r.email].tenant
<1> DEFINE r == sess[s]
           new == NewUser(r.password, TRUE, "super_admin", None)
           old == [user[r.email] EXCEPT !.password = r.password, !.verified = TRUE,
                                        !.role = "super_admin"]
<1>1. /\ r # Idle /\ r.step = "write" /\ r.op \in AdminOps /\ ~ At(s, "mail")
      /\ sess' = [sess EXCEPT ![s] = Idle]
      /\ UNCHANGED <<tenants, inbox, codes, clock, depleted, delivery>>
  BY DEF FinishSuperadmin, At, Close, router
<1>2. /\ r \in Session /\ r.email \in Emails /\ SessionFits(r)
      /\ user[r.email] \in UserRow \union {None}
  BY <1>1, SessionFields DEF IInv, SessionsFit
<1>3. user' = [user EXCEPT ![r.email] =
                   CASE r.op = "promote" -> old
                     [] r.op = "seed" /\ user[r.email] = None -> new
                     [] OTHER -> user[r.email]]
  BY DEF FinishSuperadmin
<1> HIDE DEF r
<1>4. r.password \in Passwords /\ (r.op = "promote" => user[r.email] # None)
  BY <1>1, <1>2 DEF SessionFits
<1>5. new \in UserRow /\ new.otp = None
  BY <1>4, NewUserFacts
<1> HIDE DEF new
<1>6. CASE r.op = "promote"
  <2>1. old \in UserRow /\ old.otp = user[r.email].otp /\ old.tenant = user[r.email].tenant
    BY <1>2, <1>4, <1>6 DEF UserRow
  <2> HIDE DEF old
  <2>2. user' = [user EXCEPT ![r.email] = old]
    BY <1>3, <1>6
  <2> QED
    BY <1>1, <1>2, <1>4, <1>6, <2>1, <2>2 DEF r, old
<1>7. CASE r.op # "promote" /\ r.op = "seed" /\ user[r.email] = None
  <2> HIDE DEF old
  <2>1. user' = [user EXCEPT ![r.email] = new]
    BY <1>3, <1>7
  <2> QED
    BY <1>1, <1>2, <1>4, <1>5, <1>7, <2>1 DEF r, new
<1>8. CASE r.op # "promote" /\ ~ (r.op = "seed" /\ user[r.email] = None)
  <2> HIDE DEF old
  <2>1. user' = [user EXCEPT ![r.email] = user[r.email]]
    BY <1>3, <1>8
  <2>2. user' = user
    BY <2>1 DEF IInv, TypeOK
  <2> QED
    BY <1>1, <1>2, <1>4, <2>2 DEF r
<1> QED
  BY <1>6, <1>7, <1>8

LEMMA SuperadminInv ==
    ASSUME IInv, NEW s \in Sessions, FinishSuperadmin(s)
    PROVE  IInv'
<1> DEFINE r == sess[s]
           new == NewUser(r.password, TRUE, "super_admin", None)
           old == [user[r.email] EXCEPT !.password = r.password, !.verified = TRUE,
                                        !.role = "super_admin"]
<1>1. /\ ~ At(s, "mail") /\ r.email \in Emails
      /\ sess' = [sess EXCEPT ![s] = Idle]
      /\ UNCHANGED <<tenants, inbox, codes, clock, depleted, delivery>>
      /\ codes' \in Nat /\ codes <= codes'
  <2>1. /\ ~ At(s, "mail") /\ r.email \in Emails
        /\ sess' = [sess EXCEPT ![s] = Idle]
        /\ UNCHANGED <<tenants, inbox, codes, clock, depleted, delivery>>
    BY SuperadminFacts, Zenon
  <2>2. codes \in Nat
    BY DEF IInv, TypeOK
  <2> HIDE DEF r
  <2> QED
    BY <2>1, <2>2
<1>2. \/ user' = user
      \/ \E w \in UserRow :
            /\ user' = [user EXCEPT ![r.email] = w]
            /\ w.otp # None => w.otp.code <= codes
  <2>1. user[r.email] # None /\ user[r.email].otp # None => user[r.email].otp.code <= codes
    BY <1>1 DEF IInv, CodesIssued
  <2>2. \/ user' = user
        \/ user' = [user EXCEPT ![r.email] = new] /\ new \in UserRow /\ new.otp = None
        \/ /\ user[r.email] # None
           /\ user' = [user EXCEPT ![r.email] = old]
           /\ old \in UserRow /\ old.otp = user[r.email].otp
    BY SuperadminFacts
  <2> HIDE DEF r, new, old
  <2> QED
    BY <2>1, <2>2
<1> HIDE DEF r
<1>3. CASE user' = user
  BY <1>1, <1>3, TablesKept, StepInv
<1>4. ASSUME NEW w \in UserRow, user' = [user EXCEPT ![r.email] = w],
             w.otp # None => w.otp.code <= codes
      PROVE  IInv'
  BY <1>1, <1>4, UserWritten, StepInv
<1> QED
  BY <1>2, <1>3, <1>4

-----------------------------------------------------------------------------
(* The router and its deliveries.                                          *)

\* A step of the delivery of one session, or the end of the session with it.
LEMMA MailStepInv ==
    ASSUME IInv, NEW s \in Sessions, NEW d \in Delivery,
           delivery' = [delivery EXCEPT ![s] = d],
           sess' = sess \/ (Close(s) /\ d = NoDelivery),
           depleted \subseteq depleted', depleted' \subseteq Providers,
           inbox \subseteq inbox', inbox' \subseteq Emails \X Nat,
           UNCHANGED <<user, tenants, codes, clock>>,
           DeliveryFits(s)'
    PROVE  IInv'
<1>1. /\ delivery'[s] = d /\ \A q \in Sessions \ {s} : delivery'[q] = delivery[q]
      /\ \A q \in Sessions \ {s} : sess'[q] = sess[q]
      /\ sess'[s] = sess[s] \/ sess'[s] = Idle
  BY DEF IInv, TypeOK, RouterTypeOK, Close
<1>2. TypeOK'
  BY DEF IInv, TypeOK, RouterTypeOK, Close
<1>3. SessionsFit' /\ SlugsProbed'
  BY <1>1 DEF IInv, SessionsFit, SessionFits, SlugsProbed, SlugFits, Passed
<1>4. CodesIssued' /\ SlugsWithoutGaps'
  BY DEF IInv, CodesIssued, SlugsWithoutGaps
<1>5. DeliveriesFit'
  <2> SUFFICES ASSUME NEW q \in Sessions, q # s
               PROVE  DeliveryFits(q)'
    BY DEF DeliveriesFit
  <2>1. DeliveryFits(q)
    BY DEF IInv, DeliveriesFit
  <2> QED
    BY <1>1, <2>1 DEF DeliveryFits, At
<1> QED
  BY <1>2, <1>3, <1>4, <1>5 DEF IInv

LEMMA RoutedProviders == Routed \subseteq Providers
BY DEF Routed

LEMMA StartMailInv ==
    ASSUME IInv, NEW s \in Sessions, StartMail(s)
    PROVE  IInv'
<1> DEFINE d == Continued(Routed \ depleted, {})
<1>1. /\ At(s, "mail") /\ delivery' = [delivery EXCEPT ![s] = d]
      /\ UNCHANGED <<user, tenants, inbox, codes, sess, clock, depleted>>
  BY DEF StartMail, Route
<1>2. /\ d \in Delivery /\ d.phase \in {"trying", "failed"} /\ d.left = Routed \ depleted
      /\ d.tried = {} /\ (d.phase = "failed" => d.left = {})
  BY RoutedProviders DEF Continued, Delivery
<1> HIDE DEF d
<1>3. delivery'[s] = d
  BY <1>1 DEF IInv, TypeOK, RouterTypeOK
<1>4. DeliveryFits(s)'
  BY <1>1, <1>2, <1>3 DEF DeliveryFits, At
<1>5. depleted' \subseteq Providers /\ inbox' \subseteq Emails \X Nat
  BY <1>1 DEF IInv, TypeOK, RouterTypeOK
<1> QED
  BY <1>1, <1>2, <1>4, <1>5, MailStepInv

\* A provider that accepts has the mail on its way.
LEMMA AcceptedArrives ==
    ASSUME NEW p \in Providers, NEW answer \in Answers, NEW arrives \in Arrivals(answer),
           Outcome(p, answer) = "accepted"
    PROVE  arrives
<1>1. answer.status = Success(p)
  <2>1. CASE answer.status # Success(p) /\ QuotaUsedUp(p, answer)
    <3>1. Outcome(p, answer) = "quota"
      BY <2>1 DEF Outcome
    <3> QED
      BY <3>1
  <2>2. CASE answer.status # Success(p) /\ ~ QuotaUsedUp(p, answer)
    <3>1. Outcome(p, answer) = "failed"
      BY <2>2 DEF Outcome
    <3> QED
      BY <3>1
  <2> QED
    BY <2>1, <2>2
<1>2. answer.status \in 200 .. 299
  BY <1>1 DEF Success
<1> QED
  BY <1>2 DEF Arrivals

LEMMA CallInv ==
    ASSUME IInv, NEW s \in Sessions, NEW p \in Providers, NEW answer \in Answers,
           CallProvider(s, p, answer)
    PROVE  IInv'
<1> DEFINE outcome == Outcome(p, answer)
           old     == delivery[s]
           more    == Continued(old.left \ {p}, old.tried \union {p})
           d       == IF outcome = "accepted" THEN [NoDelivery EXCEPT !.phase = "sent"] ELSE more
           pair    == <<sess[s].email, sess[s].code>>
<1>1. /\ At(s, "mail") /\ old.phase = "trying" /\ p \in old.left
      /\ delivery' = [delivery EXCEPT ![s] = d]
      /\ depleted' = IF outcome = "quota" THEN depleted \union {p} ELSE depleted
      /\ \E arrives \in Arrivals(answer) : inbox' = IF arrives THEN inbox \union {pair} ELSE inbox
      /\ UNCHANGED <<user, tenants, codes, sess, clock>>
  BY DEF CallProvider, Attempt, Remaining
<1>2. old \in Delivery /\ DeliveryFits(s)
  BY DEF IInv, TypeOK, RouterTypeOK, DeliveriesFit
<1>3. pair \in Emails \X Nat
  BY <1>1, SessionFields DEF IInv, At
<1>4. more \in Delivery /\ more.phase \in {"trying", "failed"} /\ more.left = old.left \ {p}
      /\ more.tried = old.tried \union {p} /\ (more.phase = "failed" => more.left = {})
  BY <1>2 DEF Continued, Delivery
<1>5. outcome = "accepted" => pair \in inbox'
  BY <1>1, AcceptedArrives
<1>6. inbox \subseteq inbox' /\ inbox' \subseteq Emails \X Nat
  BY <1>1, <1>3 DEF IInv, TypeOK
<1>7. depleted \subseteq depleted' /\ depleted' \subseteq Providers
  BY <1>1 DEF IInv, TypeOK, RouterTypeOK
<1>8. Routed \subseteq old.left \union old.tried \union depleted
  BY <1>1, <1>2 DEF DeliveryFits
<1> HIDE DEF outcome, more
<1>9. d \in Delivery /\ (outcome = "accepted" => d.phase = "sent") /\ (outcome # "accepted" => d = more)
  BY <1>4 DEF NoDelivery, Delivery
<1> HIDE DEF old, d
<1>10. delivery'[s] = d
  BY <1>1 DEF IInv, TypeOK, RouterTypeOK
<1>11. DeliveryFits(s)'
  <2>1. At(s, "mail")'
    BY <1>1 DEF At
  <2>2. CASE outcome = "accepted"
    BY <1>1, <1>5, <1>9, <1>10, <2>1, <2>2 DEF DeliveryFits
  <2>3. CASE outcome # "accepted"
    BY <1>4, <1>7, <1>8, <1>9, <1>10, <2>1, <2>3 DEF DeliveryFits
  <2> QED
    BY <2>2, <2>3
<1> QED
  BY <1>1, <1>6, <1>7, <1>9, <1>11, MailStepInv

\* A session that mails, or is aborted, takes its delivery with it.
LEMMA ForgetInv ==
    ASSUME IInv, NEW s \in Sessions, Close(s), Forgotten(s),
           UNCHANGED <<user, tenants, inbox, codes, clock>>
    PROVE  IInv'
<1>1. NoDelivery \in Delivery /\ NoDelivery.phase = "none"
  BY DEF NoDelivery, Delivery
<1>2. /\ delivery' = [delivery EXCEPT ![s] = NoDelivery] /\ UNCHANGED depleted
      /\ delivery'[s] = NoDelivery
  BY DEF Forgotten, IInv, TypeOK, RouterTypeOK
<1>3. DeliveryFits(s)'
  BY <1>1, <1>2 DEF DeliveryFits
<1>4. depleted' \subseteq Providers /\ inbox' \subseteq Emails \X Nat
  BY <1>2 DEF IInv, TypeOK, RouterTypeOK
<1> QED
  BY <1>1, <1>2, <1>3, <1>4, MailStepInv

LEMMA RestartInv ==
    ASSUME IInv, Restart
    PROVE  IInv'
<1>1. /\ sess' = [s \in Sessions |-> Idle] /\ delivery' = [s \in Sessions |-> NoDelivery]
      /\ depleted' = {} /\ UNCHANGED <<user, tenants, inbox, codes, clock>>
  BY DEF Restart, RouterRestart
<1>2. NoDelivery \in Delivery /\ NoDelivery.phase = "none"
  BY DEF NoDelivery, Delivery
<1>3. TypeOK'
  BY <1>1, <1>2 DEF IInv, TypeOK, RouterTypeOK
<1>4. SessionsFit' /\ SlugsProbed'
  BY <1>1 DEF SessionsFit, SlugsProbed
<1>5. CodesIssued' /\ SlugsWithoutGaps'
  BY <1>1 DEF IInv, CodesIssued, SlugsWithoutGaps
<1>6. DeliveriesFit'
  BY <1>1, <1>2 DEF DeliveriesFit, DeliveryFits
<1> QED
  BY <1>3, <1>4, <1>5, <1>6 DEF IInv

\* The clock, and steps that change nothing.
LEMMA TickInv ==
    ASSUME IInv, UNCHANGED <<user, tenants, inbox, codes, sess, depleted, delivery>>, clock' \in Nat
    PROVE  IInv'
<1>1. TypeOK'
  BY DEF IInv, TypeOK, RouterTypeOK
<1>2. SessionsFit' /\ SlugsProbed'
  BY DEF IInv, SessionsFit, SessionFits, SlugsProbed, SlugFits, Passed
<1>3. CodesIssued' /\ SlugsWithoutGaps'
  BY DEF IInv, CodesIssued, SlugsWithoutGaps
<1>4. DeliveriesFit'
  BY DEF IInv, DeliveriesFit, DeliveryFits, At
<1> QED
  BY <1>1, <1>2, <1>3, <1>4 DEF IInv

-----------------------------------------------------------------------------
(* Requests.                                                               *)

LEMMA RequestInv ==
    ASSUME IInv, NEW s \in Sessions, NEW e \in Emails,
           \/ \E password \in Passwords : Register(s, e, password)
           \/ \E op \in {"resend", "forgot"} : RequestCode(s, op, e)
           \/ \E op \in UseOps, password \in Passwords \union {None}, code \in 1 .. codes :
                  UseCode(s, op, e, password, code)
           \/ \E password \in Passwords, slug \in GivenSlugs \union {None} :
                  Provision(s, e, password, slug)
           \/ Adopt(s, e)
           \/ \E password \in Passwords : EnsureSuperadmin(s, e, password)
    PROVE  IInv'
<1> USE DEF SessionFits, SlugFits, Session, MailOps, UseOps, SlugOps, AdminOps
<1>1. ASSUME NEW password \in Passwords, Register(s, e, password)
      PROVE  IInv'
  BY <1>1, OpenInv DEF Register
<1>2. ASSUME NEW op \in {"resend", "forgot"}, RequestCode(s, op, e)
      PROVE  IInv'
  BY <1>2, OpenInv DEF RequestCode
<1>3. ASSUME NEW op \in UseOps, NEW password \in Passwords \union {None}, NEW code \in 1 .. codes,
             UseCode(s, op, e, password, code)
      PROVE  IInv'
  <2>1. code \in Nat /\ op # "provision" /\ op \notin AdminOps /\ op # "adopt" /\ op # "promote"
    BY DEF IInv, TypeOK
  <2>2. op = "reset" => password \in Passwords
    BY <1>3 DEF UseCode
  <2> QED
    BY <1>3, <2>1, <2>2, OpenInv DEF UseCode
<1>4. ASSUME NEW password \in Passwords, NEW slug \in GivenSlugs \union {None},
             Provision(s, e, password, slug)
      PROVE  IInv'
  <2>1. MaxSlug \in Nat /\ GivenSlugs \subseteq Nat /\ None \notin GivenSlugs
    BY AccountsAssumption
  <2>2. Passed(0)
    BY DEF Passed
  <2>3. CASE slug = None
    <3>1. Open(s, "provision", "probe", e, password, 0, 0)
      BY <1>4, <2>3 DEF Provision
    <3>2. 0 \in 0 .. MaxSlug /\ 0 <= MaxSlug
      BY <2>1
    <3> QED
      BY <2>2, <3>1, <3>2, OpenInv
  <2>4. CASE slug # None
    <3>1. Open(s, "provision", "write", e, password, 0, slug) /\ slug \in GivenSlugs
          /\ slug \in Nat
      BY <1>4, <2>1, <2>4 DEF Provision
    <3> QED
      BY <3>1, OpenInv
  <2> QED
    BY <2>3, <2>4
<1>5. CASE Adopt(s, e)
  <2>1. Open(s, "adopt", "probe", e, None, 0, 0) /\ user[e] # None
    BY <1>5 DEF Adopt
  <2>2. Passed(0)
    BY DEF Passed
  <2>3. 0 \in 0 .. MaxSlug /\ 0 <= MaxSlug
    BY AccountsAssumption
  <2> QED
    BY <2>1, <2>2, <2>3, OpenInv
<1>6. ASSUME NEW password \in Passwords, EnsureSuperadmin(s, e, password)
      PROVE  IInv'
  <2>1. CASE user[e] = None
    BY <1>6, <2>1, OpenInv DEF EnsureSuperadmin
  <2>2. CASE user[e] # None
    BY <1>6, <2>2, OpenInv DEF EnsureSuperadmin
  <2> QED
    BY <2>1, <2>2
<1> QED
  BY <1>1, <1>2, <1>3, <1>4, <1>5, <1>6

LEMMA NextInv == IInv /\ [Next]_vars => IInv'
<1> SUFFICES ASSUME IInv, [Next]_vars PROVE IInv'
  OBVIOUS
<1>1. ASSUME NEW s \in Sessions, InsertRegistered(s)
      PROVE  IInv'
  BY <1>1, InsertInv
<1>2. ASSUME NEW s \in Sessions, IssueCode(s)
      PROVE  IInv'
  BY <1>2, IssueInv
<1>3. ASSUME NEW s \in Sessions, StartMail(s)
      PROVE  IInv'
  BY <1>3, StartMailInv
<1>4. ASSUME NEW s \in Sessions, NEW p \in Providers, NEW answer \in Answers,
             CallProvider(s, p, answer)
      PROVE  IInv'
  BY <1>4, CallInv
<1>5. ASSUME NEW s \in Sessions, ReportSent(s) \/ ReportFailed(s) \/ Abort(s)
      PROVE  IInv'
  BY <1>5, ForgetInv DEF ReportSent, ReportFailed, AnswerMail, Abort
<1>6. ASSUME NEW s \in Sessions, FinishUse(s)
      PROVE  IInv'
  BY <1>6, UseInv
<1>7. ASSUME NEW s \in Sessions, ProbeSlug(s)
      PROVE  IInv'
  BY <1>7, ProbeInv
<1>8. ASSUME NEW s \in Sessions, FinishProvision(s)
      PROVE  IInv'
  BY <1>8, ProvisionInv
<1>9. ASSUME NEW s \in Sessions, FinishAdopt(s)
      PROVE  IInv'
  BY <1>9, AdoptInv
<1>10. ASSUME NEW s \in Sessions, FinishSuperadmin(s)
       PROVE  IInv'
  BY <1>10, SuperadminInv
<1>11. CASE Restart
  BY <1>11, RestartInv
<1>12. CASE Tick
  BY <1>12, TickInv DEF Tick, router, IInv, TypeOK
<1>13. CASE UNCHANGED vars
  BY <1>13, TickInv DEF vars, IInv, TypeOK
<1> QED
  BY <1>1, <1>2, <1>3, <1>4, <1>5, <1>6, <1>7, <1>8, <1>9, <1>10, <1>11, <1>12, <1>13, RequestInv
     DEF Next

-----------------------------------------------------------------------------
(***************************************************************************)
(* Every reachable state satisfies the inductive invariant.                *)
(***************************************************************************)
THEOREM Invariance == Spec => []IInv
BY InitInv, NextInv, PTL DEF Spec

(***************************************************************************)
(* Users, tenants, sessions and deliveries keep their types.               *)
(***************************************************************************)
THEOREM TypeCorrect == Spec => []TypeOK
<1>1. IInv => TypeOK
  BY DEF IInv
<1> QED
  BY <1>1, Invariance, PTL

(***************************************************************************)
(* The slugs found by search leave no gap, however many callers search at  *)
(* the same time (services/tenant.py:64-68, 99-101).                       *)
(***************************************************************************)
THEOREM NoGaps == Spec => []SlugsWithoutGaps
<1>1. IInv => SlugsWithoutGaps
  BY DEF IInv
<1> QED
  BY <1>1, Invariance, PTL

(***************************************************************************)
(* A delivery fails only when every provider has been tried or is          *)
(* depleted, also if others deplete it meanwhile or the process restarts   *)
(* (notifications/email/router.py:31-49).                                  *)
(***************************************************************************)
THEOREM FailuresAreExhausted == Spec => []FailureMeansExhausted
<1>1. IInv => FailureMeansExhausted
  BY DEF IInv, DeliveriesFit, DeliveryFits, FailureMeansExhausted
<1> QED
  BY <1>1, Invariance, PTL

(***************************************************************************)
(* A request for a code is answered with success only when the very code   *)
(* it stored is on its way to the very address (services/otp.py:91-96).    *)
(***************************************************************************)
THEOREM SuccessesAreMailed == Spec => SuccessMeansMailed
<1> DEFINE Mailed(s) == ReportSent(s) => <<sess[s].email, sess[s].code>> \in inbox
<1>1. IInv /\ [Next]_vars => [\A s \in Sessions : Mailed(s)]_vars
  BY DEF IInv, DeliveriesFit, DeliveryFits, ReportSent, AnswerMail
<1> QED
  BY <1>1, Invariance, PTL DEF Spec, SuccessMeansMailed

-----------------------------------------------------------------------------
(* What a step does to users and tenants.                                  *)

\* Only these actions touch the two tables.
LEMMA TableActions ==
    ASSUME Next, db' # db
    PROVE  \E s \in Sessions :
              \/ InsertRegistered(s) \/ IssueCode(s) \/ FinishUse(s)
              \/ FinishProvision(s) \/ FinishAdopt(s) \/ FinishSuperadmin(s)
<1>1. ASSUME NEW s \in Sessions, NEW e \in Emails,
             \/ \E password \in Passwords : Register(s, e, password)
             \/ \E op \in {"resend", "forgot"} : RequestCode(s, op, e)
             \/ \E op \in UseOps, password \in Passwords \union {None}, code \in 1 .. codes :
                    UseCode(s, op, e, password, code)
             \/ \E password \in Passwords, slug \in GivenSlugs \union {None} :
                    Provision(s, e, password, slug)
             \/ Adopt(s, e)
             \/ \E password \in Passwords : EnsureSuperadmin(s, e, password)
      PROVE  FALSE
  BY <1>1 DEF Register, RequestCode, UseCode, Provision, Adopt, EnsureSuperadmin, Open, db
<1>2. ASSUME NEW s \in Sessions, StartMail(s) \/ ProbeSlug(s) \/ ReportSent(s) \/ ReportFailed(s) \/ Abort(s)
      PROVE  FALSE
  BY <1>2 DEF StartMail, ProbeSlug, ReportSent, ReportFailed, AnswerMail, Abort, db
<1>3. ASSUME NEW s \in Sessions, NEW p \in Providers, NEW answer \in Answers,
             CallProvider(s, p, answer)
      PROVE  FALSE
  BY <1>3 DEF CallProvider, db
<1>4. ~ Restart /\ ~ Tick
  BY DEF Restart, Tick, db
<1> QED
  BY <1>1, <1>2, <1>3, <1>4 DEF Next

\* The password that a registration brings.
LEMMA InsertFacts ==
    ASSUME IInv, NEW s \in Sessions, InsertRegistered(s)
    PROVE  LET r == sess[s] IN
           /\ r.email \in Emails /\ r.password \in Passwords /\ UNCHANGED tenants
           /\ \/ user' = user
              \/ /\ user[r.email] = None
                 /\ user' = [user EXCEPT ![r.email] =
                                NewUser(r.password, FALSE, "tenant_staff", None)]
<1> DEFINE r == sess[s]
<1>1. r # Idle /\ r.step = "insert" /\ UNCHANGED tenants
      /\ \/ user' = user
         \/ /\ user[r.email] = None
            /\ user' = [user EXCEPT ![r.email] =
                           NewUser(r.password, FALSE, "tenant_staff", None)]
  BY DEF InsertRegistered, At
<1>2. r.email \in Emails /\ r.password \in Passwords
  BY <1>1, SessionFields DEF IInv, SessionsFit, SessionFits
<1> HIDE DEF r
<1> QED
  BY <1>1, <1>2 DEF r

\* One user is written who is new, had no tenant or keeps his.
LEMMA InhabitedKept ==
    ASSUME IInv, NEW e \in Emails, NEW w \in UserRow, user' = [user EXCEPT ![e] = w],
           \/ user[e] = None
           \/ user[e].tenant = None
           \/ w.tenant = user[e].tenant,
           tenants' = tenants \/ tenants' = tenants \union {w.tenant},
           \A slug \in tenants : Inhabited(slug)
    PROVE  \A slug \in tenants' : Inhabited(slug)'
<1> SUFFICES ASSUME NEW slug \in tenants'
             PROVE  \E f \in Emails : user'[f] # None /\ user'[f].tenant = slug
  BY DEF Inhabited
<1>1. user'[e] = w /\ (\A f \in Emails \ {e} : user'[f] = user[f]) /\ w # None
  BY NullAccountAssumption DEF IInv, TypeOK
<1>2. CASE slug = w.tenant
  BY <1>1, <1>2
<1>3. CASE slug # w.tenant
  <2>1. slug \in tenants
    BY <1>3
  <2>2. slug # None
    BY <2>1, AccountsAssumption DEF IInv, TypeOK
  <2>3. PICK f \in Emails : user[f] # None /\ user[f].tenant = slug
    BY <2>1 DEF Inhabited
  <2>4. f # e
    BY <1>3, <2>2, <2>3
  <2> QED
    BY <1>1, <2>3, <2>4
<1> QED
  BY <1>2, <1>3

(***************************************************************************)
(* Every tenant keeps a user, through conflicts on addresses and on slugs, *)
(* unless two callers adopt the same user (services/tenant.py:76-80,       *)
(* 110-123).                                                               *)
(***************************************************************************)
THEOREM TenantsStayInhabited == Spec => TenantsKeepUsers
<1> DEFINE Keeps ==
        (\A slug \in tenants : Inhabited(slug)) =>
          \/ \A slug \in tenants' : Inhabited(slug)'
          \/ \E s \in Sessions : Overtaken(s) /\ FinishAdopt(s)
<1>1. IInv /\ [Next]_vars => [Keeps]_db
  <2> SUFFICES ASSUME IInv, Next, db' # db, \A slug \in tenants : Inhabited(slug)
               PROVE  \/ \A slug \in tenants' : Inhabited(slug)'
                      \/ \E s \in Sessions : Overtaken(s) /\ FinishAdopt(s)
    BY DEF vars, db
  <2> DEFINE Goal == \A slug \in tenants' : Inhabited(slug)'
  <2>1. CASE UNCHANGED <<user, tenants>>
    BY <2>1 DEF db
  <2>2. ASSUME NEW s \in Sessions, InsertRegistered(s)
        PROVE  Goal
    <3>1. CASE UNCHANGED user
      BY <2>2, <3>1, InsertFacts DEF Inhabited
    <3>2. CASE user' # user
      <4>1. /\ sess[s].email \in Emails /\ sess[s].password \in Passwords /\ tenants' = tenants
            /\ user[sess[s].email] = None
            /\ user' = [user EXCEPT ![sess[s].email] =
                            NewUser(sess[s].password, FALSE, "tenant_staff", None)]
        BY <2>2, <3>2, InsertFacts
      <4>2. NewUser(sess[s].password, FALSE, "tenant_staff", None) \in UserRow
        BY <4>1, NewUserFacts
      <4> QED
        BY <4>1, <4>2, InhabitedKept
    <3> QED
      BY <3>1, <3>2
  <2>3. ASSUME NEW s \in Sessions, IssueCode(s)
        PROVE  Goal
    <3> DEFINE otp == [code |-> codes + 1, until |-> clock + OtpMinutes]
               w   == [user[sess[s].email] EXCEPT !.otp = otp]
    <3>1. /\ sess[s].email \in Emails /\ w \in UserRow /\ w.tenant = user[sess[s].email].tenant
          /\ user' = [user EXCEPT ![sess[s].email] = w]
      BY <2>3, IssueFacts
    <3>2. UNCHANGED tenants
      BY <2>3 DEF IssueCode
    <3> HIDE DEF w
    <3> QED
      BY <3>1, <3>2, InhabitedKept
  <2>4. ASSUME NEW s \in Sessions, FinishUse(s)
        PROVE  Goal
    <3> DEFINE r == sess[s]
               w == Used(user[r.email], r.op, r.password)
    <3>1. /\ r.email \in Emails /\ user[r.email] \in UserRow
          /\ r.op = "reset" => r.password \in Passwords
          /\ user' = [user EXCEPT ![r.email] = w]
      BY <2>4, UseFacts
    <3>2. UNCHANGED tenants
      BY <2>4 DEF FinishUse
    <3> HIDE DEF r
    <3>3. PICK row \in UserRow : row = user[r.email]
      BY <3>1
    <3>4. Used(row, r.op, r.password) \in UserRow
          /\ Used(row, r.op, r.password).tenant = row.tenant
      BY <3>1, UsedRow
    <3>5. w \in UserRow /\ w.tenant = user[r.email].tenant
      BY <3>3, <3>4
    <3> HIDE DEF w
    <3> QED
      BY <3>1, <3>2, <3>5, InhabitedKept
  <2>5. ASSUME NEW s \in Sessions, FinishProvision(s)
        PROVE  Goal
    <3> DEFINE r == sess[s]
               w == NewUser(r.password, TRUE, "tenant_admin", r.slug)
    <3>1. /\ r.email \in Emails /\ w \in UserRow /\ w.tenant = r.slug
          /\ \/ UNCHANGED <<user, tenants>>
             \/ /\ user[r.email] = None
                /\ tenants' = tenants \union {r.slug}
                /\ user' = [user EXCEPT ![r.email] = w]
      BY <2>5, ProvisionFacts
    <3> HIDE DEF r, w
    <3> QED
      BY <2>1, <3>1, InhabitedKept DEF db
  <2>6. ASSUME NEW s \in Sessions, FinishAdopt(s), ~ Overtaken(s)
        PROVE  Goal
    <3> DEFINE r == sess[s]
               w == [user[r.email] EXCEPT !.tenant = r.slug]
    <3>1. /\ r.email \in Emails /\ w \in UserRow /\ w.tenant = r.slug /\ r.op = "adopt"
          /\ \/ UNCHANGED <<user, tenants>>
             \/ /\ tenants' = tenants \union {r.slug}
                /\ user' = [user EXCEPT ![r.email] = w]
      BY <2>6, AdoptFacts
    <3>2. user[r.email].tenant = None
      BY <2>6, <3>1 DEF Overtaken
    <3> HIDE DEF r, w
    <3> QED
      BY <2>1, <3>1, <3>2, InhabitedKept DEF db
  <2>7. ASSUME NEW s \in Sessions, FinishSuperadmin(s)
        PROVE  Goal
    <3> DEFINE r   == sess[s]
               new == NewUser(r.password, TRUE, "super_admin", None)
               old == [user[r.email] EXCEPT !.password = r.password, !.verified = TRUE,
                                            !.role = "super_admin"]
    <3>1. /\ r.email \in Emails /\ tenants' = tenants
          /\ \/ user' = user
             \/ /\ user[r.email] = None
                /\ user' = [user EXCEPT ![r.email] = new] /\ new \in UserRow
             \/ /\ user' = [user EXCEPT ![r.email] = old] /\ old \in UserRow
                /\ old.tenant = user[r.email].tenant
      <4>1. r.email \in Emails /\ tenants' = tenants
        BY <2>7, SuperadminFacts
      <4>2. \/ user' = user
            \/ /\ user[r.email] = None
               /\ user' = [user EXCEPT ![r.email] = new] /\ new \in UserRow
            \/ /\ user' = [user EXCEPT ![r.email] = old] /\ old \in UserRow
               /\ old.tenant = user[r.email].tenant
        BY <2>7, SuperadminFacts
      <4> QED
        BY <4>1, <4>2
    <3> HIDE DEF r, new, old
    <3> QED
      BY <2>1, <3>1, InhabitedKept DEF db
  <2> QED
    BY <2>2, <2>3, <2>4, <2>5, <2>6, <2>7, TableActions
<1> QED
  BY <1>1, Invariance, PTL DEF Spec, TenantsKeepUsers

-----------------------------------------------------------------------------
(* Every step on users and tenants is an operation of the promise, unless  *)
(* it ends a session that another one has overtaken.                       *)

LEMMA SignsUp ==
    ASSUME IInv, NEW s \in Sessions, InsertRegistered(s), db' # db
    PROVE  Promise!SignUp(sess[s].email) /\ sess[s].email \in Emails
<1> DEFINE r == sess[s]
<1>1. r.email \in Emails /\ r.password \in Passwords /\ UNCHANGED tenants
      /\ user[r.email] = None
      /\ user' = [user EXCEPT ![r.email] = NewUser(r.password, FALSE, "tenant_staff", None)]
  BY InsertFacts DEF db
<1> HIDE DEF r
<1>2. Promise!SignUp(r.email)
  BY <1>1 DEF Promise!SignUp, Promise!Put, NewUser
<1> QED
  BY <1>1, <1>2 DEF r

LEMMA GetsCode ==
    ASSUME IInv, NEW s \in Sessions, IssueCode(s)
    PROVE  Promise!GetCode(sess[s].email) /\ sess[s].email \in Emails
<1> DEFINE r   == sess[s]
           otp == [code |-> codes + 1, until |-> clock + OtpMinutes]
<1>1. /\ r.email \in Emails /\ user[r.email] # None /\ user[r.email] \in UserRow
      /\ codes \in Nat /\ codes' = codes + 1 /\ codes' \in 1 .. MaxCode
      /\ user' = [user EXCEPT ![r.email] = [user[r.email] EXCEPT !.otp = otp]]
  BY IssueFacts
<1>2. UNCHANGED tenants
  BY DEF IssueCode
<1>3. user[r.email].otp # None => user[r.email].otp.code < codes + 1
  <2>1. user[r.email].otp # None => user[r.email].otp \in Otp /\ user[r.email].otp.code <= codes
    BY <1>1 DEF IInv, CodesIssued, UserRow
  <2> QED
    BY <1>1, <2>1 DEF Otp
<1> HIDE DEF r
<1>4. PICK c \in 1 .. MaxCode : c = codes + 1
  BY <1>1
<1>5. Promise!GetCode(r.email)
  BY <1>1, <1>2, <1>3, <1>4 DEF Promise!GetCode, Promise!Put
<1> QED
  BY <1>1, <1>5 DEF r

LEMMA SpendsCode ==
    ASSUME IInv, NEW s \in Sessions, FinishUse(s), ~ Overtaken(s)
    PROVE  Promise!SpendCode(sess[s].email) /\ sess[s].email \in Emails
<1> DEFINE r   == sess[s]
           row == user[r.email]
           w   == Used(row, r.op, r.password)
<1>1. /\ r.email \in Emails /\ row \in UserRow /\ row # None /\ r.op \in UseOps
      /\ r.op = "reset" => r.password \in Passwords
      /\ user' = [user EXCEPT ![r.email] = w]
  BY UseFacts
<1>2. UNCHANGED tenants
  BY DEF FinishUse
<1>3. row.otp # None /\ clock <= row.otp.until
  BY <1>1 DEF Overtaken, Valid
<1> HIDE DEF r
<1>4. CASE r.op = "verify"
  <2>1. w = [row EXCEPT !.otp = None, !.verified = TRUE]
    <3> HIDE DEF row
    <3>1. w = [Cleared(row) EXCEPT !.verified = Cleared(row).verified \/ TRUE,
                                   !.password = Cleared(row).password]
      BY <1>4, Zenon DEF Used
    <3>2. w = [Cleared(row) EXCEPT !.verified = TRUE, !.password = Cleared(row).password]
      BY <3>1, Zenon
    <3> HIDE DEF w
    <3> QED
      BY <1>1, <3>2 DEF Cleared, UserRow
  <2> HIDE DEF w
  <2>2. Promise!SpendCode(r.email)
    BY <1>1, <1>2, <1>3, <2>1 DEF Promise!SpendCode, Promise!Put
  <2> QED
    BY <1>1, <2>2 DEF r
<1>5. CASE r.op = "reset"
  <2>1. w = [row EXCEPT !.otp = None, !.password = r.password]
    <3> HIDE DEF row
    <3> DEFINE old == Cleared(row).verified \/ r.op = "verify"
    <3>1. w = [Cleared(row) EXCEPT !.verified = old, !.password = r.password]
      BY <1>5, Zenon DEF Used
    <3>2. old = row.verified
      BY <1>1, <1>5 DEF Cleared, UserRow
    <3> HIDE DEF w, old
    <3> QED
      BY <1>1, <3>1, <3>2 DEF Cleared, UserRow
  <2> HIDE DEF w
  <2>2. Promise!SpendCode(r.email)
    BY <1>1, <1>2, <1>3, <1>5, <2>1 DEF Promise!SpendCode, Promise!Put
  <2> QED
    BY <1>1, <2>2 DEF r
<1> QED
  BY <1>1, <1>4, <1>5 DEF UseOps

LEMMA GetsTenant ==
    ASSUME IInv, NEW s \in Sessions, db' # db,
           FinishProvision(s) \/ (FinishAdopt(s) /\ ~ Overtaken(s))
    PROVE  Promise!GetTenant(sess[s].email) /\ sess[s].email \in Emails
<1> DEFINE r == sess[s]
<1>1. CASE FinishProvision(s)
  <2> DEFINE w == NewUser(r.password, TRUE, "tenant_admin", r.slug)
  <2>1. /\ r.email \in Emails /\ r.password \in Passwords
        /\ r.slug \in 0 .. MaxSlug \union GivenSlugs
        /\ r.slug \notin tenants /\ user[r.email] = None
        /\ tenants' = tenants \union {r.slug}
        /\ user' = [user EXCEPT ![r.email] = w]
    BY <1>1, ProvisionFacts DEF db
  <2> HIDE DEF r
  <2>2. Promise!GetTenant(r.email)
    BY <2>1 DEF Promise!GetTenant, Promise!Put, NewUser
  <2> QED
    BY <2>1, <2>2 DEF r
<1>2. CASE FinishAdopt(s) /\ ~ Overtaken(s)
  <2> DEFINE w == [user[r.email] EXCEPT !.tenant = r.slug]
  <2>1. /\ r.email \in Emails /\ user[r.email] # None /\ r.op = "adopt"
        /\ r.slug \in 0 .. MaxSlug \union GivenSlugs
        /\ r.slug \notin tenants
        /\ tenants' = tenants \union {r.slug}
        /\ user' = [user EXCEPT ![r.email] = w]
    BY <1>2, AdoptFacts DEF db
  <2>2. user[r.email].tenant = None
    BY <1>2, <2>1 DEF Overtaken
  <2> HIDE DEF r
  <2>3. Promise!GetTenant(r.email)
    BY <2>1, <2>2 DEF Promise!GetTenant, Promise!Put
  <2> QED
    BY <2>1, <2>3 DEF r
<1> QED
  BY <1>1, <1>2

LEMMA BecomesSuperadmin ==
    ASSUME IInv, NEW s \in Sessions, FinishSuperadmin(s), db' # db
    PROVE  Promise!BecomeSuperadmin(sess[s].email) /\ sess[s].email \in Emails
<1> DEFINE r   == sess[s]
           new == NewUser(r.password, TRUE, "super_admin", None)
           old == [user[r.email] EXCEPT !.password = r.password, !.verified = TRUE,
                                        !.role = "super_admin"]
<1>1. r.email \in Emails /\ r.password \in Passwords /\ UNCHANGED tenants
  BY SuperadminFacts
<1>2. \/ user[r.email] = None /\ user' = [user EXCEPT ![r.email] = new]
      \/ user[r.email] # None /\ user' = [user EXCEPT ![r.email] = old]
  <2>1. \/ user' = user
        \/ user[r.email] = None /\ user' = [user EXCEPT ![r.email] = new]
        \/ user[r.email] # None /\ user' = [user EXCEPT ![r.email] = old]
    BY SuperadminFacts
  <2>2. user' # user
    BY <1>1 DEF db
  <2> QED
    BY <2>1, <2>2
<1> HIDE DEF r
<1>3. Promise!BecomeSuperadmin(r.email)
  BY <1>1, <1>2 DEF Promise!BecomeSuperadmin, Promise!Put, NewUser
<1> QED
  BY <1>1, <1>3 DEF r

(***************************************************************************)
(* The refinement, step by step: whatever overlaps, fails or dies, users   *)
(* and tenants change by one operation of the promise at a time, unless a  *)
(* use or an adoption ends that another one has overtaken                  *)
(* (services/otp.py:45-74, services/tenant.py:48-80).                      *)
(***************************************************************************)
THEOREM StepsKeepPromise == Spec => AtomicUnlessOvertaken
<1> DEFINE Keeps ==
        db # db' => \/ \E s \in Sessions : Overtaken(s) /\ (FinishUse(s) \/ FinishAdopt(s))
                    \/ Promise!Next
<1>1. IInv /\ [Next]_vars => [Keeps]_db
  <2> SUFFICES ASSUME IInv, Next, db' # db,
                      ~ \E s \in Sessions : Overtaken(s) /\ (FinishUse(s) \/ FinishAdopt(s))
               PROVE  Promise!Next
    BY DEF vars, db
  <2>1. PICK s \in Sessions :
            \/ InsertRegistered(s) \/ IssueCode(s) \/ FinishUse(s)
            \/ FinishProvision(s) \/ FinishAdopt(s) \/ FinishSuperadmin(s)
    BY TableActions
  <2>2. \E e \in Emails : \/ Promise!SignUp(e) \/ Promise!GetCode(e) \/ Promise!SpendCode(e)
                          \/ Promise!GetTenant(e) \/ Promise!BecomeSuperadmin(e)
    BY <2>1, SignsUp, GetsCode, SpendsCode, GetsTenant, BecomesSuperadmin
  <2> QED
    BY <2>2 DEF Promise!Next
<1> QED
  BY <1>1, Invariance, PTL DEF Spec, AtomicUnlessOvertaken
=============================================================================

---------------------------- MODULE EmailRouter -----------------------------
(***************************************************************************)
(* src/app/notifications/email: one router per process, which tries its    *)
(* providers in a random order and remembers those whose quota is used up. *)
(*                                                                         *)
(* A delivery belongs to the session that waits for it.  Its list of       *)
(* providers is drawn up once, at the start; other deliveries run during   *)
(* each call of a provider.  The actions say nothing of the session: the   *)
(* module that mails conjoins them with its own steps.                     *)
(***************************************************************************)
EXTENDS Naturals

CONSTANTS
    Sessions,       \* requests that may be open at the same time
    EmailEnabled,   \* the setting EMAIL_ENABLED
    Statuses        \* HTTP statuses of provider answers, 0 for no answer

VARIABLES
    depleted,   \* names of the providers marked as depleted
    delivery    \* the delivery of each session

Providers == {"brevo", "mailjet"}

\* is_configured is a coroutine function.  Nobody awaits its result, and the
\* test is made of the coroutine itself, which is always true.
IsConfigured(p) == TRUE

\* get_email_router: only EMAIL_ENABLED decides.
Routed == IF EmailEnabled THEN {p \in Providers : IsConfigured(p)} ELSE {}

\* What a provider call ends with: a status (0 for a connection that failed or
\* timed out) and whether the text speaks of quota or credit.
Answers == {a \in [status : Statuses, complains : BOOLEAN] : a.complains => a.status > 201}

Success(p) == IF p = "brevo" THEN 201 ELSE 200

\* The refusals that raise QuotaExceededError.
QuotaUsedUp(p, answer) ==
    \/ p = "brevo" /\ (answer.status \in {402, 403} \/ answer.complains)
    \/ p = "mailjet" /\ answer.status = 401

\* Fault variant of Outcome: a call without an answer counts as accepted.
OutcomeHopeful(p, answer) ==
    CASE answer.status \in {0, Success(p)} -> "accepted"
      [] answer.status \notin {0, Success(p)} /\ QuotaUsedUp(p, answer) -> "quota"
      [] OTHER -> "failed"

\* How EmailRouter.send sees the answer of provider p.
Outcome(p, answer) ==
    CASE answer.status = Success(p) -> "accepted"
      [] answer.status # Success(p) /\ QuotaUsedUp(p, answer) -> "quota"
      [] OTHER -> "failed"

\* Whether the mail is on its way, which the provider knows and the router may
\* not: yes after a 2xx, perhaps after a call without an answer.
Arrivals(answer) ==
    IF answer.status \in 200 .. 299 THEN {TRUE}
    ELSE IF answer.status = 0 THEN BOOLEAN ELSE {FALSE}

NoDelivery == [phase |-> "none", left |-> {}, tried |-> {}]

\* left: the providers still to be tried.  tried: those that were, which only
\* a property reads.
Delivery ==
    [phase : {"none", "trying", "sent", "failed"},
     left : SUBSET Providers, tried : SUBSET Providers]

RouterTypeOK ==
    /\ depleted \subseteq Providers
    /\ delivery \in [Sessions -> Delivery]

RouterInit ==
    /\ depleted = {}
    /\ delivery = [s \in Sessions |-> NoDelivery]

Continued(left, tried) ==
    [phase |-> IF left = {} THEN "failed" ELSE "trying", left |-> left, tried |-> tried]

\* send draws up its list; with none left it returns False at once.
Route(s) ==
    /\ delivery[s].phase = "none"
    /\ delivery' = [delivery EXCEPT ![s] = Continued(Routed \ depleted, {})]
    /\ UNCHANGED depleted

\* Fault variant of Remaining: a failed provider ends the delivery.
RemainingNone(left, p) == {}

Remaining(left, p) == left \ {p}

\* One pass of the loop: p is the next of the shuffled list.
Attempt(s, p, answer) ==
    /\ delivery[s].phase = "trying"
    /\ p \in delivery[s].left
    /\ LET outcome == Outcome(p, answer) IN
       /\ delivery' = [delivery EXCEPT ![s] =
              IF outcome = "accepted" THEN [NoDelivery EXCEPT !.phase = "sent"]
              ELSE Continued(Remaining(@.left, p), @.tried \union {p})]
       /\ depleted' = IF outcome = "quota" THEN depleted \union {p} ELSE depleted

\* A delivery ends with the request that waits for it.
Forgotten(s) ==
    /\ delivery' = [delivery EXCEPT ![s] = NoDelivery]
    /\ UNCHANGED depleted

\* The process restarts with a new router.
RouterRestart ==
    /\ delivery' = [s \in Sessions |-> NoDelivery]
    /\ depleted' = {}
=============================================================================

----------------------------- MODULE Extraction ------------------------------
(***************************************************************************)
(* Reading documents with language models: extract and extract_batch of    *)
(* src/app/services/llm_extractor.py over the template registry, and the   *)
(* route POST /templates/test.                                             *)
(*                                                                         *)
(* A job is one call of extract: in a thread of a batch, or on the event   *)
(* loop for the test route, which blocks the loop until it ends.  At most  *)
(* one batch has a caller that waits; when one of its images cannot be     *)
(* encoded the caller gets the exception and the other jobs go on.  No     *)
(* route calls extract_batch yet.                                          *)
(*                                                                         *)
(* The providers are external: a call ends with a reading, with text that  *)
(* is no JSON, with an error that the code retries ("busy") or with        *)
(* another exception ("refused", among them a confidence that is no        *)
(* number).                                                                *)
(***************************************************************************)
EXTENDS Naturals, TemplateRegistry, ExtractionRules

CONSTANTS
    ProviderCount,   \* providers with a key, in order
    Attempts,        \* attempts at one provider, 3 in the code
    MaxConcurrent,   \* max_concurrent of a batch
    Layout,          \* Versions -> the fields of the template
    Batches,         \* the sets of jobs of a batch
    AskedInBatch,    \* types that are asked for; None leaves it to detection
    AskedInTest,
    Readings         \* what a provider may answer with; malformed: the fields
                     \* are not an object, and validation raises

Asked == AskedInBatch \union AskedInTest

ASSUME ExtractionAssumption ==
    /\ ProviderCount \in Nat
    /\ Attempts \in Nat \ {0}
    /\ MaxConcurrent \in Nat \ {0}
    /\ Jobs \subseteq Nat      \* the place of the image in its batch
    /\ Batches \subseteq SUBSET Jobs
    /\ Asked \subseteq Types \union {None}
    /\ DOMAIN Layout = Versions
    /\ \A v \in Versions : \A name \in DOMAIN Layout[v] : Layout[v][name] \in FieldDef
    /\ \A r \in Readings :
        /\ r.type \in Types \union {"UNKNOWN"}
        /\ r.malformed \in BOOLEAN
        /\ ~ r.malformed => \A name \in DOMAIN r.fields : r.fields[name] \in Value

VARIABLES
    job,     \* the extractions
    batch    \* the jobs of the batch that somebody waits for

vars == <<disk, cache, loaded, loader, handler, apart, job, batch>>

-----------------------------------------------------------------------------
\* Text that is no JSON.
Garbage == [type |-> "UNKNOWN", malformed |-> FALSE, fields |-> <<>>]

Answers == Readings \union {Garbage}

Template == [type : Types, version : Versions]

ASSUME NullExtractionAssumption == None \notin Template \union Answers

IdleJob ==
    [step |-> "idle", asked |-> None, template |-> None, prov |-> 0, attempt |-> 0,
     answer |-> None, valid |-> TRUE]

Job ==
    [step     : {"idle", "queued", "check", "load", "fetch", "encode", "call", "done", "raised"},
     asked    : Types \union {None},
     template : Template \union {None},
     prov     : 0 .. ProviderCount,
     attempt  : 0 .. Attempts,
     answer   : Answers \union {None},
     valid    : BOOLEAN]

TypeOK ==
    /\ RegistryTypeOK
    /\ job \in [Jobs -> Job]
    /\ batch \subseteq Jobs

Init ==
    /\ RegistryInit
    /\ job = [x \in Jobs |-> IdleJob]
    /\ batch = {}

-----------------------------------------------------------------------------
(* Starting jobs: steps of the event loop                                  *)

Step(x, step) == job[x].step = step

Ended(x) == job[x].step \in {"done", "raised"}

Begun(asked) == IF asked = None THEN "encode" ELSE "check"

\* extract_batch.  Bound: one at a time, with what a failed one has left.
StartBatch(items, asked) ==
    /\ handler = FreeLoop
    /\ items # {}
    /\ \A x \in Jobs : Step(x, "idle")
    /\ batch' = items
    /\ job' = [x \in Jobs |->
                  IF x \in items THEN [IdleJob EXCEPT !.step = "queued", !.asked = asked] ELSE job[x]]
    /\ UNCHANGED registry

\* In a thread of the batch: the loop is free when this is asked, so a job of
\* the test route is not in one.
Running(x) == job[x].step \in {"check", "load", "fetch", "encode", "call"}

\* The semaphore lets a job into the thread pool, in the order of the batch.
Admit(x) ==
    /\ handler = FreeLoop
    /\ Step(x, "queued")
    /\ \A y \in Jobs : Step(y, "queued") => x <= y
    /\ Cardinality({y \in Jobs : Running(y)}) < MaxConcurrent
    /\ job' = [job EXCEPT ![x].step = Begun(job[x].asked)]
    /\ UNCHANGED <<registry, batch>>

\* POST /templates/test: extract on the event loop
TestExtraction(x, asked) ==
    /\ Step(x, "idle")
    /\ Begin([op |-> "test", job |-> x])
    /\ job' = [job EXCEPT ![x] = [IdleJob EXCEPT !.step = Begun(asked), !.asked = asked]]
    /\ UNCHANGED batch

-----------------------------------------------------------------------------
(* extract, in its thread                                                  *)

\* The type to look up: the one asked for, or the one that was detected.
Wanted(j) == IF j.answer = None THEN j.asked ELSE j.answer.type

\* Fault variant of MustLoad: the registry is taken as loaded.
MustLoadNever == FALSE

MustLoad == ~ loaded

\* The first half of registry.get
CheckLoaded(x) ==
    /\ Step(x, "check")
    /\ IF MustLoad
       THEN StartLoad(x) /\ job' = [job EXCEPT ![x].step = "load"]
       ELSE UNCHANGED registry /\ job' = [job EXCEPT ![x].step = "fetch"]
    /\ UNCHANGED <<handler, batch>>

LoadFile(x) ==
    /\ \/ \E t \in Types : ReadFile(x, t)
       \/ StoreTemplate(x)
    /\ UNCHANGED <<handler, job, batch>>

Loaded(x) ==
    /\ FinishLoad(x)
    /\ job' = [job EXCEPT ![x].step = "fetch"]
    /\ UNCHANGED <<handler, batch>>

\* The next provider, or the error result after the last.
NextProvider(j) ==
    IF j.prov < ProviderCount
    THEN [j EXCEPT !.step = "call", !.prov = @ + 1, !.attempt = 1, !.answer = None]
    ELSE [j EXCEPT !.step = "done", !.attempt = 0, !.answer = None]

\* Validation and the result.  The template stays with the job when it raises.
Concluded(j) ==
    CASE j.template = None -> [j EXCEPT !.step = "done"]
      [] j.template # None /\ j.answer.malformed -> NextProvider(j)
      [] OTHER -> [j EXCEPT !.step = "done",
                            !.valid = Valid(Layout[j.template.version], j.answer.fields)]

\* The second half of registry.get
FetchTemplate(x) ==
    /\ Step(x, "fetch")
    /\ LET version  == Cached(Wanted(job[x]))
           template == IF version = None THEN None
                       ELSE [type |-> Wanted(job[x]), version |-> version]
           found    == [job[x] EXCEPT !.template = template] IN
       job' = [job EXCEPT ![x] =
                  IF @.answer = None THEN [found EXCEPT !.step = "encode"] ELSE Concluded(found)]
    /\ UNCHANGED <<registry, batch>>

\* image_to_base64, before the loop over the providers: an image that cannot be
\* encoded raises out of extract.
EncodeImage(x, fails) ==
    /\ Step(x, "encode")
    /\ job' = [job EXCEPT ![x] = IF fails THEN [@ EXCEPT !.step = "raised"] ELSE NextProvider(@)]
    /\ UNCHANGED <<registry, batch>>

\* Fault variant of Retried: after the last attempt the same provider is tried
\* from the start.
RetriedForever(j) == [j EXCEPT !.attempt = IF @ < Attempts THEN @ + 1 ELSE 1]

\* Fault variant of Retried: one attempt too many.
RetriedOnceMore(j) == IF j.attempt <= Attempts THEN [j EXCEPT !.attempt = @ + 1] ELSE NextProvider(j)

\* An error worth a retry: after a pause, up to three attempts.
Retried(j) == IF j.attempt < Attempts THEN [j EXCEPT !.attempt = @ + 1] ELSE NextProvider(j)

CallFails(x, how) ==
    /\ Step(x, "call")
    /\ job' = [job EXCEPT ![x] = IF how = "busy" THEN Retried(@) ELSE NextProvider(@)]
    /\ UNCHANGED <<registry, batch>>

\* A template that is still missing is looked up by the detected type.
CallAnswers(x, answer) ==
    /\ Step(x, "call")
    /\ LET answered == [job[x] EXCEPT !.answer = answer, !.attempt = 0] IN
       job' = [job EXCEPT ![x] =
                  IF @.template = None THEN [answered EXCEPT !.step = "check"] ELSE Concluded(answered)]
    /\ UNCHANGED <<registry, batch>>

-----------------------------------------------------------------------------
(* Collecting results: steps of the event loop                             *)

\* gather has all results.
EndBatch ==
    /\ handler = FreeLoop
    /\ batch # {}
    /\ \A x \in batch : Step(x, "done")
    /\ job' = [x \in Jobs |-> IF x \in batch THEN IdleJob ELSE job[x]]
    /\ batch' = {}
    /\ UNCHANGED registry

\* gather passes the first exception on; the other jobs are not cancelled.
FailBatch(x) ==
    /\ handler = FreeLoop
    /\ x \in batch
    /\ Step(x, "raised")
    /\ job' = [job EXCEPT ![x] = IdleJob]
    /\ batch' = {}
    /\ UNCHANGED registry

\* Nobody waits for the result.
Discard(x) ==
    /\ handler = FreeLoop
    /\ x \notin batch
    /\ Ended(x)
    /\ job' = [job EXCEPT ![x] = IdleJob]
    /\ UNCHANGED <<registry, batch>>

\* The answer of the test route
EndTest(x) ==
    /\ handler = [op |-> "test", job |-> x]
    /\ Ended(x)
    /\ handler' = FreeLoop
    /\ job' = [job EXCEPT ![x] = IdleJob]
    /\ UNCHANGED <<disk, cache, loaded, loader, apart, batch>>

Restart ==
    /\ RegistryRestart
    /\ job' = [x \in Jobs |-> IdleJob]
    /\ batch' = {}

-----------------------------------------------------------------------------
JobStep(x) ==
    \/ CheckLoaded(x)
    \/ LoadFile(x)
    \/ Loaded(x)
    \/ FetchTemplate(x)
    \/ \E fails \in BOOLEAN : EncodeImage(x, fails)
    \/ \E how \in {"busy", "refused"} : CallFails(x, how)
    \/ \E answer \in Answers : CallAnswers(x, answer)

\* What the event loop does for a job.
LoopStep(x) ==
    \/ Admit(x)
    \/ FailBatch(x)
    \/ Discard(x)
    \/ x \in batch /\ EndBatch

Next ==
    \/ Requests /\ UNCHANGED <<job, batch>>
    \/ HandlerStep /\ UNCHANGED <<job, batch>>
    \/ \E t \in Types, content \in Versions \union {"torn", None} :
          EditFile(t, content) /\ UNCHANGED <<job, batch>>
    \/ \E items \in Batches, asked \in AskedInBatch : StartBatch(items, asked)
    \/ \E x \in Jobs, asked \in AskedInTest : TestExtraction(x, asked)
    \/ \E x \in Jobs : JobStep(x) \/ EndTest(x) \/ LoopStep(x)
    \/ Restart

Spec == Init /\ [][Next]_vars

\* Threads are scheduled and calls of providers end; a route that has begun
\* runs to its end.  The loop runs what is ready before later requests, so what
\* it could do for a job again and again it does: strong fairness.
FairSpec ==
    /\ Spec
    /\ WF_vars(HandlerStep /\ UNCHANGED <<job, batch>>)
    /\ \A x \in Jobs : WF_vars(JobStep(x) \/ EndTest(x)) /\ SF_vars(LoopStep(x))
=============================================================================

------------------------ MODULE ExtractionProperties -------------------------
(***************************************************************************)
(* What holds of the template cache and of the extractions that use it.    *)
(***************************************************************************)
EXTENDS Extraction

CONSTANT Observed   \* the jobs whose end is checked

ASSUME ObservedAssumption == Observed \subseteq Jobs

Whole(t) == disk[t] \notin {"torn", None}

Removing(t) ==
    \/ handler.op = "reload"
    \/ handler.op = "delete" /\ handler.step = "unlink" /\ handler.path = t

(***************************************************************************)
(* A template with a whole file is in a loaded cache, through torn reads,  *)
(* loads of several threads at once, changes by administrators and         *)
(* restarts; only a reload or its own removal in progress takes it out.  A *)
(* file that was edited outside the routes, or left by a route that failed *)
(* on it, is seen by the next reload or restart                            *)
(* (template_registry.py:71-97 and 111-140).                               *)
(***************************************************************************)
TemplatesStayFound ==
    \A t \in Types \ apart : loaded /\ Whole(t) /\ cache[t] = None => Removing(t)

(***************************************************************************)
(* Between routes the cache is what the files say, and three things alone  *)
(* set them apart: an edit outside the routes, a file operation that       *)
(* failed after the cache had changed, and a thread that had begun a load  *)
(* during a reload and stores a template after it has changed.  A reload   *)
(* or a successful change of the template ends the first two               *)
(* (template_registry.py:80-91, 111-140).                                  *)
(***************************************************************************)
CacheIsDisk ==
    loaded /\ handler.op \in {"none", "test"} =>
        \A t \in Types \ apart :
            cache[t] = IF Whole(t) THEN disk[t] ELSE None

\* The kinds of value in which a type is delivered.  Dates are not converted;
\* of booleans text alone is.
KindsOf(type) ==
    CASE type = "string"  -> {"str"}
      [] type = "number"  -> {"num"}
      [] type = "list"    -> {"list"}
      [] type = "boolean" -> Kinds \ {"str"}
      [] type = "date"    -> Kinds

\* The rules that mean something for a value.
RulesFor(v) ==
    {"equals"} \union
    (IF v.kind = "str" THEN {"pattern", "not_expired", "id_checksum"} ELSE {}) \union
    (IF v.number THEN {"range"} ELSE {})

\* The rules that a field definition states.
Stated(def) == def.rules \union {p \in {"pattern"} : def.pattern}

\* What a template asks of the fields that a caller is given: those required are
\* there, each is of a kind of its type, and of the rules stated for it those
\* that mean something for the value hold, all but regex and custom.
Satisfies(template, delivered) ==
    \A name \in DOMAIN template :
        /\ template[name].required => name \in DOMAIN delivered
        /\ name \in DOMAIN delivered =>
            LET v == delivered[name] IN
            /\ v.kind \in KindsOf(template[name].type)
            /\ \A rule \in Stated(template[name]) \intersect RulesFor(v) : <<v.kind, rule>> \notin v.fails

(***************************************************************************)
(* A result that says valid gives the caller fields that satisfy the       *)
(* template it carries, as they are after the conversions: required fields *)
(* are there, kinds fit, and pattern, not_expired, id_checksum, range and  *)
(* equals hold; regex and custom are not looked at, whatever the template  *)
(* language says of them (PLAN.md:994).  The template is of the type asked *)
(* for or detected.  Only after an earlier provider failed in validation   *)
(* may it be of the type that one detected, whatever document the last one *)
(* saw (template_registry.py:231-359, llm_extractor.py:290-314).           *)
(***************************************************************************)
ResultsFitTheirTemplate ==
    \A x \in Jobs :
        LET j == job[x] IN
        j.step = "done" /\ j.answer # None /\ j.template # None =>
            /\ j.valid => LET template == Layout[j.template.version] IN
                          Satisfies(template, Delivered(template, j.answer.fields))
            /\ j.template.type \in {j.asked, j.answer.type} \/ j.prov > 1

(***************************************************************************)
(* A reading of a type that has a template is passed on unchecked, as      *)
(* valid, only while a reload or a removal hides the template, or before   *)
(* the reload that an edit of its file, or a failed operation on it, calls *)
(* for (llm_extractor.py:290-300, template_registry.py:93-97).             *)
(***************************************************************************)
UncheckedOnlyIfUnknown ==
    [][\A x \in Jobs :
         LET j == job'[x] IN
         ~ Ended(x) /\ j.step = "done" /\ j.answer # None /\ j.template = None =>
             \A t \in Types \ apart : j.answer.type = t => ~ Whole(t) \/ Removing(t)]_vars

(***************************************************************************)
(* Every extraction ends and gives its place back: retries and providers   *)
(* run out, a job waits neither for a batch that has failed nor for the    *)
(* semaphore for ever (llm_extractor.py:278-314 and 333-350).              *)
(***************************************************************************)
ExtractionsEnd == \A x \in Observed : ~ Step(x, "idle") ~> Step(x, "idle")
=============================================================================

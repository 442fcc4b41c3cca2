-------------------------- MODULE ExtractionRules ---------------------------
(***************************************************************************)
(* When the fields that a language model read off a document satisfy its   *)
(* template: validate_extraction of src/app/services/template_registry.py. *)
(*                                                                         *)
(* A template is a function from the names of its fields to their          *)
(* definitions.  A value is what the code asks of it: its JSON kind,       *)
(* whether its text reads as a number, and which tests it fails as a value *)
(* of which kind: the text "yes" fails equals true, the boolean that it    *)
(* becomes does not.  Warnings (low confidence, a value outside            *)
(* allowed_values, a date that cannot be read) are left out: they do not   *)
(* make a result invalid.                                                  *)
(***************************************************************************)
Rules == {"not_expired", "id_checksum", "range", "equals", "regex", "custom"}

FieldDef ==
    [type : {"string", "number", "date", "boolean", "list"},
     required : BOOLEAN, pattern : BOOLEAN, rules : SUBSET Rules]

Kinds == {"str", "num", "bool", "list", "object"}

\* Only text and numbers have a text that float() reads.
Value ==
    {v \in [kind : Kinds, number : BOOLEAN, fails : SUBSET (Kinds \X (Rules \union {"pattern"}))] :
        /\ v.number => v.kind \in {"str", "num"}
        /\ v.kind = "num" => v.number}

\* A value of another kind.  A boolean and a list do not read as a number, of
\* whatever they were made.
As(kind, v) ==
    [v EXCEPT !.kind = kind, !.number = @ /\ kind \in {"str", "num"}]

\* What the value of a field becomes before it is tested.
Converted(def, v) ==
    CASE def.type = "string" -> As("str", v)
      [] def.type = "number" /\ v.number -> As("num", v)
      [] def.type = "boolean" /\ v.kind = "str" -> As("bool", v)
      [] def.type = "list" -> As("list", v)
      [] OTHER -> v

\* Fault variant of Broken: every rule is for text.
BrokenText(rule, v) == v.kind = "str" /\ <<"str", rule>> \in v.fails

\* _run_validation: regex and custom are in the template language and do
\* nothing; a rule for text passes every other kind, range what is no number.
Broken(rule, v) ==
    /\ <<v.kind, rule>> \in v.fails
    /\ \/ rule \in {"not_expired", "id_checksum"} /\ v.kind = "str"
       \/ rule = "range" /\ v.number
       \/ rule = "equals"

\* What is wrong with one field; null counts as absent.
Errors(def, name, fields) ==
    IF name \notin DOMAIN fields THEN {e \in {"missing_required"} : def.required}
    ELSE LET v == Converted(def, fields[name]) IN
         {e \in {"invalid_type"} : def.type = "number" /\ ~ v.number} \union
         {e \in {"pattern"} : def.pattern /\ v.kind = "str" /\ <<"str", "pattern">> \in v.fails} \union
         {rule \in def.rules : Broken(rule, v)}

Valid(template, fields) ==
    \A name \in DOMAIN template : Errors(template[name], name, fields) = {}

\* The fields after validation, which converts them in place.
Delivered(template, fields) ==
    [name \in DOMAIN fields |->
        IF name \in DOMAIN template THEN Converted(template[name], fields[name]) ELSE fields[name]]
=============================================================================

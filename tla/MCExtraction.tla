---------------------------- MODULE MCExtraction -----------------------------
(***************************************************************************)
(* A small instance of Extraction.                                         *)
(***************************************************************************)
EXTENDS ExtractionProperties, TLC

CONSTANTS A, v1

WholeBatch == {Jobs}

Date == [type |-> "date", required |-> TRUE, pattern |-> FALSE, rules |-> {"not_expired"}]
Flag == [type |-> "boolean", required |-> FALSE, pattern |-> FALSE, rules |-> {"equals"}]
Mass == [type |-> "number", required |-> FALSE, pattern |-> FALSE, rules |-> {"range"}]

\* As insurance_letter.yaml has them: an expiry date, a flag that is to be true;
\* and a number with a range.
Layouts == v1 :> (("expiry" :> Date) @@ ("active" :> Flag) @@ ("mass" :> Mass))

Later == [kind |-> "str", number |-> FALSE, fails |-> {}]
Light == [kind |-> "str", number |-> TRUE, fails |-> {}]

\* No text equals true; what it becomes may.
Yes == [kind |-> "str", number |-> FALSE, fails |-> {<<"str", "equals">>}]
No  == [kind |-> "str", number |-> FALSE, fails |-> {<<"str", "equals">>, <<"bool", "equals">>}]

\* One that satisfies the template, one whose flag says no, and one whose fields
\* are no object.  Text that is no JSON lacks the required field.
SomeReadings ==
    {[type |-> A, malformed |-> FALSE,
      fields |-> ("expiry" :> Later) @@ ("active" :> Yes) @@ ("mass" :> Light)],
     [type |-> A, malformed |-> FALSE,
      fields |-> ("expiry" :> Later) @@ ("active" :> No)],
     [type |-> A, malformed |-> TRUE, fields |-> <<>>]}
=============================================================================

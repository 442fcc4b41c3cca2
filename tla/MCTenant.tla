------------------------------ MODULE MCTenant ------------------------------
(* Instances of TenantSettings for TLC. *)
EXTENDS TenantProperties, TLC

\* Bodies that name one field.  A detail is sent with a text or empty, the
\* footer and the name empty, the logo with a key of the first second.
OneField ==
    LET Only(named, v) == [f \in Sent |-> IF f = named THEN v ELSE None] IN
    {Only(d, v) : d \in Details, v \in Values \union {Empty}}
    \union {Only(f, Empty) : f \in Looks \union {"name"}}
    \union {Only("logo", key) : key \in {0} \X Files}

Symmetry == Permutations(Sessions)
=============================================================================

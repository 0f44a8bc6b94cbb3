-------------------------- MODULE MCSnapshotRelease --------------------------
(***************************************************************************)
(* Instances of SnapshotRelease for TLC.                                   *)
(***************************************************************************)
EXTENDS SnapshotRelease

Scalar(kind) == [kind |-> kind, fields |-> [f \in {} |-> kind]]

Object(fields) == [kind |-> "object", fields |-> fields]

Attribute(type, required, optional, computed, text) ==
    [type |-> type, required |-> required, optional |-> optional,
     computed |-> computed, text |-> text]

Name == Scalar("string")

\* The four kinds of attribute the translators make, another description, an
\* object, an object with a field more.
Attributes ==
    {Attribute(Name, TRUE, FALSE, FALSE, "a"),
     Attribute(Name, FALSE, TRUE, FALSE, "a"),
     Attribute(Name, FALSE, FALSE, TRUE, "a"),
     Attribute(Name, FALSE, TRUE, TRUE, "a"),
     Attribute(Name, FALSE, TRUE, FALSE, "b"),
     Attribute(Object([f \in {"f"} |-> "string"]), FALSE, TRUE, FALSE, "b")}

NoAttribute == [a \in {} |-> Name]

\* One resource type with one attribute or none.
Resources ==
    {[t \in {"thing"} |-> [a \in {"x"} |-> attribute]] : attribute \in Attributes}
    \cup {[t \in {"thing"} |-> NoAttribute]}

\* The second member is there to come and go.
DataSources == {[t \in {"data"} |-> NoAttribute]}

MCSchemas(m) == IF m = 1 THEN Resources ELSE DataSources
=============================================================================

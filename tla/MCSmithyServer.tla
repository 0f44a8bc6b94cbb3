----------------------------- MODULE MCSmithyServer -----------------------------
(***************************************************************************)
(* Instances of SmithyServer for TLC: resource types in the likeness of    *)
(* AWS's own, each with a name and one more attribute.                     *)
(***************************************************************************)
EXTENDS SmithyServer

CONSTANTS Pascal, snake

\* The two are one in snake case.
MCReKeyed(v) == {snake}

MCAttrs == {"name", "size"}

\* Lambda's functions: named by the user, bound to the URI.
Function ==
    [protocol |-> "restJson1", offered |-> Ops,
     inputs   |-> [op \in Ops |-> IF op \in {"create", "update"} THEN MCAttrs ELSE {"name"}],
     answers  |-> [op \in Ops |-> IF op = "destroy" THEN {} ELSE MCAttrs],
     silent   |-> {"destroy"}, labels |-> {"name"}, params |-> {}, lists |-> {},
     computed |-> {}, altered |-> {}, garbled |-> {}, missing404 |-> TRUE]

\* The same with its environment, a structure around a map.
Environment ==
    [Function EXCEPT !.lists = {"size"}, !.altered = {"size"}, !.garbled = {"size"}]

\* The same with its ARN.
Versioned ==
    [Function EXCEPT !.computed = {"size"}, !.inputs = [op \in Ops |-> {"name"}]]

\* S3's buckets: a member in the query, nothing in the answer to a create, no
\* request bodies.
Bucket ==
    [Function EXCEPT !.protocol = "restXml", !.silent = {"create", "destroy"},
                     !.inputs["update"] = {"name"}, !.params = {"size"},
                     !.answers["read"] = {"size"}]

\* The same with an attribute that a create does not take.
Located ==
    [Bucket EXCEPT !.computed = {"size"}, !.inputs["create"] = {"name"}]

\* SQS's queues: named by the service, the name is in no other answer, an
\* update has none; the attributes are a map.
Queue ==
    [protocol |-> "awsJson1", offered |-> Ops,
     inputs   |-> [op \in Ops |-> CASE op = "create" -> {"size"}
                                    [] op = "update" -> {"name", "size"}
                                    [] OTHER -> {"name"}],
     answers  |-> [op \in Ops |-> CASE op = "create" -> {"name"}
                                    [] op = "read" -> {"size"}
                                    [] OTHER -> {}],
     silent   |-> {"update", "destroy"}, labels |-> {}, params |-> {},
     lists    |-> {"size"}, computed |-> {"name"}, altered |-> {"size"},
     garbled  |-> {}, missing404 |-> FALSE]

\* SNS's topics: a parameter that is not a scalar, no update, 404 for what is
\* not there.
Topic ==
    [Queue EXCEPT !.protocol = "awsQuery", !.offered = {"create", "read", "destroy"},
                  !.altered = {}, !.missing404 = TRUE]

\* A read of two members.
Subscription == [Topic EXCEPT !.lists = {}, !.inputs["read"] = MCAttrs]

MCResourceTypes ==
    {Function, Environment, Versioned, Bucket, Located, Queue, Topic, Subscription}
=============================================================================

------------------------------ MODULE SmithyServer ------------------------------
(***************************************************************************)
(* internal/smithy/server and .../wireexec: the life cycle of one resource *)
(* of an AWS service described by a Smithy model, attribute by attribute.  *)
(* A handler turns a state into the members of an operation's input, binds *)
(* them the way the service's wire protocol says, makes one call, and      *)
(* completes the answer with the members that it sent.                     *)
(*                                                                         *)
(* A call is restexec's DoWithCodec, whose loop is that of RestExec: here  *)
(* an attempt is answered, lost, or left behind on its way.                *)
(***************************************************************************)
EXTENDS Naturals, FiniteSets

CONSTANTS
    Attrs,         \* attributes of the resource type's schema
    Key,           \* the one that names the object
    Values,        \* the values of every attribute
    Null, Unknown, None,
    ResourceTypes, \* what the Smithy model and its service may look like
    ReKeyed(_),    \* what reKeyToSnakeCase and a float64 may make of a value
    MaxObjs,       \* bound: how many objects the API ever creates
    MaxAttempts,   \* RetryPolicy.maxAttempts(): attempts of one call
    MaxStrays      \* bound: abandoned requests on their way at one time

Ops == {"create", "read", "update", "destroy"}

Protocols == {"restJson1", "restXml", "awsJson1", "awsQuery"}

\* offered: operations discovered.  inputs, answers: attributes that are
\* members of an operation's input, of its answer.  silent: operations
\* answered without a body.  labels: bound to the URI.  params: bound to the
\* query or a header.  lists: not scalar.  computed: left to the API.
\* altered: values that may come back otherwise, because they hold maps, whose
\* keys an answer has in snake case, or integers too wide for a float64.
\* garbled: members that may reach the service as something else than was
\* planned, because they hold structures, whose own members go out in snake
\* case, or such integers, or because they belong into the payload, the query
\* or the headers as a whole and go into the JSON body.
\* missing404: whether the service declares 404 for what it does not have.
SmithyTypes ==
    [protocol : Protocols, offered : SUBSET Ops,
     inputs : [Ops -> SUBSET Attrs], answers : [Ops -> SUBSET Attrs],
     silent : SUBSET Ops, labels : SUBSET Attrs, params : SUBSET Attrs,
     lists : SUBSET Attrs, computed : SUBSET Attrs,
     altered : SUBSET Attrs, garbled : SUBSET Attrs, missing404 : BOOLEAN]

\* Every operation on an existing object takes the key, which is a string,
\* and a read describes the object.  Which value is left of two whose keys
\* become one is open, as Go ranges over a map in any order.
ASSUME SmithyAssumption ==
    /\ Key \in Attrs
    /\ {Null, Unknown, None} \cap Values = {}
    /\ Cardinality({Null, Unknown, None}) = 3
    /\ MaxObjs \in Nat
    /\ MaxAttempts \in Nat \ {0}
    /\ MaxStrays \in Nat
    /\ ResourceTypes \subseteq SmithyTypes
    /\ \A rt \in ResourceTypes :
          /\ {"create", "read"} \subseteq rt.offered
          /\ \A op \in Ops \ {"create"} : Key \in rt.inputs[op]
          /\ rt.inputs["create"] # {}
          /\ "read" \notin rt.silent
          /\ Key \notin rt.altered \cup rt.garbled

ASSUME ReKeyedAssumption ==
    \A v \in Values : ReKeyed(v) \subseteq Values /\ ReKeyed(v) # {}

VARIABLES
    rt,        \* the resource type
    objects,   \* the objects that exist, by number
    made,      \* how many were ever created
    strays,    \* abandoned requests on their way
    reply,     \* the answer to the call in progress
    rpc,       \* the RPC in progress, or the last one with its response
    held,      \* the state ubx core has recorded, or None
    mine,      \* history: the object that state was answered for
    stale      \* history: it may have changed since

vars == <<rt, objects, made, strays, reply, rpc, held, mine, stale>>

Ids == 1..MaxObjs

IdOrNone == 0..MaxObjs

Objects == [Attrs -> Values]

States == [Attrs -> Values \cup {Null, Unknown}]

\* The members sent, Null for those that are not.
Inputs == [Attrs -> Values \cup {Null}]

ASSUME NoneAssumption == None \notin States \cup Objects

live == {i \in Ids : objects[i] # None}

HasValue(v) == v \in Values

\* The object an input names, 0 if there is none.
Named(input) ==
    LET found == {i \in live : objects[i][Key] = input[Key]}
    IN  IF found = {} THEN 0 ELSE CHOOSE i \in found : TRUE
-----------------------------------------------------------------------------
(* From a state to a request: stateAsMap and the wire protocols.            *)

AllNull == [a \in Attrs |-> Null]

\* An attribute that is null or unknown is not sent.
stateAsMap(state) == [a \in Attrs |-> IF HasValue(state[a]) THEN state[a] ELSE Null]

InputMemberNames(op) == rt.inputs[op]

Given(op, m) == {a \in InputMemberNames(op) : m[a] # Null}

\* A binder reads the members of the operation's own input from the map, and
\* nothing else.  Only their own names are turned back into the service's, so
\* that it may make anything of what lies deeper.
Arriving(members, m) ==
    {input \in Inputs : \A a \in Attrs :
        IF a \in members THEN a \in rt.garbled \/ input[a] = m[a] ELSE input[a] = Null}

\* Bug: members bound to the query or a header are not sent.
BodyAndLabels(op, m) == Arriving(Given(op, m) \ rt.params, m)

Bound(op, m) == Arriving(Given(op, m), m)

\* bindREST and substituteLabels: a label must have a value, and whatever goes
\* into the URI or a header must be a scalar.
bindREST(op, m) ==
    /\ InputMemberNames(op) \cap rt.labels \subseteq Given(op, m)
    /\ Given(op, m) \cap (rt.labels \cup rt.params) \cap rt.lists = {}

doRestJSON(op, m) == bindREST(op, m)

\* Request bodies are not implemented.
doRestXML(op, m) ==
    /\ bindREST(op, m)
    /\ Given(op, m) \subseteq rt.labels \cup rt.params

\* Parameters that are not scalars are not implemented.
doQuery(op, m) == Given(op, m) \cap rt.lists = {}

\* Whether Client.Do gets as far as sending a request.
Sendable(op, m) ==
    CASE rt.protocol = "restJson1" -> doRestJSON(op, m)
      [] rt.protocol = "restXml"   -> doRestXML(op, m)
      [] rt.protocol = "awsQuery"  -> doQuery(op, m)
      [] OTHER                     -> TRUE
-----------------------------------------------------------------------------
(* From an answer to a state.                                               *)

\* What an answer's value for an attribute may be read as.
ReadAs(a, v) == IF a \in rt.altered THEN ReKeyed(v) ELSE {v}

\* reKeyToSnakeCase and wire.FromJSON: the states an answer may be read as.  An
\* attribute it does not mention is null.
FromJSON(op, object) ==
    {s \in States : \A a \in Attrs :
        IF a \in rt.answers[op] THEN s[a] \in ReadAs(a, object[a]) ELSE s[a] = Null}

\* Bug: what was recorded or planned wins over the answer.
PriorWins(fresh, prior, carryForward) ==
    [a \in Attrs |-> IF a \in carryForward /\ prior[a] # Null THEN prior[a] ELSE fresh[a]]

mergeCarryForward(fresh, prior, carryForward) ==
    [a \in Attrs |-> IF a \in carryForward /\ fresh[a] = Null THEN prior[a] ELSE fresh[a]]

\* The same for an answer without a body, whose value is a null object:
\* tftypes.NewValue panics when an attribute of the schema is left out.
MergesWithNull(carryForward) == Attrs \subseteq carryForward
-----------------------------------------------------------------------------
(* The API.                                                                 *)

\* Bound to a name of its own choosing, or to the one it is sent.
NamesObject(input, k) ==
    /\ HasValue(k)
    /\ IF Key \in rt.computed
       THEN \A i \in 1..made : objects[i] # None => objects[i][Key] # k
       ELSE k = input[Key]

\* What a create makes of its input.
Stored(input, object) ==
    /\ NamesObject(input, object[Key])
    /\ \A a \in Attrs \ {Key} : input[a] # Null => object[a] = input[a]

Creates(input) ==
    /\ made < MaxObjs
    /\ Named(input) = 0
    /\ \E object \in Objects :
          /\ Stored(input, object)
          /\ objects' = [objects EXCEPT ![made + 1] = object]
    /\ made' = made + 1

\* What is not sent stays as it is.
Updates(input) ==
    /\ Named(input) # 0
    /\ objects' = [objects EXCEPT ![Named(input)] =
                      [a \in Attrs |-> IF input[a] # Null THEN input[a] ELSE @[a]]]
    /\ UNCHANGED made

Destroys(input) ==
    /\ Named(input) # 0
    /\ objects' = [objects EXCEPT ![Named(input)] = None]
    /\ UNCHANGED made

Performs(op, input) ==
    \/ op = "create" /\ Creates(input)
    \/ op = "update" /\ Updates(input)
    \/ op = "destroy" /\ Destroys(input)
    \/ op = "read" /\ Named(input) # 0 /\ UNCHANGED <<objects, made>>

\* The object an operation was about.
Subject(op, input) == IF op = "create" THEN made + 1 ELSE Named(input)

\* Other users of the API change and delete objects.
Elsewhere ==
    /\ \/ /\ \E i \in live, a \in Attrs \ {Key}, v \in Values :
                objects' = [objects EXCEPT ![i][a] = v]
          /\ UNCHANGED made
       \/ /\ \E i \in live : objects' = [objects EXCEPT ![i] = None]
          /\ UNCHANGED made
    /\ stale' = TRUE
    /\ UNCHANGED <<rt, strays, reply, rpc, held, mine>>
-----------------------------------------------------------------------------
(* State of the client and the server.                                      *)

Kinds == Ops \cup {"import"}

\* What a call comes back with: an answer, HTTP 404, another refusal, or an
\* error that tells nothing.
Classes == {"none", "ok", "notFound", "refused", "unclear"}

\* The object an answer describes, as it was then.
Replies == [class : Classes, id : IdOrNone, object : Objects \cup {None}]

NoReply == [class |-> "none", id |-> 0, object |-> None]

Outcomes == {"none", "state", "empty", "diag", "error", "panic"}

\* plan: the planned state of a write, the current one of a read.  input: the
\* members sent, as the service understands them.
Rpcs == [kind : Kinds, calling : BOOLEAN, plan : States, input : Inputs,
         tries : 0..MaxAttempts, outcome : Outcomes]

NoRpc == [kind |-> "read", calling |-> FALSE, plan |-> AllNull, input |-> AllNull,
          tries |-> 0, outcome |-> "none"]

Requests == [op : Ops, input : Inputs]

Op == IF rpc.kind = "import" THEN "read" ELSE rpc.kind

TypeOK ==
    /\ rt \in ResourceTypes
    /\ objects \in [Ids -> Objects \cup {None}]
    /\ made \in IdOrNone
    /\ strays \subseteq Requests
    /\ reply \in Replies
    /\ rpc \in Rpcs
    /\ held \in States \cup {None}
    /\ mine \in IdOrNone
    /\ stale \in BOOLEAN

Init ==
    /\ rt \in ResourceTypes
    /\ objects = [i \in Ids |-> None]
    /\ made = 0
    /\ strays = {}
    /\ reply = NoReply
    /\ rpc = NoRpc
    /\ held = None
    /\ mine = 0
    /\ stale = FALSE
-----------------------------------------------------------------------------
(* Core calls.                                                              *)

\* Whatever Client.Do reports before it sends anything is not an answer of
\* the API, and so an error that tells core nothing.
Begin(kind, op, plan, m) ==
    /\ \/ /\ Sendable(op, m)
          /\ \E input \in Bound(op, m) :
                rpc' = [kind |-> kind, calling |-> TRUE, plan |-> plan,
                        input |-> input, tries |-> 1, outcome |-> "none"]
       \/ /\ ~Sendable(op, m)
          /\ rpc' = [NoRpc EXCEPT !.kind = kind, !.outcome = "error"]
    /\ UNCHANGED <<rt, objects, made, strays, reply, held, mine, stale>>

MayAsk(kind) ==
    /\ ~rpc.calling
    /\ (held = None) <=> (kind \in {"create", "import"})

\* An early return: a type or a state that does not decode, an operation the
\* type does not have, a destroy nobody planned.
RefuseUnsent ==
    /\ \E kind \in Kinds :
          /\ MayAsk(kind)
          /\ rpc' = [NoRpc EXCEPT !.kind = kind, !.outcome = "diag"]
    /\ UNCHANGED <<rt, objects, made, strays, reply, held, mine, stale>>

\* PlanResourceChange plans what core proposes: a value or none for what is
\* configured, Unknown for what is left to the API, which in an update core
\* may also propose as it was.
Proposed(a) ==
    IF a \in rt.computed THEN {Unknown} \cup IF held = None THEN {} ELSE {held[a]}
    ELSE IF a = Key THEN IF held = None THEN Values ELSE {held[a]}
    ELSE Values \cup {Null}

Plans == {p \in States : \A a \in Attrs : p[a] \in Proposed(a)}

applyCreate ==
    /\ MayAsk("create")
    /\ \E planned \in Plans : Begin("create", "create", planned, stateAsMap(planned))

applyUpdate ==
    /\ MayAsk("update")
    /\ "update" \in rt.offered
    /\ \E planned \in Plans : Begin("update", "update", planned, stateAsMap(planned))

applyDestroy ==
    /\ MayAsk("destroy")
    /\ "destroy" \in rt.offered
    /\ Begin("destroy", "destroy", held, stateAsMap(held))

ReadResource ==
    /\ MayAsk("read")
    /\ Begin("read", "read", held, stateAsMap(held))

\* splitImportID: as many parts as a read has inputs, which are taken in the
\* order of an iteration over a map, that is in any.
ImportResourceState ==
    /\ MayAsk("import")
    /\ \E parts \in [InputMemberNames("read") -> Values] :
          Begin("import", "read", AllNull,
                [a \in Attrs |-> IF a \in InputMemberNames("read") THEN parts[a] ELSE Null])
-----------------------------------------------------------------------------
(* The call.                                                                *)

Calling == rpc.calling /\ reply.class = "none"

\* The attempt told nothing: try again, or give up, because the attempts are
\* spent, the context is done, or a 2xx arrived that cannot be read.
Inconclusive ==
    \/ /\ rpc.tries < MaxAttempts
       /\ rpc' = [rpc EXCEPT !.tries = @ + 1]
       /\ UNCHANGED reply
    \/ /\ reply' = [NoReply EXCEPT !.class = "unclear"]
       /\ UNCHANGED rpc

\* The API does what it is asked; its answer may still get lost.  An update
\* without an answer tells nothing of the attributes that it does not take.
Reaches ==
    /\ Calling
    /\ Performs(Op, rpc.input)
    /\ \/ /\ LET id == Subject(Op, rpc.input)
             IN  reply' = [class |-> "ok", id |-> id, object |-> objects'[id]]
          /\ stale' = (stale /\ Op = "update" /\ Op \in rt.silent)
          /\ UNCHANGED rpc
       \/ /\ Inconclusive
          /\ stale' = (stale \/ Op # "read")
    /\ UNCHANGED <<rt, strays, held, mine>>

\* No such object: 404 or, as IsNotFound's comment says of awsJson1_0, an HTTP
\* 400, whichever the service declares.  A request that names none is Refused.
Misses ==
    /\ Calling
    /\ Op # "create"
    /\ rpc.input[Key] # Null
    /\ Named(rpc.input) = 0
    /\ reply' = [NoReply EXCEPT !.class = IF rt.missing404 THEN "notFound" ELSE "refused"]
    /\ UNCHANGED <<rt, objects, made, strays, rpc, held, mine, stale>>

\* Refused for another reason: a missing member, a conflict, no permission.
Refused ==
    /\ Calling
    /\ reply' = [NoReply EXCEPT !.class = "refused"]
    /\ UNCHANGED <<rt, objects, made, strays, rpc, held, mine, stale>>

\* Nothing comes back.  The request may have been left on its way.
Lost ==
    /\ Calling
    /\ Inconclusive
    /\ \/ UNCHANGED strays
       \/ /\ Op # "read"
          /\ Cardinality(strays) < MaxStrays
          /\ strays' = strays \cup {[op |-> Op, input |-> rpc.input]}
    /\ UNCHANGED <<rt, objects, made, held, mine, stale>>

StrayLands ==
    /\ \E s \in strays :
          /\ strays' = strays \ {s}
          /\ Performs(s.op, s.input) \/ UNCHANGED <<objects, made>>
    /\ stale' = TRUE
    /\ UNCHANGED <<rt, reply, rpc, held, mine>>
-----------------------------------------------------------------------------
(* The handlers answer core.                                                *)

Respond(outcome, state, id) ==
    /\ rpc' = [NoRpc EXCEPT !.kind = rpc.kind, !.outcome = outcome]
    /\ reply' = NoReply
    /\ held' = state
    /\ mine' = id
    /\ UNCHANGED <<rt, objects, made, strays>>

Fail(outcome) == Respond(outcome, held, mine) /\ stale' = TRUE

Tell(state) == Respond("state", state, reply.id) /\ UNCHANGED stale

Forget == Respond("empty", None, 0) /\ stale' = FALSE

Answered(kind) == rpc.calling /\ rpc.kind = kind /\ reply.class = "ok"

\* classifyError; a read or a destroy knows 404 for what it is.
classifyError ==
    \/ /\ reply.class = "refused" \/ (reply.class = "notFound" /\ rpc.kind = "update")
       /\ Fail("diag")
    \/ /\ reply.class = "unclear"
       /\ Fail("error")

\* Bug: any refusal of a read or a destroy is taken for a missing object.
RefusedIsGone ==
    /\ reply.class \in {"notFound", "refused"}
    /\ \/ rpc.kind \in {"read", "destroy"} /\ Forget
       \/ rpc.kind = "import" /\ Fail("diag")

NotFound ==
    /\ reply.class = "notFound"
    /\ \/ rpc.kind \in {"read", "destroy"} /\ Forget
       \/ rpc.kind = "import" /\ Fail("diag")

\* The answer does not decode into the schema.
Undecodable ==
    /\ rpc.calling
    /\ reply.class = "ok"
    /\ rpc.kind # "destroy"
    /\ Op \notin rt.silent
    /\ Fail("diag")

CreateDone ==
    /\ Answered("create")
    /\ LET carry == InputMemberNames("create")
       IN  IF "create" \notin rt.silent
           THEN \E fresh \in FromJSON("create", reply.object) :
                    Tell(mergeCarryForward(fresh, rpc.plan, carry))
           ELSE IF MergesWithNull(carry) THEN Tell(rpc.plan)
           ELSE Fail("panic")

\* An update answered without a body has done what was planned.
UpdateDone ==
    /\ Answered("update")
    /\ \E fresh \in IF "update" \in rt.silent THEN {rpc.plan}
                    ELSE FromJSON("update", reply.object) :
          Tell(mergeCarryForward(fresh, rpc.plan, InputMemberNames("update")))

DestroyDone ==
    /\ Answered("destroy")
    /\ Forget

ReadDone ==
    /\ Answered("read")
    /\ \E fresh \in FromJSON("read", reply.object) :
          Tell(mergeCarryForward(fresh, rpc.plan, InputMemberNames("read")))

\* An import is not merged with the ID it was asked for.
ImportDone ==
    /\ Answered("import")
    /\ \E fresh \in FromJSON("read", reply.object) : Tell(fresh)

CoreCalls ==
    \/ applyCreate \/ applyUpdate \/ applyDestroy \/ ReadResource
    \/ ImportResourceState \/ RefuseUnsent

CallStep == Reaches \/ Misses \/ Refused \/ Lost

HandlerStep ==
    \/ classifyError \/ NotFound \/ Undecodable
    \/ CreateDone \/ UpdateDone \/ DestroyDone \/ ReadDone \/ ImportDone

Next == CoreCalls \/ CallStep \/ HandlerStep \/ StrayLands \/ Elsewhere

Spec == Init /\ [][Next]_vars
-----------------------------------------------------------------------------
(* Correctness.                                                             *)

\* The server keeps the promise to core that the other two keep
\* (LifecycleContract), whatever the wire protocol: core is told that an
\* object is gone only when it is, and is given the state only of an object
\* that was made.
Contract == INSTANCE LifecycleContract WITH
    held        <- mine,
    busy        <- IF rpc.calling THEN rpc.kind ELSE "none",
    outstanding <- \/ rpc.calling /\ rpc.kind = "create"
                   \/ \E s \in strays : s.op = "create"

KeepsContract == Contract!Spec

\* What is recorded for an attribute is what the object has, or what an answer
\* makes of it.
Shows(a, has, recorded) == recorded \in {has} \cup ReadAs(a, has)

\* A write answered with a state was carried out as planned: each planned
\* value that the operation takes is recorded, up to the keys of maps, and is
\* the object's when the API served it, through whichever part of the request
\* it went.  Members that go out under other names than the service's are not
\* (binding.go:14-23 promises it of them too).
WrittenAsPlanned ==
    [][\A kind \in {"create", "update"} :
         Answered(kind) /\ rpc'.outcome = "state" =>
           \A a \in rt.inputs[kind] \ rt.garbled : HasValue(rpc.plan[a]) =>
               /\ reply.object[a] = rpc.plan[a]
               /\ Shows(a, rpc.plan[a], held'[a])]_vars

\* A silent update records what was planned, also for an attribute that the
\* operation does not take and the request did not have.
SilentUpdatesTakeAll ==
    "update" \in rt.silent => Attrs \ rt.computed \subseteq rt.inputs["update"]

\* A read fills in what it sent and was not told, also for an attribute that
\* somebody has changed.
ReadsTellAll == rt.inputs["read"] \ {Key} \subseteq rt.answers["read"]

\* What is recorded is what the API has: as long as nobody touches the object
\* after the answer, every recorded value is the object's, up to the keys of
\* maps, wherever it came from (the answer, the request, or the state before),
\* and no recorded value outlives a change that an answer has shown.
StateIsTrue ==
    held # None /\ ~rpc.calling /\ ~stale /\ SilentUpdatesTakeAll /\ ReadsTellAll =>
        /\ mine \in live
        /\ \A a \in Attrs \ rt.garbled :
              HasValue(held[a]) => Shows(a, objects[mine][a], held[a])
=============================================================================

------------------------------ MODULE DynBuild ------------------------------
(***************************************************************************)
(* internal/dynserver/build.go and resourcemap.BuildDataSources: from a    *)
(* document to the types a provider serves.  Build discovers the resources *)
(* (Mapping), translates what each is made and read with, merges the two   *)
(* and sees to it that every parameter of its paths has an attribute to    *)
(* come from; the reads left over are built the same way.                  *)
(*                                                                         *)
(* How schemas are translated is a parameter here: BuildTypes gives what   *)
(* the code does (Translate).                                              *)
(***************************************************************************)
EXTENDS Mapping

CONSTANTS
    ParamName(_),           \* the name of a {parameter}
    PathAttr(_, _),         \* the nth name for a parameter whose own name is taken
    Merged(_, _, _),        \* the attributes of a request and an answer, merged
    Signals(_, _, _),       \* and their signals
    DataAttributes(_, _)    \* the attributes of a data source

\* Of whatever requests and answers.
ASSUME BuildAssumption ==
    \A d \in Docs : \A o, p \in d.ops :
        IsFiniteSet(DOMAIN Merged(d.schemas, o.request, p.response))

VARIABLES
    todo,       \* the resources Build has not come to yet
    types,      \* type name -> resource type
    dataTypes   \* type name -> attributes of a data source

buildVars == <<mappingVars, todo, types, dataTypes>>

Params(path) == {ParamName(path[i]) : i \in PathParams(path)}

\* The map f with v under k.
Put(f, k, v) == [j \in DOMAIN f \cup {k} |-> IF j = k THEN v ELSE f[j]]

Synthesized == [type |-> Scalar("string"), of |-> {}, required |-> TRUE, optional |-> FALSE,
                computed |-> FALSE, writeOnly |-> FALSE]

IsText(attr) == attr.type.is \in {"string", "integer"}

FreeName(p, attrs) ==
    PathAttr(p, CHOOSE n \in 1..(Cardinality(DOMAIN attrs) + 1) :
                   /\ PathAttr(p, n) \notin DOMAIN attrs
                   /\ \A k \in 1..(n - 1) : PathAttr(p, k) \in DOMAIN attrs)

\* Bug: an attribute of the name will do, whatever it is.
WithParamAnyType(acc, p) ==
    IF p \in DOMAIN acc.attrs THEN acc ELSE [acc EXCEPT !.attrs = Put(@, p, Synthesized)]

WithParam(acc, p) ==
    IF p \notin DOMAIN acc.attrs THEN [acc EXCEPT !.attrs = Put(@, p, Synthesized)]
    ELSE IF IsText(acc.attrs[p]) THEN acc
    ELSE LET name == FreeName(p, acc.attrs)
         IN  [attrs |-> Put(acc.attrs, name, Synthesized), renames |-> Put(acc.renames, p, name)]

\* In the order the parameters have in the path.
EnsurePathParamsPresent(attrs, path) ==
    LET after[i \in 0..Len(path)] ==
            IF i = 0 THEN [attrs |-> attrs, renames |-> <<>>]
            ELSE IF i \in PathParams(path) THEN WithParam(after[i - 1], ParamName(path[i]))
            ELSE after[i - 1]
    IN  after[Len(path)]

AttributesOf(r) == Merged(doc.schemas, r.create.request, r.read.response)

ResourceType(r) ==
    LET read   == EnsurePathParamsPresent(AttributesOf(r), r.read.path)
        create == EnsurePathParamsPresent(read.attrs, r.create.path)
    IN  [resource            |-> r,
         attrs               |-> create.attrs,
         pathParamAttr       |-> read.renames,
         createPathParamAttr |-> create.renames,
         signals             |-> Signals(doc.schemas, r.create.request, r.read.response)]

StartBuild ==
    /\ step = "discover"
    /\ Discover
    /\ todo' = found'
    /\ UNCHANGED <<types, dataTypes>>

\* One round of Build's loop.  Of two resources of one name, the map keeps
\* the later one.
BuildResource ==
    /\ step = "build"
    /\ \E r \in todo :
          /\ \A q \in todo : ~SortsBefore(q.type, r.type)
          /\ todo' = todo \ {r}
          /\ IF AttributesOf(r) = NoAttributes
             THEN notes' = notes \cup {r.read.path} /\ UNCHANGED types
             ELSE types' = Put(types, r.type, ResourceType(r)) /\ UNCHANGED notes
    /\ UNCHANGED <<doc, putFirst, found, dataSources, step, dataTypes>>

BuildDone ==
    /\ step = "build"
    /\ todo = {}
    /\ step' = "data"
    /\ UNCHANGED <<doc, putFirst, found, dataSources, notes, todo, types, dataTypes>>

StartDataSources ==
    /\ DiscoverDataSources
    /\ UNCHANGED <<todo, types, dataTypes>>

BuildDataSources ==
    /\ step = "buildData"
    /\ LET built == [t \in DOMAIN dataSources |->
                        DataAttributes(doc.schemas, dataSources[t])]
       IN  /\ dataTypes' = [t \in {u \in DOMAIN built : built[u] # NoAttributes} |-> built[t]]
           /\ notes' = notes \cup
                 {dataSources[t].path : t \in {u \in DOMAIN built : built[u] = NoAttributes}}
    /\ step' = "done"
    /\ UNCHANGED <<doc, putFirst, found, dataSources, todo, types>>

BuildInit ==
    /\ MappingInit
    /\ todo = {}
    /\ types = <<>>
    /\ dataTypes = <<>>

BuildNext ==
    \/ StartBuild \/ BuildResource \/ BuildDone
    \/ StartDataSources \/ BuildDataSources

BuildSpec == BuildInit /\ [][BuildNext]_buildVars
-----------------------------------------------------------------------------
(* Correctness *)

ResourcePaths == {types[t].resource.read.path : t \in DOMAIN types}

DataPaths == {dataSources[t].path : t \in DOMAIN dataTypes}

\* Every operation that reads something is offered or reported.  A resource
\* is not lost to another of its name on the way from Discover to Build, and
\* what is no resource is a data source or reported as neither.
EveryReadIsAccountedFor ==
    NoTwinNames(doc.ops) =>
        /\ step = "data" => \A r \in Reads(doc.ops) : r.path \in ResourcePaths \cup notes
        /\ step = "done" => \A o \in doc.ops :
               o.method = "GET" => o.path \in ResourcePaths \cup DataPaths \cup notes

\* Whatever attributes a type has of its own, each parameter of its paths has
\* an attribute that a URL can be built from, and no attribute of the API's
\* has made way for it.
AttrOf(renames, p) == IF p \in DOMAIN renames THEN renames[p] ELSE p

ParamsAreUsable ==
    \A t \in DOMAIN types :
        LET type == types[t]
            Usable(p, renames) ==
                /\ AttrOf(renames, p) \in DOMAIN type.attrs
                /\ IsText(type.attrs[AttrOf(renames, p)])
        IN  /\ \A p \in Params(type.resource.read.path) : Usable(p, type.pathParamAttr)
            /\ \A p \in Params(type.resource.create.path) : Usable(p, type.createPathParamAttr)
            /\ \A n \in DOMAIN AttributesOf(type.resource) :
                  n \in DOMAIN type.attrs /\ type.attrs[n] = AttributesOf(type.resource)[n]
=============================================================================

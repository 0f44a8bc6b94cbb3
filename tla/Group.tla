--------------------------------- MODULE Group ---------------------------------
(***************************************************************************)
(* A pinned group served as one provider: internal/snapshot/mergegroup.go  *)
(* merges the members of one source, the builders of main.go make a        *)
(* sub-server of each source, and internal/mixedserver routes a request to *)
(* the sub-server that owns its type.                                      *)
(*                                                                         *)
(* Several members may contribute the same type.  The snapshot's exclude   *)
(* table says whose copy loses: a member's within its source, a whole      *)
(* source's between sources.  A collision it does not decide must stop the *)
(* launch.                                                                 *)
(***************************************************************************)
EXTENDS Naturals

CONSTANTS
    Members,    \* the members' names, numbered in their sorted order
    Sources,    \* the sources they may come from
    Types       \* names of resource types and data sources

\* No member, no source.
None == 0

\* The sources there are, numbered in the sorted order of their names.
CloudFormation == 1
DiscoveryDocs  == 2
OpenAPI        == 3
Smithy         == 4

ASSUME GroupAssumption ==
    /\ Members \subseteq Nat \ {None}
    /\ Members # {}
    /\ Sources \subseteq 1..4

Roles == {"resource", "data"}

Phases == {"merging", "serving", "refused"}

Reasons == {"none", "member", "models", "collision", "empty"}

VARIABLES
    group,      \* the snapshot
    phase,      \* of the launch
    reason,     \* why it was refused
    src,        \* the source whose sub-server is being built
    merged,     \* its members merged so far
    sub,        \* per source, role and type: the member whose copy is kept
    client,     \* per source and type: the member whose client is used
    placedBy,   \* per role and type: the source whose copy is offered
    schemas,    \* per role and type: the member whose schema is offered
    owner,      \* per role and type: the source requests are routed to
    answer      \* the last request and what became of it

pipeline == <<phase, reason, src, merged, sub, client>>

tables == <<placedBy, schemas, owner>>

vars == <<group, pipeline, tables, answer>>

\* CloudFormation has no data sources: a member of one is never generated.
Groups ==
    {g \in [source : [Members -> Sources], role : [Members -> Roles],
            types : [Members -> SUBSET Types], loses : [Members -> SUBSET Types],
            sourceLoses : [Sources -> SUBSET Types]] :
        \A m \in Members : g.source[m] = CloudFormation => g.role[m] = "resource"}

MemberOrNone == Members \cup {None}

SourceOrNone == Sources \cup {None}

Answers == [role : Roles, type : Types, outcome : {"unknown", "unsupported", "handled"},
            member : MemberOrNone, via : MemberOrNone]

NoAnswer == [outcome |-> "none"]

\* SubsetBySource.
InSource(s) == {m \in Members : group.source[m] = s}

TypeOK ==
    /\ group \in Groups
    /\ phase \in Phases
    /\ reason \in Reasons
    /\ src \in Sources
    /\ merged \subseteq InSource(src)
    /\ sub \in [Sources -> [Roles -> [Types -> MemberOrNone]]]
    /\ client \in [Sources -> [Types -> MemberOrNone]]
    /\ placedBy \in [Roles -> [Types -> SourceOrNone]]
    /\ schemas \in [Roles -> [Types -> MemberOrNone]]
    /\ owner \in [Roles -> [Types -> SourceOrNone]]
    /\ answer \in Answers \cup {NoAnswer}

\* MemberNamesByMode.
InRole(s, r) == {m \in InSource(s) : group.role[m] = r}

\* DistinctSources.
Present == {s \in Sources : InSource(s) # {}}

Least(S) == CHOOSE x \in S : \A y \in S : x <= y

Nowhere == [r \in Roles |-> [t \in Types |-> None]]

Init ==
    /\ group \in Groups
    /\ phase = "merging"
    /\ reason = "none"
    /\ src = Least(Present)
    /\ merged = {}
    /\ sub = [s \in Sources |-> Nowhere]
    /\ client = [s \in Sources |-> [t \in Types |-> None]]
    /\ placedBy = Nowhere
    /\ schemas = Nowhere
    /\ owner = Nowhere
    /\ answer = NoAnswer
-----------------------------------------------------------------------------
(* mergeWithExclude.                                                        *)

\* placed: who each type is placed by.  A newcomer, name, contributes some.

\* Bug: only the newcomer may lose.
UndecidedUnlessNewcomerLoses(placed, contributed, name, loses) ==
    \E t \in contributed : placed[t] # None /\ t \notin loses[name]

\* Both have the type, and neither copy is named as the loser.
Undecided(placed, contributed, name, loses) ==
    \E t \in contributed :
        placed[t] # None /\ t \notin loses[name] /\ t \notin loses[placed[t]]

\* Bug: an excluded copy is left out, collision or not.
MergedWithoutExcluded(placed, contributed, name, loses) ==
    [t \in Types |->
        IF /\ t \in contributed
           /\ t \notin loses[name]
        THEN name ELSE placed[t]]

\* Bug: the first copy stays.
MergedFirstStays(placed, contributed, name, loses) ==
    [t \in Types |-> IF t \in contributed /\ placed[t] = None THEN name ELSE placed[t]]

\* The newcomer's copy is taken where there is none, or one that loses to it.
Merged(placed, contributed, name, loses) ==
    [t \in Types |->
        IF /\ t \in contributed
           /\ placed[t] # None => t \notin loses[name] /\ t \in loses[placed[t]]
        THEN name ELSE placed[t]]
-----------------------------------------------------------------------------
(* The launch.                                                              *)

Refuse(why) ==
    /\ phase' = "refused"
    /\ reason' = why
    /\ UNCHANGED <<group, src, merged, sub, client, tables, answer>>

\* A Smithy sub-server has the model and the client of one member only.
TooManyModels ==
    src = Smithy /\ \E m, n \in InRole(Smithy, "resource") : m # n

RefuseModels == phase = "merging" /\ TooManyModels /\ Refuse("models")

\* Resource members first, then data sources, each in the order of their names.
MergedBefore(n, m) ==
    \/ group.role[n] = "resource" /\ group.role[m] = "data"
    \/ group.role[n] = group.role[m] /\ n < m

\* One member's contributions are merged into its source's.
MergeMember ==
    /\ phase = "merging"
    /\ ~TooManyModels
    /\ \E m \in InSource(src) \ merged :
        /\ \A n \in InSource(src) \ merged : n = m \/ MergedBefore(m, n)
        /\ LET placed == sub[src][group.role[m]]
               undecided == Undecided(placed, group.types[m], m, group.loses)
           IN  \/ /\ undecided
                  /\ Refuse("collision")
               \/ /\ ~undecided
                  /\ sub' = [sub EXCEPT ![src][group.role[m]] =
                                Merged(placed, group.types[m], m, group.loses)]
                  /\ merged' = merged \cup {m}
                  /\ UNCHANGED <<group, phase, reason, src, client, tables, answer>>

\* The types the source's sub-server has.
Has(s, r) == {t \in Types : sub[s][r][t] # None}

AllMerged == phase = "merging" /\ ~TooManyModels /\ merged = InSource(src)

RefuseEmpty ==
    /\ AllMerged
    /\ \A r \in Roles : Has(src, r) = {}
    /\ Refuse("empty")

\* Whose client carries out what the sub-server does to a type: the member's
\* own (OpenAPI), that of the first, or only, resource member (CloudFormation,
\* Smithy), or nobody's (DiscoveryDocs).
ClientOf(t) ==
    IF sub[src]["resource"][t] = None \/ src = DiscoveryDocs THEN None
    ELSE IF src = OpenAPI THEN sub[src]["resource"][t]
    ELSE Least(InRole(src, "resource"))

\* A member does not load, or a client cannot be built.
MemberFails ==
    /\ phase = "merging"
    /\ ~TooManyModels
    /\ merged # InSource(src) \/ \E t \in Types : ClientOf(t) # None
    /\ Refuse("member")

CollidesAcross ==
    \E r \in Roles : Undecided(placedBy[r], Has(src, r), src, group.sourceLoses)

RefuseAcross ==
    /\ AllMerged
    /\ CollidesAcross
    /\ Refuse("collision")

Later == {s \in Present : s > src}

\* Where the types go once the source is added.
NewPlaces ==
    [r \in Roles |-> Merged(placedBy[r], Has(src, r), src, group.sourceLoses)]

NewSchemas ==
    [r \in Roles |-> [t \in Types |->
        IF NewPlaces[r][t] = src THEN sub[src][r][t] ELSE schemas[r][t]]]

\* Bug: a type that is routed already stays routed.
OwnersKept ==
    [r \in Roles |-> [t \in Types |->
        IF NewPlaces[r][t] = src /\ owner[r][t] = None THEN src ELSE owner[r][t]]]

NewOwners ==
    [r \in Roles |-> [t \in Types |->
        IF NewPlaces[r][t] = src THEN src ELSE owner[r][t]]]

\* The last source starts the service.
NextSource ==
    IF Later = {}
    THEN phase' = "serving" /\ UNCHANGED <<src, merged>>
    ELSE src' = Least(Later) /\ merged' = {} /\ UNCHANGED phase

\* The sub-server is built, and its types merged with those of the sources
\* before it.  (A group of one source is served by its sub-server itself,
\* which offers and handles the same.)
AddSource ==
    /\ AllMerged
    /\ \E r \in Roles : Has(src, r) # {}
    /\ ~CollidesAcross
    /\ client' = [client EXCEPT ![src] = [t \in Types |-> ClientOf(t)]]
    /\ placedBy' = NewPlaces
    /\ schemas' = NewSchemas
    /\ owner' = NewOwners
    /\ NextSource
    /\ UNCHANGED <<group, reason, sub, answer>>
-----------------------------------------------------------------------------
(* Requests.                                                                *)

\* A request about a resource goes to the owner, which looks the type up
\* among its own resources.
RequestResource(t) ==
    LET o == owner["resource"][t]
        known == o # None /\ sub[o]["resource"][t] # None
    IN  answer' = [role    |-> "resource",
                   type    |-> t,
                   outcome |-> IF known THEN "handled" ELSE "unknown",
                   member  |-> IF known THEN sub[o]["resource"][t] ELSE None,
                   via     |-> IF known THEN client[o][t] ELSE None]

\* ReadDataSource and ValidateDataResourceConfig are refused by every
\* sub-server there is.
RequestData(t) ==
    answer' = [role    |-> "data",
               type    |-> t,
               outcome |-> IF owner["data"][t] = None THEN "unknown" ELSE "unsupported",
               member  |-> None,
               via     |-> None]

Request ==
    /\ phase = "serving"
    /\ \E t \in Types : RequestResource(t) \/ RequestData(t)
    /\ UNCHANGED <<group, pipeline, tables>>

Launch ==
    \/ MergeMember
    \/ AddSource
    \/ RefuseModels
    \/ RefuseEmpty
    \/ RefuseAcross
    \/ MemberFails

Next == Launch \/ Request

Spec == Init /\ [][Next]_vars
-----------------------------------------------------------------------------
(* Correctness.                                                             *)

Contributes(m, r, t) == group.role[m] = r /\ t \in group.types[m]

\* The exclude table is all that decides between copies: one it does not name,
\* neither by member nor by source, is the one offered.  So where two
\* members' copies are not named, nothing is served (ErrDuplicateWireType).
UnnamedCopyIsOffered ==
    phase = "serving" =>
        \A m \in Members, r \in Roles, t \in Types :
            /\ Contributes(m, r, t)
            /\ t \notin group.loses[m]
            /\ t \notin group.sourceLoses[group.source[m]]
            => schemas[r][t] = m

\* The provider offers what its members contribute, each type's schema from
\* one that has it: excluding a copy never drops a type.
OffersTheUnion ==
    phase = "serving" =>
        \A r \in Roles, t \in Types :
            IF \E m \in Members : Contributes(m, r, t)
            THEN schemas[r][t] # None /\ Contributes(schemas[r][t], r, t)
            ELSE schemas[r][t] = None

\* A request about a resource is handled by the member whose schema core was
\* given, and reaches the API with no other member's client; only a type that
\* is not offered is unknown.  (CloudFormation's members share a client.)
RequestsGoHome ==
    answer.outcome # "none" /\ answer.role = "resource" =>
        /\ answer.outcome = "handled" <=> schemas["resource"][answer.type] # None
        /\ answer.member = schemas["resource"][answer.type]
        /\ \/ answer.via \in {None, answer.member}
           \/ group.source[answer.member] = CloudFormation

\* The copies of members m and n collide, and the exclude table does not say
\* which one loses.
TrueCollision(m, n, t) ==
    /\ m # n
    /\ group.role[m] = group.role[n]
    /\ t \in group.types[m] \cap group.types[n]
    /\ IF group.source[m] = group.source[n]
       THEN t \notin group.loses[m] \cup group.loses[n]
       ELSE t \notin group.sourceLoses[group.source[m]] \cup
                     group.sourceLoses[group.source[n]]

\* A launch is never refused for a collision that the exclude table decides,
\* nor for a source that has something to serve.
RefusedForCause ==
    /\ reason = "collision" =>
          \E m, n \in Members, t \in Types : TrueCollision(m, n, t)
    /\ reason = "empty" =>
          \E s \in Present : \A m \in InSource(s) : group.types[m] = {}
=============================================================================

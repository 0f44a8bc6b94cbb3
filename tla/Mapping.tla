------------------------------- MODULE Mapping -------------------------------
(***************************************************************************)
(* internal/resourcemap: which operations of an OpenAPI document make a    *)
(* resource, and what its type is called; the reads that are left over as  *)
(* data sources; with dsfilter and typename, which both use.               *)
(*                                                                         *)
(* Words are numbers, ordered as their spellings are: a path is a sequence *)
(* of words, a type name too.  An operation is a record:                   *)
(*   method, path                                                          *)
(*   verbs   what its operation id says, of "create", "action" and "watch" *)
(*   request, response   the schemas of its body and of its answer, which  *)
(*           doc.schemas has, or NoSchema                                  *)
(*   ref     the name of the latter: service, version, noun, or NoName     *)
(*   items   the name of the items it wraps, if it is a collection         *)
(*   params  the parameters it declares, with their schemas                *)
(* Of the schemas, named are the document's components, which a property    *)
(* refers to by name.                                                       *)
(***************************************************************************)
EXTENDS Schemas, Naturals, Sequences, FiniteSets

CONSTANTS
    Docs,           \* documents: their operations (ops), schemas and named
    Provider,       \* the provider's name, in words
    IsParam(_),     \* the path segment is a {parameter}
    Stem(_),        \* of a segment {parameter}:action the parameter, or NoStem
    IsWatch(_),     \* the path segment is "watch" or "watches"
    IsExcluded(_),  \* the noun has one of the words dsfilter leaves out
    IsStatus(_),    \* the name contains "operation"
    Versions,       \* version words
    Priority(_)     \* of a version word: <<tier, major, prerelease>>

NoStem == 0

\* A schema without a name in the document; a name without a version.
NoName == [service |-> <<>>, version |-> 0, noun |-> <<>>]

Unversioned == 0

ListWord == 99  \* "list", the suffix of a collection's noun

NewWord == 1    \* the segment below which new versions are published

RefNames == [service : Seq(Nat), version : Versions \cup {Unversioned}, noun : Seq(Nat)]

\* A path has one operation of a method.
IsOperations(ops) ==
    /\ IsFiniteSet(ops)
    /\ \A o \in ops :
          /\ DOMAIN o = {"method", "path", "verbs", "request", "response", "ref", "items", "params"}
          /\ o.method \in {"GET", "POST", "PUT", "PATCH", "DELETE"}
          /\ o.path \in Seq(Nat) \ {<<>>}
          /\ {o.ref, o.items} \subseteq RefNames
    /\ \A o, p \in ops : o.path = p.path /\ o.method = p.method => o = p

ASSUME MappingAssumption ==
    /\ Provider \in Seq(Nat)
    /\ Versions \subseteq Nat \ {Unversioned}
    /\ \A v \in Versions : Priority(v) \in Seq(Nat)
    /\ ~IsParam(NewWord)
    /\ \A d \in Docs :
          /\ IsOperations(d.ops)
          /\ d.named \subseteq DOMAIN d.schemas
          /\ \A o \in d.ops : /\ o.path[1] # NewWord
                              /\ {o.request, o.response} \subseteq DOMAIN d.schemas \cup {NoSchema}

VARIABLES
    doc,         \* the document
    putFirst,    \* the paths whose PUT was ranged over before their POST
    found,       \* Discover's resources
    dataSources, \* DiscoverDataSources' candidates: type name -> operation
    notes,       \* the paths reported to make nothing, or nothing complete
    step         \* "discover", "build", "data", "buildData", "done"

mappingVars == <<doc, putFirst, found, dataSources, notes, step>>

-----------------------------------------------------------------------------
(* Orders *)

SortsBefore(s, t) ==
    \/ \E i \in DOMAIN s \cap DOMAIN t : /\ s[i] < t[i]
                                         /\ \A j \in 1..(i - 1) : s[j] = t[j]
    \/ Len(s) < Len(t) /\ \A i \in DOMAIN s : s[i] = t[i]

PathParams(path) == {i \in DOMAIN path : IsParam(path[i])}

EndsInPathParam(path) == IsParam(path[Len(path)])

IsLiteral(segment) == ~IsParam(segment) /\ Stem(segment) = NoStem

\* The library ranges over paths with fewest parameters first, from the last.
MatchesBefore(p, q) ==
    \/ Cardinality(PathParams(p)) < Cardinality(PathParams(q))
    \/ Cardinality(PathParams(p)) = Cardinality(PathParams(q)) /\ SortsBefore(q, p)

\* Two operations of one path come in the order the map of methods was
\* ranged over.
RangedBefore(a, b, first) ==
    \/ MatchesBefore(a.path, b.path)
    \/ a.path = b.path /\ a.method = (IF a.path \in first THEN "PUT" ELSE "POST")

First(ops, first) == CHOOSE o \in ops : \A p \in ops \ {o} : RangedBefore(o, p, first)

-----------------------------------------------------------------------------
(* Names *)

\* deriveNoun without a schema name: the last segment without a parameter.
LastLiteral(path) ==
    LET literals == {i \in DOMAIN path : IsLiteral(path[i])}
    IN  IF literals = {} THEN 0 ELSE path[CHOOSE i \in literals : \A j \in literals : j <= i]

NameFor(ref, path) ==
    IF ref # NoName THEN ref ELSE [NoName EXCEPT !.noun = <<LastLiteral(path)>>]

\* The longest overlap of the end of the provider's name with the beginning.
Overlap(tail) ==
    LET fits == {k \in 1..Len(tail) : /\ k <= Len(Provider)
                                      /\ \A i \in 1..k : Provider[Len(Provider) - k + i] = tail[i]}
    IN  IF fits = {} THEN 0 ELSE CHOOSE k \in fits : \A l \in fits : l <= k

WithoutOverlap(tail) == SubSeq(tail, Overlap(tail) + 1, Len(tail))

\* Until nothing overlaps: each round but the last takes off a word.
Trimmed(tail) ==
    LET rest[n \in 0..Len(tail)] == IF n = 0 THEN tail ELSE WithoutOverlap(rest[n - 1])
    IN  rest[Len(tail)]

Combine(service, noun) == Provider \o Trimmed(service \o noun)

VersionedName(n) == Provider \o n.service \o <<n.version>> \o n.noun

-----------------------------------------------------------------------------
(* Finding the create operation of an item path *)

Reads(ops) == {o \in ops : o.method = "GET" /\ EndsInPathParam(o.path)}

Creates(ops) == {o \in ops : o.method \in {"POST", "PUT"}}

ParentCollection(path) == SubSeq(path, 1, Len(path) - 1)

\* Parameters match whatever they are called.
PathIsSelfOrParentCollection(read, other) ==
    /\ Len(other) \in {Len(read) - 1, Len(read)}
    /\ \A i \in DOMAIN other : /\ IsParam(other[i]) <=> IsParam(read[i])
                               /\ ~IsParam(other[i]) => other[i] = read[i]

\* Bug: what the properties refer to is not compared.
SameTopLevelNames(a, b) ==
    /\ doc.schemas[a].props # <<>>
    /\ DOMAIN doc.schemas[a].props = DOMAIN doc.schemas[b].props

\* The same names, and the same component wherever one of the two is one.
SameTopLevelProperties(a, b) ==
    LET p == doc.schemas[a].props
        q == doc.schemas[b].props
    IN  /\ p # <<>>
        /\ DOMAIN p = DOMAIN q
        /\ \A n \in DOMAIN p : p[n] = q[n] \/ {p[n], q[n]} \cap doc.named = {}

Matches(ops, read) ==
    {o \in Creates(ops) :
        /\ o.response # NoSchema
        /\ \/ o.ref # NoName /\ o.ref = read.ref
           \/ /\ o.ref = NoName /\ read.ref = NoName
              /\ PathIsSelfOrParentCollection(read.path, o.path)
              /\ SameTopLevelProperties(read.response, o.response)}

Preferred(a, b, first) ==
    \/ Cardinality(PathParams(a.path)) < Cardinality(PathParams(b.path))
    \/ Cardinality(PathParams(a.path)) = Cardinality(PathParams(b.path)) /\ SortsBefore(a.path, b.path)
    \/ a.path = b.path /\ RangedBefore(a, b, first)

OnParent(ops, read) ==
    {o \in ops : o.method = "POST" /\ o.path = ParentCollection(read.path)}

\* SamePathAction: one literal segment more, or ":action" after the last one.
ActionOn(read, path) ==
    \/ /\ Len(path) = Len(read) + 1
       /\ \A i \in DOMAIN read : path[i] = read[i]
       /\ IsLiteral(path[Len(path)])
    \/ /\ Len(path) = Len(read)
       /\ \A i \in 1..(Len(read) - 1) : path[i] = read[i]
       /\ ~IsParam(path[Len(path)]) /\ Stem(path[Len(path)]) = read[Len(read)]

\* dsfilter's five rules, about a noun, the path of a read, what an operation
\* id says, and the name of what is answered with.
Excluded(noun, path, verbs, ref) ==
    \/ \E i \in DOMAIN path : IsWatch(path[i])
    \/ "watch" \in verbs
    \/ IsExcluded(noun)
    \/ IsStatus(ref)

\* An operation that is excluded is passed over.
Allowlisted(ops, read) ==
    {o \in Creates(ops) :
        /\ \/ o.path = read.path /\ {"create", "action"} \cap o.verbs # {}
           \/ ActionOn(read.path, o.path) /\ "action" \in o.verbs
        /\ ~Excluded(NameFor(read.ref, read.path).noun, read.path, o.verbs, read.ref)}

\* findCreate, findAllowlistedCreate: at most one operation.
CreateOf(ops, read, first) ==
    IF Matches(ops, read) # {}
    THEN {CHOOSE o \in Matches(ops, read) :
             \A p \in Matches(ops, read) \ {o} : Preferred(o, p, first)}
    ELSE IF OnParent(ops, read) # {} THEN OnParent(ops, read)
    ELSE IF Allowlisted(ops, read) # {}
    THEN {First(Allowlisted(ops, read), first)}
    ELSE {}

-----------------------------------------------------------------------------
(* Discover *)

Candidates(ops, first) ==
    {r \in Reads(ops) : r.response # NoSchema /\ CreateOf(ops, r, first) # {}}

BaseName(r) ==
    LET n == NameFor(r.ref, r.path) IN Combine(n.service, n.noun)

Version(r) == r.ref.version

Higher(v, w) == SortsBefore(Priority(w), Priority(v))

\* Bug: the first by path keeps the name.
OutranksByPath(a, b) == SortsBefore(a.path, b.path)

\* The order in which the candidates of one base name are considered.
Outranks(a, b) ==
    CASE Version(a) # Unversioned /\ Version(b) # Unversioned
            /\ Priority(Version(a)) # Priority(Version(b)) -> Higher(Version(a), Version(b))
      [] (Version(a) # Unversioned) # (Version(b) # Unversioned) -> Version(a) # Unversioned
      [] OTHER -> SortsBefore(a.path, b.path)

Rivals(r, cands) == {c \in cands \ {r} : BaseName(c) = BaseName(r)}

Wins(r, cands) == \A c \in Rivals(r, cands) : Outranks(r, c)

\* Candidates are considered base name by base name, the best ones first.
ConsideredBefore(a, b) ==
    \/ SortsBefore(BaseName(a), BaseName(b))
    \/ BaseName(a) = BaseName(b) /\ Outranks(a, b)

NameWanted(r, cands) == IF Wins(r, cands) THEN BaseName(r) ELSE VersionedName(r.ref)

\* Bug: seenTypeNames is not asked for versioned names.
NamedUnlessUnversioned(r, cands) == Wins(r, cands) \/ Version(r) # Unversioned

\* A winner is given its name whoever has it.  A loser has a versioned name
\* to fall back on, unless that was given away before.
Named(r, cands) ==
    \/ Wins(r, cands)
    \/ /\ Version(r) # Unversioned
       /\ \A c \in cands \ {r} :
             ConsideredBefore(c, r) /\ (Wins(c, cands) \/ Version(c) # Unversioned)
                 => NameWanted(c, cands) # NameWanted(r, cands)

Resource(ops, r, type, first) ==
    [type   |-> type,
     read   |-> r,
     create |-> CHOOSE o \in CreateOf(ops, r, first) : TRUE,
     update |-> IF \E o \in ops : o.path = r.path /\ o.method = "PATCH" THEN "PATCH"
                ELSE IF \E o \in ops : o.path = r.path /\ o.method = "PUT" THEN "PUT" ELSE "none",
     delete |-> \E o \in ops : o.path = r.path /\ o.method = "DELETE"]

Discovered(ops, first) ==
    LET cands == Candidates(ops, first)
    IN  {Resource(ops, r, NameWanted(r, cands), first) : r \in {c \in cands : Named(c, cands)}}

\* A read that makes no resource is reported.
NotedReads(ops, first) ==
    LET cands == Candidates(ops, first)
    IN  {r.path : r \in {c \in Reads(ops) : c \notin cands \/ ~Named(c, cands)}}

\* The paths where the order of the methods can be seen.
Tied(ops) == {o.path : o \in {p \in ops : p.method = "POST"}}
             \cap {o.path : o \in {p \in ops : p.method = "PUT"}}

Discover ==
    /\ step = "discover"
    /\ \E first \in SUBSET Tied(doc.ops) :
          /\ putFirst' = first
          /\ found' = Discovered(doc.ops, first)
          /\ notes' = notes \cup NotedReads(doc.ops, first)
    /\ step' = "build"
    /\ UNCHANGED <<doc, dataSources>>

-----------------------------------------------------------------------------
(* DiscoverDataSources *)

\* A collection is called after its items, with a suffix.
DataName(o) ==
    IF o.items # NoName
    THEN Combine(o.items.service, o.items.noun \o <<ListWord>>)
    ELSE BaseName(o)

DataNoun(o) ==
    IF o.items # NoName THEN o.items.noun \o <<ListWord>> ELSE NameFor(o.ref, o.path).noun

\* It discovers the resources anew to know what they read.
Unclaimed(ops, first) ==
    {o \in ops : /\ o.method = "GET"
                 /\ o.path \notin {r.read.path : r \in Discovered(ops, first)}}

Served(o) == o.response # NoSchema /\ ~Excluded(DataNoun(o), o.path, o.verbs, o.ref)

FirstOfName(o, others) ==
    \A p \in others : Served(p) /\ DataName(p) = DataName(o) => ~SortsBefore(p.path, o.path)

DiscoverDataSources ==
    /\ step = "data"
    /\ \E first \in SUBSET Tied(doc.ops) :
          LET open == Unclaimed(doc.ops, first)
              kept == {o \in open : Served(o) /\ FirstOfName(o, open)}
          IN  /\ dataSources' = [t \in {DataName(o) : o \in kept} |->
                                    CHOOSE o \in kept : DataName(o) = t]
              /\ notes' = notes \cup {o.path : o \in open \ kept}
    /\ step' = "buildData"
    /\ UNCHANGED <<doc, putFirst, found>>

MappingInit ==
    /\ doc \in Docs
    /\ putFirst = {}
    /\ found = {}
    /\ dataSources = <<>>
    /\ notes = {}
    /\ step = "discover"

-----------------------------------------------------------------------------
(* Correctness *)

\* Restriction: no schema is called in one word what a version, a service
\* and a noun make in three (AppsV1beta1Deployment).
NoTwinNames(ops) ==
    \A a, b \in Candidates(ops, {}) :
        Version(a) # Unversioned => BaseName(b) # VersionedName(a.ref)

\* The document after the API has published its type r in a version v too:
\* another read and another create, under a path of their own.
NewRoot(path) == <<NewWord>> \o path

InVersion(ref, v) == [ref EXCEPT !.version = v]

WithVersion(ops, r, v) ==
    ops \cup {[o EXCEPT !.path = NewRoot(@), !.ref = IF @ = r.ref THEN InVersion(@, v) ELSE @] :
                 o \in {r} \cup CreateOf(ops, r, {})}

\* When an API publishes a type in a version that ranks below one it has, and
\* whose versioned name is nobody's yet, no existing type changes its name, and
\* none has to share it: a pre-release is not a breaking change.
PrereleaseDisturbsNobody ==
    step = "discover" =>
        \A r \in Candidates(doc.ops, {}) : \A v \in Versions :
            LET more == WithVersion(doc.ops, r, v)
            IN  /\ Version(r) # Unversioned
                /\ Higher(Version(r), v)
                /\ \A c \in Candidates(doc.ops, {}) :
                      Version(c) # Unversioned => VersionedName(c.ref) # VersionedName(InVersion(r.ref, v))
                /\ NoTwinNames(more)
                => \A x \in Discovered(doc.ops, {}) :
                      \E y \in Discovered(more, {}) :
                          /\ y.read = x.read
                          /\ y.type = x.type
                          /\ \A z \in Discovered(more, {}) \ {y} : z.type # x.type
=============================================================================

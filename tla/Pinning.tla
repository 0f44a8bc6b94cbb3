-------------------------------- MODULE Pinning --------------------------------
(***************************************************************************)
(* A provider's table in .ubx/config, the snapshot that is cut from it, and *)
(* the processes that are launched on the one or the other                  *)
(* (cmd/ubx-provider-dynamic/main.go, internal/snapshot/generate.go).       *)
(*                                                                         *)
(* A group of one table: what many tables do to each other is Group's.     *)
(* What is built of a document (Mapping, Translate) is represented by what  *)
(* decides it: the arguments, the document with its reference strings,      *)
(* which names are derived from and creates are found by, and which of two  *)
(* creates the order of a map puts first.                                   *)
(*                                                                         *)
(* A document is what the URL answers with.  For an OpenAPI description it  *)
(* has a text (Bundle); of the rest only what is decided on is kept.        *)
(***************************************************************************)
EXTENDS Bundle

CONSTANTS
    Scenarios,  \* the tables an operator writes, and the documents published
    TableName,  \* the table's name
    DSName      \* the name of its data source member: TableName \o "_ds"

Sources == {"openapi", "smithy", "discovery_docs", "cloudformation"}

\* A setting that is not given.
Unset == 0

\* What a table says; a setting's value is a number.
ProviderTables ==
    [ source : Sources,
      dataSources : BOOLEAN, redocly : BOOLEAN, namespaceFromTags : BOOLEAN,
      wireName : Nat, execution : Nat, timeouts : Nat, resources : Nat,
      targetPrefix : Nat, versionQualifier : Nat, namespace : Nat ]

\* config.validate: what is refused wherever the table is read.  execution
\* stands for auth, base_url and retry, which go together everywhere.
Valid(table) ==
    /\ table.source \in Sources
    /\ table.source = "cloudformation" => ~table.dataSources
    /\ table.redocly \/ table.namespaceFromTags => table.source = "openapi"
    /\ table.execution # Unset

\* A document as it is published: whether it has resources and data sources,
\* whether a POST and a PUT of one path both answer with what a resource is
\* read as, whether it is written with Redocly's references, whether it is of
\* AWS's JSON protocols; none of its references is renamed, and nobody has
\* misread it yet.
IsDocument(d) ==
    /\ d = [ id |-> d.id, text |-> d.text, resources |-> d.resources, reads |-> d.reads,
             tied |-> d.tied, redoclyOnly |-> d.redoclyOnly, awsJson |-> d.awsJson,
             renamed |-> <<>>, misread |-> FALSE ]
    /\ IsText(d.text)
    /\ {d.resources, d.reads, d.tied, d.redoclyOnly, d.awsJson} \subseteq BOOLEAN

ASSUME PinningAssumption ==
    /\ TableName # DSName /\ Unset \notin {TableName, DSName}
    /\ \A s \in Scenarios :
          /\ s.tables \in Seq(ProviderTables) /\ s.tables # <<>>
          /\ \A i \in DOMAIN s.tables : Valid(s.tables[i])
          /\ DOMAIN s.documents = 1..Len(s.documents) /\ Len(s.documents) \in Nat \ {0}
          /\ \A i \in DOMAIN s.documents : IsDocument(s.documents[i])
          /\ (\E i \in DOMAIN s.documents : s.documents[i].tied) =>
                \A i \in DOMAIN s.tables : s.tables[i].source = "openapi"

VARIABLES
    scenario,   \* what is written and published, in order
    edition,    \* the table that is in .ubx/config now
    revision,   \* the document that is published now
    jobs,       \* the members the running generation has still to make
    made,       \* the members it has made
    failed,     \* one of them could not be made
    run,        \* "idle", "cut" from the table, "recut" from the snapshot
    document,   \* the document that is being made into a member
    snap,       \* the snapshot's members by name; none when there is no snapshot
    origin,     \* of each: the table it comes from, and what the URL answered with
    outcome     \* what the last generation that wrote a snapshot said of it

pinVars == <<scenario, edition, revision, jobs, made, failed, run, document, snap, origin, outcome>>

vars == <<bundleVars, pinVars>>

Table == scenario.tables[edition]

Upstream == scenario.documents[revision]

-----------------------------------------------------------------------------
(* Translation, by what decides it *)

\* Load and LoadWithRedoclyBundle: what is written with Redocly's references
\* is read without them as if its operations were empty.
Loaded(doc, redocly) ==
    IF doc.redoclyOnly /\ ~redocly
    THEN [doc EXCEPT !.resources = FALSE, !.reads = FALSE]
    ELSE doc

Given(applies, setting) == IF applies THEN setting ELSE Unset

WireName(name, s) == IF s.wireName = Unset THEN name ELSE s.wireName

\* Discover and findCreate: the operations of a path are met in the order of
\* a map, and the sort of the creates that match leaves a tie as it is.
Creates(doc) == IF doc.tied THEN {"POST", "PUT"} ELSE {"POST"}

\* dynserver.Build, smithy.Build, discoverydoc.Build, cloudformation.Build:
\* all that a process may build; it builds one of them (Builds).
Resources(doc, name, qualifier, timeouts, overrides) ==
    {[ schema |-> [document |-> doc, create |-> c, name |-> name, qualifier |-> qualifier],
       timeouts |-> timeouts,
       overrides |-> overrides ] : c \in {x \in Creates(doc) : doc.resources}}

\* resourcemap.BuildDataSources, smithy's and discoverydoc's.
DataSources(doc, name, qualifier, namespace) ==
    {d \in {[ schema |-> [ document |-> doc, name |-> name, qualifier |-> qualifier,
                          namespace |-> namespace ] ]} : doc.reads}

\* buildMemberClient, and what run makes of a table.
Client(s, targetPrefix) == [execution |-> s.execution, targetPrefix |-> targetPrefix]

\* What one process builds, of what may be built.
Builds(possible) == IF possible = {} THEN {{}} ELSE {{b} : b \in possible}

-----------------------------------------------------------------------------
(* A process launched on the table: run.  What it prints for --dump-signals *)
(* and --dump-namespaces it takes from what it would have served; where that *)
(* is nothing, or is decided by what was built alone, it is left out.        *)

LiveResources(table, built) == IF table.dataSources THEN {} ELSE built

LiveSmithy(table, doc) ==
    LET wire == WireName(TableName, table)
        resources == LiveResources(table, Resources(doc, wire, Unset, Unset, Unset))
    IN  [ refuses |-> /\ ~table.dataSources
                      /\ \/ resources = {}
                         \/ doc.awsJson /\ table.targetPrefix = Unset,
          resources |-> resources,
          dataSources |-> DataSources(doc, wire, Unset, table.namespace),
          client |-> {Client(table, table.targetPrefix) : r \in resources},
          signals |-> {},
          namespaces |-> {} ]

\* Nothing is executed for a discovery document: there is no client.
LiveDiscoveryDoc(table, doc) ==
    LET resources == LiveResources(table,
                         Resources(doc, TableName, table.versionQualifier, Unset, Unset))
    IN  [ refuses |-> ~table.dataSources /\ resources = {},
          resources |-> resources,
          dataSources |->
              DataSources(doc, WireName(TableName, table), table.versionQualifier, Unset),
          client |-> {},
          signals |-> resources,
          namespaces |-> {} ]

LiveCloudFormation(table, doc) ==
    LET resources == Resources(doc, Unset, Unset, Unset, Unset)
    IN  [ refuses |-> resources = {},
          resources |-> resources,
          dataSources |-> {},
          client |-> {Client(table, Unset)},
          signals |-> {},
          namespaces |-> {} ]

LiveOpenAPI(table, published) ==
    LET doc == Loaded(published, table.redocly)
        wire == WireName(TableName, table)
        resources == LiveResources(table,
                         Resources(doc, wire, Unset, table.timeouts, table.resources))
        dataSources == DataSources(doc, wire, Unset, Unset)
    IN  [ refuses |-> ~table.dataSources /\ resources = {},
          resources |-> resources,
          dataSources |-> dataSources,
          client |-> {Client(table, Unset) : r \in resources},
          signals |-> resources,
          namespaces |-> IF table.namespaceFromTags /\ ~table.dataSources
                         THEN resources \cup dataSources ELSE {} ]

Live(table, doc) ==
    CASE table.source = "smithy" -> LiveSmithy(table, doc)
      [] table.source = "discovery_docs" -> LiveDiscoveryDoc(table, doc)
      [] table.source = "cloudformation" -> LiveCloudFormation(table, doc)
      [] table.source = "openapi" -> LiveOpenAPI(table, doc)

-----------------------------------------------------------------------------
(* Members *)

\* ExpandMemberModes
MemberModes(table) ==
    CASE table.dataSources -> <<[name |-> TableName, mode |-> "data_source"]>>
      [] ~table.dataSources /\ table.source = "cloudformation" ->
            <<[name |-> TableName, mode |-> "resource"]>>
      [] OTHER -> << [name |-> TableName, mode |-> "resource"],
                     [name |-> DSName, mode |-> "data_source"] >>

\* The settings each Generate*Member puts into the MemberSnapshot.
CloudFormationSettings == {"execution", "timeouts", "resources"}

OpenAPISettings == CloudFormationSettings \cup {"wireName"}

SmithySettings == OpenAPISettings \cup {"targetPrefix", "namespace"}

DiscoveryDocSettings == OpenAPISettings \cup {"versionQualifier"}

MemberSettings(source) ==
    CASE source = "cloudformation" -> CloudFormationSettings
      [] source = "openapi" -> OpenAPISettings
      [] source = "smithy" -> SmithySettings
      [] source = "discovery_docs" -> DiscoveryDocSettings

\* The document was fetched and can be read again.
Member(job, doc) ==
    LET kept == MemberSettings(job.config.source)
    IN  [ source |-> job.config.source,
          mode |-> job.mode,
          document |-> doc,
          namespaceFromTags |-> job.config.namespaceFromTags,
          wireName |-> Given("wireName" \in kept, job.config.wireName),
          execution |-> Given("execution" \in kept, job.config.execution),
          timeouts |-> Given("timeouts" \in kept, job.config.timeouts),
          resources |-> Given("resources" \in kept, job.config.resources),
          targetPrefix |-> Given("targetPrefix" \in kept, job.config.targetPrefix),
          versionQualifier |-> Given("versionQualifier" \in kept, job.config.versionQualifier),
          namespace |-> Given("namespace" \in kept, job.config.namespace) ]

\* The schemas of a document at hand, for a member of the given mode.
OpenAPISchemas(job, doc) ==
    IF job.mode = "resource"
    THEN Resources(doc, job.config.wireName, Unset, job.config.timeouts, job.config.resources)
    ELSE DataSources(doc, job.config.wireName, Unset, Unset)

SmithySchemas(job, doc) ==
    IF job.mode = "resource" THEN Resources(doc, job.config.wireName, Unset, Unset, Unset)
    ELSE DataSources(doc, job.config.wireName, Unset, job.config.namespace)

DiscoveryDocSchemas(job, doc) ==
    IF job.mode = "resource"
    THEN Resources(doc, job.name, job.config.versionQualifier, Unset, Unset)
    ELSE DataSources(doc, job.config.wireName, job.config.versionQualifier, Unset)

\* Bug: the member's name is the prefix, not its wire_name.
LoadedByName(name, m) ==
    IF m.mode = "resource" THEN Resources(m.document, name, Unset, m.timeouts, Unset)
    ELSE DataSources(m.document, name, Unset, Unset)

\* What is built again, from the member alone.  No resources are handed on to
\* dynserver.Build.
LoadOpenAPIMember(name, m) ==
    IF m.mode = "resource"
    THEN Resources(m.document, WireName(name, m), Unset, m.timeouts, Unset)
    ELSE DataSources(m.document, WireName(name, m), Unset, Unset)

LoadSmithyMember(name, m) ==
    IF m.mode = "resource" THEN Resources(m.document, WireName(name, m), Unset, Unset, Unset)
    ELSE DataSources(m.document, WireName(name, m), Unset, m.namespace)

LoadDiscoveryDocMember(name, m) ==
    IF m.mode = "resource" THEN Resources(m.document, name, m.versionQualifier, Unset, Unset)
    ELSE DataSources(m.document, WireName(name, m), m.versionQualifier, Unset)

LoadCloudFormationMember(name, m) == Resources(m.document, Unset, Unset, Unset, Unset)

LoadMember(name, m) ==
    CASE m.source = "openapi" -> LoadOpenAPIMember(name, m)
      [] m.source = "smithy" -> LoadSmithyMember(name, m)
      [] m.source = "discovery_docs" -> LoadDiscoveryDocMember(name, m)
      [] m.source = "cloudformation" -> LoadCloudFormationMember(name, m)

-----------------------------------------------------------------------------
(* A process launched on the snapshot: runServeSnapshot.  The group is of one *)
(* source, and has at most one resource member.                               *)

OfMode(mode) == {n \in DOMAIN snap : snap[n].mode = mode}

Merged(mode) == UNION {LoadMember(n, snap[n]) : n \in OfMode(mode)}

\* The client of the resource member, where there are resources to execute.
MemberClient(prefixed) ==
    UNION {{Client(snap[n], Given(prefixed, snap[n].targetPrefix)) : r \in LoadMember(n, snap[n])} :
              n \in OfMode("resource")}

NothingToServe == Merged("resource") = {} /\ Merged("data_source") = {}

\* buildOpenAPIServer
OpenAPIServer ==
    [ refuses |-> NothingToServe,
      client |-> MemberClient(FALSE) ]

\* buildDiscoveryDocServer
DiscoveryDocServer ==
    [ refuses |-> NothingToServe,
      client |-> {} ]

\* buildCloudFormationServer
CloudFormationServer ==
    [ refuses |-> Merged("resource") = {},
      client |-> MemberClient(FALSE) ]

\* buildSmithyServer
SmithyServer ==
    [ refuses |-> NothingToServe,
      client |-> MemberClient(TRUE) ]

\* --dump-signals
DumpedSignals ==
    IF \E n \in DOMAIN snap : snap[n].source \in {"openapi", "discovery_docs"}
    THEN Merged("resource") ELSE {}

\* --dump-namespaces: namespacesFromTags, of each member by its own setting.
DumpedNamespaces ==
    UNION {LoadMember(n, snap[n]) : n \in {k \in DOMAIN snap : snap[k].namespaceFromTags}}

\* buildServerForSource
Server ==
    LET source == (CHOOSE m \in Range(snap) : TRUE).source
    IN  CASE source = "openapi" -> OpenAPIServer
          [] source = "discovery_docs" -> DiscoveryDocServer
          [] source = "cloudformation" -> CloudFormationServer
          [] source = "smithy" -> SmithyServer

Pinned ==
    [ refuses |-> Server.refuses,
      resources |-> Merged("resource"),
      dataSources |-> Merged("data_source"),
      client |-> Server.client,
      signals |-> DumpedSignals,
      namespaces |-> DumpedNamespaces ]

-----------------------------------------------------------------------------
(* Generating *)

\* generateGroupMembers: the members of a table; both are given the table's
\* wire name, which is the table's own name if there is none.
JobsOfTable ==
    [i \in DOMAIN MemberModes(Table) |->
        [ name |-> MemberModes(Table)[i].name,
          mode |-> MemberModes(Table)[i].mode,
          config |-> [Table EXCEPT !.wireName = WireName(TableName, Table)],
          table |-> Table ]]

\* Bug: the namespace is not taken over.
ConfigWithoutNamespace(name) ==
    [ source |-> snap[name].source,
      dataSources |-> FALSE,
      redocly |-> FALSE,
      namespaceFromTags |-> snap[name].namespaceFromTags,
      wireName |-> WireName(name, snap[name]),
      execution |-> snap[name].execution,
      timeouts |-> snap[name].timeouts,
      resources |-> snap[name].resources,
      targetPrefix |-> snap[name].targetPrefix,
      versionQualifier |-> snap[name].versionQualifier,
      namespace |-> Unset ]

\* generateGroupMembersFromSnapshot: a table made of a member.
ConfigOf(name) ==
    [ source |-> snap[name].source,
      dataSources |-> FALSE,
      redocly |-> FALSE,
      namespaceFromTags |-> snap[name].namespaceFromTags,
      wireName |-> WireName(name, snap[name]),
      execution |-> snap[name].execution,
      timeouts |-> snap[name].timeouts,
      resources |-> snap[name].resources,
      targetPrefix |-> snap[name].targetPrefix,
      versionQualifier |-> snap[name].versionQualifier,
      namespace |-> snap[name].namespace ]

\* The members in the order of their names.
JobsOfSnapshot ==
    [i \in 1..Cardinality(DOMAIN snap) |->
        LET name == IF i = 1 /\ TableName \in DOMAIN snap THEN TableName ELSE DSName
        IN  [ name |-> name, mode |-> snap[name].mode,
              config |-> ConfigOf(name), table |-> origin[name].table ]]

NoDocument == [text |-> <<>>]

PinInit ==
    /\ scenario \in Scenarios
    /\ edition = 1
    /\ revision = 1
    /\ jobs = <<>>
    /\ made = <<>>
    /\ failed = FALSE
    /\ run = "idle"
    /\ document = NoDocument
    /\ snap = <<>>
    /\ origin = <<>>
    /\ outcome = [run |-> "none", moved |-> {}, misread |-> {}, changed |-> {}]
    /\ BundleIdle

EditTable ==
    /\ edition < Len(scenario.tables)
    /\ edition' = edition + 1
    /\ UNCHANGED <<bundleVars, scenario, revision, jobs, made, failed, run, document, snap, origin, outcome>>

Publish ==
    /\ revision < Len(scenario.documents)
    /\ revision' = revision + 1
    /\ UNCHANGED <<bundleVars, scenario, edition, jobs, made, failed, run, document, snap, origin, outcome>>

Start(kind, members) ==
    /\ run = "idle"
    /\ run' = kind
    /\ jobs' = members
    /\ made' = <<>>
    /\ failed' = FALSE
    /\ UNCHANGED <<bundleVars, scenario, edition, revision, document, snap, origin, outcome>>

\* --generate-snapshot-group with --group-members, and with --prev-snapshot
\* as soon as there is one.
StartCut == Start("cut", JobsOfTable)

\* --generate-snapshot-group with --prev-snapshot alone.
StartRecut == snap # <<>> /\ Start("recut", JobsOfSnapshot)

\* The previous member is built again for the comparison, as its own source:
\* Load*Member refuses it if the table's source has changed.
Comparable(job) == job.name \in DOMAIN snap => snap[job.name].source = job.config.source

Built(job, doc) ==
    CASE job.config.source = "openapi" -> OpenAPISchemas(job, doc)
      [] job.config.source = "smithy" -> SmithySchemas(job, doc)
      [] job.config.source = "discovery_docs" -> DiscoveryDocSchemas(job, doc)
      [] job.config.source = "cloudformation" -> Resources(doc, Unset, Unset, Unset, Unset)

\* What the schemas do not show is not compared: timeouts and overrides.
Schemas(built) == {b.schema : b \in built}

\* The member there is already, built again to be compared.
Before(job) ==
    IF job.name \in DOMAIN snap /\ Comparable(job)
    THEN LoadMember(job.name, snap[job.name]) ELSE {}

\* memberChangeLevel
HasChanged(job, new, before) ==
    job.name \notin DOMAIN snap \/ Schemas(new) # Schemas(before)

\* The member of the next job is made of the document that was fetched; what
\* is read of it, and what of that is written.
MakeMember(fetched, read, written) ==
    LET job == Head(jobs)
    IN  /\ jobs' = Tail(jobs)
        /\ \E new \in Builds(Built(job, read)), before \in Builds(Before(job)) :
              LET entry == [ member |-> Member(job, written),
                             changed |-> HasChanged(job, new, before),
                             table |-> job.table, fetched |-> fetched ]
              IN  made' = IF Comparable(job) THEN Put(made, job.name, entry) ELSE made
        /\ failed' = (failed \/ ~Comparable(job))

\* The fetch or the translation fails; the other members are tried all the
\* same.
MemberFails ==
    /\ jobs # <<>>
    /\ stage = "idle"
    /\ failed' = TRUE
    /\ jobs' = Tail(jobs)
    /\ UNCHANGED <<bundleVars, scenario, edition, revision, made, run, document, snap, origin,
                   outcome>>

Generate(source) ==
    /\ jobs # <<>>
    /\ Head(jobs).config.source = source
    /\ MakeMember(Upstream, Upstream, Upstream)
    /\ UNCHANGED <<bundleVars, scenario, edition, revision, run, document, snap, origin, outcome>>

GenerateCloudFormationMember == Generate("cloudformation")

GenerateSmithyMember == Generate("smithy")

GenerateDiscoveryDocMember == Generate("discovery_docs")

\* GenerateOpenAPIMember: the document is loaded, and Bundle called ...
LoadAndBundle ==
    /\ jobs # <<>>
    /\ Head(jobs).config.source = "openapi"
    /\ document' = Upstream
    /\ BundleCall(Upstream.text)
    /\ UNCHANGED <<scenario, edition, revision, jobs, made, failed, run, snap, origin, outcome>>

\* ... until what Bundle made of it, in place, is written, and read again on
\* trial: ErrExternalRefsUnsupported.
WriteMember ==
    /\ stage = "done"
    /\ LET loaded == Loaded(document, Head(jobs).config.redocly)
           bundled == [loaded EXCEPT !.renamed = refs]
       IN  IF LoadsAlone
           THEN MakeMember(document, bundled, [bundled EXCEPT !.misread = ~SaysTheSame])
           ELSE /\ jobs' = Tail(jobs)
                /\ failed' = TRUE
                /\ UNCHANGED made
    /\ document' = NoDocument
    /\ BundleDropped
    /\ UNCHANGED <<scenario, edition, revision, run, snap, origin, outcome>>

\* AssembleGroup: members that have changed, are new or are gone.
Changed ==
    {n \in DOMAIN made \cup DOMAIN snap : n \in DOMAIN made => made[n].changed}

\* AssembleGroup and SaveSplit, or the errors of all the members.
FinishRun ==
    /\ run # "idle"
    /\ jobs = <<>>
    /\ run' = "idle"
    /\ made' = <<>>
    /\ failed' = FALSE
    /\ IF failed THEN UNCHANGED <<snap, origin, outcome>>
       ELSE /\ snap' = [n \in DOMAIN made |-> made[n].member]
            /\ origin' = [n \in DOMAIN made |-> [table |-> made[n].table,
                                                 fetched |-> made[n].fetched]]
            /\ outcome' = [ run |-> run,
                            moved |-> {n \in DOMAIN made \cap DOMAIN origin :
                                          made[n].fetched # origin[n].fetched},
                            misread |-> {n \in DOMAIN snap : snap[n].document.misread},
                            changed |-> Changed ]
    /\ UNCHANGED <<bundleVars, scenario, edition, revision, jobs, document>>

\* A generation that was started runs, as one process, to its end, if what it
\* waits for ends: its fetches, and npx, have no deadline.
Generation ==
    \/ MemberFails
    \/ GenerateCloudFormationMember \/ GenerateSmithyMember \/ GenerateDiscoveryDocMember
    \/ LoadAndBundle \/ WriteMember
    \/ BundleNext /\ UNCHANGED pinVars
    \/ FinishRun

PinNext == EditTable \/ Publish \/ StartCut \/ StartRecut \/ Generation

PinSpec == PinInit /\ [][PinNext]_vars /\ WF_vars(Generation)

-----------------------------------------------------------------------------
(* Correctness *)

\* Where a snapshot does less than the table, for which see the README: an
\* override of one resource's behaviour does not reach the process that is
\* launched on the snapshot, and Redocly's bundler is not run for a snapshot
\* that is cut from a snapshot.
NoOverrides(table) == table.source = "openapi" => table.resources = Unset

NoRedocly(table) == ~table.redocly

\* Its data sources have namespaces in the snapshot only.
NoLoneTags(table) == ~(table.dataSources /\ table.namespaceFromTags)

\* SameMeaning says when Bundle lets a document be misread.
WellRead(n) == ~snap[n].document.misread

\* Bundle renames what is in another file, and only a snapshot is bundled:
\* names that are derived from a reference, and creates that are found by one,
\* are others than those of a process on the table.
InOneFile(n) == origin[n].table.source = "openapi" => SingleFile(origin[n].fetched.text)

\* Bundling again gives every reference the name it had.
NamedAgain(n) == origin[n].table.source = "openapi" => NoWayBack(origin[n].fetched.text)

\* Whichever create a build takes, it is the same one.
OneCreate(n) == snap[n].mode = "resource" => ~origin[n].fetched.tied

\* A process launched on the snapshot serves what a process launched on the
\* table would have served of the documents the members were fetched from:
\* the same resources and data sources, by the same names, through the same
\* client, and with the same namespaces; and where two creates tie, each takes
\* one of the same two.  What happened to the table since, how often the
\* snapshot was cut again from itself, and by what name the member goes, makes
\* no difference.
PinnedIsTheTable ==
    \A n \in DOMAIN snap :
        LET table == origin[n].table
            live == Live(table, origin[n].fetched)
        IN  /\ NoOverrides(table)
            /\ NoRedocly(table) \/ outcome.run = "cut"
            /\ WellRead(n)
            /\ InOneFile(n)
            /\ ~live.refuses
            =>
              /\ snap[n].mode = "resource" =>
                    /\ ~Pinned.refuses
                    /\ Pinned.resources = live.resources
                    /\ Pinned.client = live.client
                    /\ Pinned.signals = live.signals
              /\ snap[n].mode = "data_source" => Pinned.dataSources = live.dataSources
              /\ NoLoneTags(table) =>
                    LoadMember(n, snap[n]) \cap Pinned.namespaces
                       = LoadMember(n, snap[n]) \cap live.namespaces

\* A snapshot cut again from itself, when every URL still answers with what it
\* answered before, is a release of nothing: no member has changed, whatever
\* order the document was walked and its references were rewritten in.
RecutIsQuiet ==
    outcome.run = "recut" /\ outcome.moved = {} /\ outcome.misread = {}
      /\ (\A n \in DOMAIN snap : /\ NoRedocly(origin[n].table)
                                  /\ WellRead(n) /\ NamedAgain(n) /\ OneCreate(n))
        => outcome.changed = {}

\* A generation ends, for files that refer to each other in circles too.
GenerationEnds == run # "idle" ~> run = "idle"
=============================================================================

# Verification of ubx-provider-dynamic

`ubx-provider-dynamic` is one provider binary for many APIs. It reads a machine-readable description of
an API (OpenAPI, Google discovery, CloudFormation, Smithy), derives resource types from it, and serves
them to ubx core over the tfplugin protocol: core asks for a plan, an apply, a read or an import of one
object, and the binary turns that into HTTP calls. It also generates *snapshots*, versioned files that
hold everything derived from a description so that a later run needs no network.

This directory holds TLA+ modules that model the parts of it where correctness depends on order, failure,
other people's actions, or the way several documents fit together, TLC configurations that check them on
small instances, and proofs, checked by TLAPS, that the most important properties hold for every instance.

    tlc -workers 2 -config MCDynSync.cfg MCDynServer.tla     model-check one run (all of them: PROJECT.json, "runs")
    tlapm DynServerProofs.tla                                check the proofs of one module

`PROJECT.json` lists the components, the runs with the properties they check, the source lines each
definition stands for, the hazards, the disagreement a run reproduces (`MCFetchCacheOverlap`), and the theorems. Source paths below
are relative to `src/internal/` unless they begin with `cmd/` or `.github/`.

## 1. Inventory

The program is sequential: outside its tests it starts no goroutine. What is concurrent with it, and what
makes it hard, lies around it: the API, which carries out a request whether or not its answer comes back;
requests that were abandoned and arrive late; other users of the same objects; jobs the API runs by
itself; timers and core's cancellation; other processes on the same directory; documents that are published
anew; and the death of the process between two writes to disk.

| Component | State it keeps | Operations | Talks to | What must hold |
|---|---|---|---|---|
| `restexec` | none between calls; per call the attempt number, the last status and error, the deadline | `Do`, `DoWithCodec`: authenticate, send, classify, back off, repeat | `auth`, the API | a reported success happened; a first refusal means nothing happened; a transient failure surfaces only when attempts or time are spent; not found means gone; every call ends |
| `restexec` backoff | none | `RetryPolicy.backoff`, `applyRateLimitSignal` | headers of the last answer | a guessed wait stays in the schedule, an asked-for wait is kept |
| `dynserver` life cycle | none between RPCs; per RPC the step it is at, the job it polls, the poll deadline | `PlanResourceChange`, `ApplyResourceChange` (create, update, destroy), `ReadResource`, `ImportResourceState` | core, `restexec` | core is told *gone* only of what is gone, handed a state only of what was made, told *certainly refused* only when it is certain; every RPC is answered |
| `dynserver` attributes | the state core stores for it | decode, normalise, carry forward, address; `Build` | core, `wire`, `schema`, `resourcemap` | a state leads to its own object or nowhere, drifts when and only when the object changes; what was made is recorded; every path parameter has an attribute |
| `fetchcache` | a directory shared by processes | `Get` | the file system, `discoverydoc`, `openapi`, `cloudformation`, `smithy` | while processes take turns and the disk works, every fetch of a URL returns the bytes of the first; what is pinned is whole; a pin that is settled stays |
| `cloudformation/server`, `ccapi` | none between RPCs; per RPC the job's token | submit, `AwaitTerminal`, final read | core, AWS Cloud Control | the same as `dynserver` |
| `cloudformation` schemas | none | `Fetch`, `Build`, `Resolve` | `fetchcache`, `schema` | identity attributes are carried, defaults are the server's |
| `smithy/server`, `wireexec` | none between RPCs | synchronous life cycle, four wire protocols | core, AWS | the same as `dynserver`; a plan goes out whole and a state is true |
| `smithy` models | none | `Build`, `Discover`, `Resolve`, `FetchCatalog` | `fetchcache` | an operation belongs to one resource |
| `snapshot` releases | the group's directory, the published versions | `AssembleGroup`, `Diff`, `NextVersion`, `SaveSplit`, `LoadSplit` | the generator's workflow, git | the version says how much has changed, whatever was interrupted; what is saved loads again |
| `snapshot` members | the table's fields and the document's text, per member | `GenerateOpenAPIMember` and its like, `LoadOpenAPIMember` and its like | `config`, `openapi` | a process on the snapshot serves what one on the table would have (of a description in one file); a recut of nothing new is no release |
| `snapshot` groups, `mixedserver` | routing table from type to server | `Merge*Group`, the RPCs by type name | the three servers | each type has one owner; every type that is offered is served |
| `schema` | the stack of schemas being expanded | `BuildTopLevel`, `MergeResourceAttributes`, `CollectSignals` | all sources | expansion ends; nothing described is dropped; create and read views agree on a type |
| `resourcemap`, `dsfilter`, `typename` | none | `Discover`, `DiscoverDataSources` | `schema` | every read is a resource, a data source or reported; a pre-release renames nothing |
| `openapi` | per `Bundle` call: the places walked, the references to rewrite, the entries made | `Load`, `Bundle` | `snapshot` | the bundled text means without a network what the files meant with it |
| `discoverydoc` | none | `Discover`, `Build` | `fetchcache`, `schema` | a method belongs to its resource |
| `auth` | registry; a token source made once | `Register`, `Build`, `Apply` | `restexec` | an initialisation that failed is not taken for one that is done |
| `config`, `wire` | none | pure functions | everything | agreement with the schema |
| command line | none | choose a source, serve it, or generate | everything | a generation with a failing member writes nothing |
| workflows | releases, branches | build, publish, watch branches | GitHub | outside the program |

How they interact: core calls a *server* (`dynserver`, `cloudformation/server`, `smithy/server`, or
`mixedserver`, which forwards by type). A server calls its client (`restexec.Client`, `ccapi.Client`,
`wireexec.Client`), and the last two use `restexec`'s loop. The state a server returns is stored by core
and handed back with the next RPC; that is the only memory a resource has. Sources (`discoverydoc`,
`openapi`, ...) run before serving; several generator processes of one run share one cache directory. A
snapshot is written by a generator and read by a server that was launched on it.

The behaviours that are hard, with the line where each bites, are the `hazards` of `PROJECT.json` (40 of
them). Most belong to one of six families: an answer that is lost or late; an object that changes between
two calls about it; a step that fails after an earlier one had an effect; a state that was built in
another way than the next operation expects; a process that dies between two writes; a search through a
document whose outcome depends on what else the document has.

## 2. The modules

    Backoff ───────────┬─ RestWaits
    RestAPI ── RestExec ┴─ DynServer ──implements──> LifecycleContract <──implements── CCServer, SmithyServer
                              │                                                           │          │
         DynServerProofs (of RestExec, RestWaits, DynServer)                  CCServerProofs   SmithyServerProofs

    Schemas ─┬─ Mapping ── DynBuild ─┬─ BuildTypes      Bundle ── Pinning ── PinningProofs
             └─ Translate ───────────┘                  SchemaDiff ── SnapshotRelease ── SnapshotReleaseProofs

         ResourceTypeProofs (of DynBuild, CarryForward)
         FetchCache ── FetchCacheProofs                 Group ── GroupProofs

A line says that the module to its right extends or instantiates the one to its left. `MC` modules and
`.cfg` files give the constants small values and nothing else.

### RestAPI, RestExec: one HTTP call

`RestAPI` is the world outside: the objects that exist, how many were made, the last job. An object is
the serial number of its creation, so a name that is deleted and created again stands for two objects. An
API may refuse with any configured status, hide an effect behind a 5xx, answer with a body that is empty,
cut off or of another shape; other users may delete. What it may *not* do is act behind a 4xx, or answer
404 for a thing that exists: those are the two things the provider's code relies on.

`RestExec` is `Client.Do` (`restexec/restexec.go:98-152`). `call` is the loop's state, `wire` the request
of the current attempt, `expired` the context. `Send`, `NeverSent`, `Receive`, `GiveUp` are the ways
through `doOnce`; `AttemptReturns` is the decision at the loop's end; `BackoffOver` and `BackoffCancelled`
the `select`. An attempt given up while its request is on its way may leave a *stray*, which reaches the
API later or never. `took` and `loose` record, for the properties only, whether a request of the call had
an effect or was left behind. `DoWithCodec` is the same loop, so `codec.go` has no module of its own.

### Backoff, RestWaits: how long a wait is

`retry.go` as operators on integers that wrap as `time.Duration` does: unset fields, the doubling loop with
its early stop, jitter, the clamp, and the two kinds of header that ask for a wait. The order of events is
`RestExec`'s: `RestWaits` joins the two, and says of every back-off of a call, with the attempt that failed and the
status it brought back, how long the wait is under any policy and any header. `MCRestExec` evaluates it for
policies and headers of a range that is small and includes the overflow.

### DynServer, LifecycleContract: one RPC

`DynServer` extends `RestExec` with `rpc` (which handler runs and at which of its calls it waits), `held`
(the object core has a state for), `cancelled`, `pollOver` (the deadline of `awaitAsyncOperation`). There
is one action per way a handler can go on after a call of its own returned: `WriteFails`,
`DestroyReturns`, `WriteUndecodable`, `WriteDone`, `WriteAccepted`, the poll's five, the read's four.
`RefuseUnsent` stands for every early return before anything is sent. Core runs one RPC of a resource at a
time, so a handler's own steps never interleave with another RPC's; everything else does.

`LifecycleContract` is the abstract specification: core asks, objects appear while a create is
outstanding and go at any time, an answer is a state (of an object that was made), gone (of an object that
is) or a failure, which promises nothing. `KeepsContract` says that `DynServer` implements it under the
mapping written at the end of the module: `busy` is the running RPC, and a create is outstanding while it
runs, while one of its requests is a stray, or while its job runs.

### CCServer: one RPC over Cloud Control

Every write is a job. `rpc.mine` collects the jobs this RPC's write was accepted as: a repeated
`CreateResource` carries no client token and is another job. The loop of `DoWithCodec` is abstracted to
attempts that are answered, lost, or left behind, because `RestExec` has it in full; classification is
abstracted to the classes the handlers tell apart (`missing`, `refused`, `unclear`). `irregular` records
that a job was cancelled by somebody or that a 2xx lacked its event or its token; the contract is kept
until then. It is not kept afterwards: a cancelled delete job is answered as a finished destroy (section 5).

### SmithyServer: one RPC over a Smithy service

The third implementation of the contract, with attribute values, because here what goes wrong is what a
request carries and what a state records. A resource type (`rt`) says what the Smithy model and the
service behind it are like: which operations there are, which attributes each takes and answers, which
operations answer without a body, what is bound to the URI, the query or a header, the wire protocol, and
whether the service declares 404 for what it does not have.
`stateAsMap`, `Bound` and `Sendable` are the way from a state to a request; `FromJSON` and
the merge with what was sent the way back. Neither way is the identity. An attribute is `garbled` if what reaches
the service under it need not be what was planned: only top-level member names are turned back into the service's
(`wireexec/client.go:171-174`, `binding.go:78-112`), so the members of a structure go out in snake case, and a member that
belongs into the payload, the query or the headers as a whole goes into the body; such a member may arrive as anything.
It is `altered` if an answer may be recorded otherwise than it was given: `reKeyToSnakeCase` (`xmlcodec.go:109-126`) rewrites
the keys of maps at every depth, and two keys that become one leave either value. `ReKeyed` says what may become of a value. `applyCreate` and its like start a call, its attempts are carried
out (`Reaches`), refused (`Misses`, `Refused`) or lost, with a stray or without (`Lost`), and `CreateDone` and
its like answer core. Every operation but create takes the key, as the service's own API documents
do; reads have a body; a key that the user chooses is kept by an update.

### CarryForward: what a state holds

One resource, attribute by attribute. An object lives at the address its read path's parameters give. A
state is `NewState(answer, prior)`: decoded (`wire.FromJSON`), normalised (`policy.go`), then overwritten
with the prior value wherever the attribute is carried forward (a path parameter, a drift-ignored
attribute). `applyCreate`, `applyUpdate`, `applyDestroy`, `ReadFinds`, `ReadMisses` and
`ImportResourceState` are the handlers as they act on values; which of them *succeed* is `DynServer`'s
question, here they do unless an attribute they need has no value. An API answers writes at once or with an operation to
poll (`async`); after the latter, a create reads the object through the parameters in its merged state, and records
nothing if one has no value. `assigned` remembers, for the properties only, that the create left a parameter of the
read path to the API. `Elsewhere` is every other user.
An import (`ImportResourceState`) records the answer as it was decoded; `raw` remembers, likewise, that the recorded state is of that kind. `Omitted` are read parameters the API may leave out of an
answer: a read fills them from the prior state, an import has none and leaves them null.
Three assumptions are built in. A planned update keeps the path parameters (a change to one is planned as
a replacement). A path parameter that the representation has too has the same value in both. A computed
attribute is Unknown in every plan, an update's included (`dynserver/unknown_test.go:20-23`,
`cloudformation/server/unknown_test.go:78-79`).

### Schemas, Translate, Mapping, DynBuild, BuildTypes: from a document to resource types

`Translate` is `schema/translate.go`, `merge.go` and `signals.go` as recursive operators on a graph of
schemas, in which a schema may contain itself: objects, lists, maps, unions, `allOf`, the guard against
circles, which goes by the identity of a schema, and the depth limit. Lists and maps do not enter the guard;
`ring` finds those that would be expanded for ever (`Endless`), where the code runs out of stack.

`Mapping` is `resourcemap/resourcemap.go`: from a set of operations `Discover` makes resources (which reads
are items, which create goes with each, which type name each bears when several would bear the same, with
versions ranked), and `DiscoverDataSources` makes data sources of the reads that are left. Words are
numbers ordered as their spellings; two operations of one path come in the order a Go map is ranged over,
which is a choice (`putFirst`). What a word is (a parameter, a parameter with `:action`, a version, one that dsfilter
looks for) is a constant; what is done with it, `dsfilter.Excluded` over noun, path, operation id and the name of the
answer included, is modelled.

`DynBuild` is `dynserver.Build`: discover, translate and merge one resource after the other, give every
parameter of the two paths an attribute (`EnsurePathParamsPresent`, twice), then the data sources. The document is
chosen at the start; the steps are the code's loops. What a schema is translated to is a parameter (`Merged`,
`Signals`, `DataAttributes`): nothing of what is said about reads, names and path parameters depends on it.
`BuildTypes` puts `DynBuild` and `Translate` together, which gives the parameters the values they have in the code, and
states what depends on them. `Schemas` says what the two have in common: the shape of a schema and of an attribute.

### Bundle, Pinning: from a table to a snapshot to a process

`Bundle` is `openapi/bundle.go`: the recursive walk over nodes that are shared between references, as a
stack of calls; the set of nodes visited; the references found, each with the string it has; the new names,
one per string; and the rewriting in any order. The document is a graph of definitions in several files,
circles included; what the library resolved each definition to is part of the text (`value`, and `length`, the
number of references on the way, which says that references do not lead round in a circle). `ReadAs` is what
a reader without the network makes of the result.

`Pinning` is the life of one table: an operator edits it (`EditTable`), the document behind its URL is published
anew (`Publish`), a generation cuts a snapshot from the table or recuts one from the snapshot alone, member by
member, with `Bundle` for an OpenAPI member. What a process builds is represented by what decides it: its arguments, the
document with the names `Bundle` gave to references (`renamed`), since nouns are derived from them and creates found by
them, and which of two creates that tie is met first in a map. `Live` is a process on the table, which bundles nothing,
`Pinned` one on the snapshot; each has the set of what it may build, and a generation that compares two builds makes a
choice for each (`Builds`). A member whose document `Bundle` wrote without keeping its meaning is marked `misread`, for the properties
only: `PinnedIsTheTable` speaks of the others, and `outcome.misread` says which members of the previous snapshot
were so when it was cut again.

### FetchCache: one URL, several processes

`Get` step by step: miss, fetch, open `path.tmp` (create or truncate), write, rename. Names and files are
kept apart, as a file system does, because that is the point: a process writes to the file it opened,
whatever name it has by then. Any file operation may fail (the code ignores all such errors), the process
may die anywhere. A read that fails is a miss like any other, so that what is pinned is fetched again and published over
(`Misread`). Nothing keeps processes from overlapping. Four histories say what has happened, for the properties only: what
was `served`; where an error was `swallowed`; that two processes were past a miss at once (`overlapped`), or between
the opening of the staging file and its renaming at once (`collided`).

### SchemaDiff, SnapshotRelease: versions

`SchemaDiff` is `snapshot/diff.go` as operators: levels, attribute types and flags, blocks, schemas; and,
beside it, what a level is *for*: `StillWorks(old, new)`, every program written for the old schema works
with the new one. `SnapshotRelease` is the life of a group's directory: a run loads the predecessor,
fetches the members, takes the next version from what has changed, writes the manifest, then the
identities, then the members in order; it may fail or be killed between any two files or inside one; the
next run goes on from what is there, or somebody restores the last commit. A finished run is released if
its version is newer (that gate is described in the comments of `generate.go`; the workflow itself lives in
the repository of the group, so `Release` and `Restore` are external).

### Group: a pinned group as one provider

A member contributes types in one of two roles, resource or data source, and comes from one of four
sources. The launch (`runServeSnapshot`, `buildMixedSourceServer`) is a state machine over the sources in
the order of their names: `MergeMember` is one call of `mergeWithExclude` with a member's contributions,
`AddSource` the building of the sub-server and the two merges across sources with the routing tables,
and every way a launch can be refused is an action. What is merged are names: `sub` says whose copy a
sub-server keeps, `client` whose client carries it out, `schemas` whose schema is offered, `owner` where
`mixedserver` sends requests. The exclude table is an input like the members; its entries that name a
member (`loses`) and those that name a source (`sourceLoses`) are one map in the code, told apart by the
key, so a member that bears a source's name is left out. A group of one source is served by its
sub-server without `mixedserver`, which offers and answers the same. `RequestData` is refused by every
sub-server, as in the code (section 5).

## 3. The runs

| Run | Question | Bounds, and why they are enough |
|---|---|---|
| `MCRestExec` | Does `Do` report truthfully, does it wait as long as it should, and does every call end? | 3 attempts (first, middle, last), 2 objects (the addressed and a successor), 1 stray, a status of every class, all odd bodies; durations up to 63 with every policy from unset to overflowing |
| `MCDynSync` | Do the RPCs keep the contract over synchronous writes and assigned identifiers? What can be lost? | 2 attempts, 2 objects, 1 stray, all odd bodies |
| `MCDynAsync` | The same with jobs and a user-chosen name, with liveness | 2 attempts, 1 object (a name can be live once; its serial number runs out instead), 1 stray |
| `MCCCServer` | The contract over Cloud Control, with retried submissions and cancelled jobs | 3 jobs (two of one create, one more), 2 objects, 2 attempts, 1 stray |
| `MCSmithyServer` | The contract over Smithy services; does a plan go out whole, is a recorded state true? | 8 resource types in the likeness of Lambda's, S3's, SQS's and SNS's, over all protocols: the key and one attribute that is settable, computed, a structure around a map, a map, or in the query; 2 values, one of which is the other in snake case; 2 objects, 2 attempts, 2 strays |
| `MCFetchCache` | Is a pin whole, the only answer and permanent, with processes that overlap in any way, kills and disk errors? | 2 processes, 2 revisions of lengths 1 and 2 (the longer can be cut in the middle), 3 files (the published, the staged, and one only a descriptor has) |
| `MCFetchCacheOverlap` | *violation:* do all processes get the same bytes, "regardless of how many separate process invocations ask"? | the same, on a disk that never fails |
| `MCCarryForward` | Is a state addressable and free of false drift, and is what was made recorded? | one attribute of each kind (create path only; read path and left out of some answers; read path, respelt and optional or the API's choice; optional and respelt; ignored, stamped and computed; computed); two spellings and one other value; synchronous and asynchronous writes; states that are created, updated, read and imported |
| `MCSnapshotRelease` | Does a version cover its content, whatever is interrupted? | 2 members, one attribute through all flag combinations the translators make, an added field, 2 releases |
| `MCGroup` | Is what a group offers decided by the exclude table alone, and served by who offers it? | 3 members (a copy, its rival, and one that comes between or after), all 4 sources, one type, every exclude table; types do not interact but for a source that is empty |
| `MCBuild` | Is every read accounted for, every field kept, every URL buildable? | documents of three items with rival versions, twin names and every way to make an object, excluded operations and actions included; one resource over graphs of 9 schemas that contain, compose and repeat themselves |
| `MCPinning` | Does a snapshot serve what the table would have, and is a recut of nothing new nothing? | a document and two files that refer to each other in every way, circles and ways back into the document included; a table of every source with all settings or none, edited once; a document published anew once; a document with two creates that tie |

The bounds of the state constraints (`MaxObjs`, `MaxStrays`, `MaxJobs`, `MaxReleases`, ...) appear in
guards; when one is reached the environment stops producing, the program does not. No run uses symmetry. Deadlock is not checked in `MCGroup`, where a refused launch is over, and in
`MCBuild`, where a document that has been built is done.

What the passing runs show is what their properties say; the comments above the properties are the
statement. Those worth pointing out:

* `GoneIsHonest`, and in `KeepsContract` for all three servers: a destroy or a read is answered with *gone*
  only if the object is gone, at whatever attempt of whatever retried call, with requests of earlier calls
  landing in between.
* `FirstRefusalIsCertain`, `FirstFailureIsCertain`: the certainty core takes from a terminal diagnostic is
  justified if the write took one attempt. It is not otherwise (section 5).
* `WaitsAsAsked`: a guessed wait lies between half the first wait and the maximum and does not fall by more
  than jitter allows; one that the API asked for is kept. Both are stated where twice the wait is still a
  duration (`InRange`); section 5 has what happens beyond.
* `NothingLostSilently`: everything that exists is held, as long as each create was settled by the first
  answer to it. The qualification is the list of what loses objects: retries, unclear errors, bodies that
  do not decode.
* `Pinned`, `PublishedWhole`, `PinSettles`: what `Get` keeps of its promise, and until when. All get the same bytes until two
  processes have been past a miss at once or an error of the file system was ignored; a pin is whole until two have been
  at the staging name at once, errors and kills notwithstanding; and however the first calls raced, once they are
  over the pin is final unless reading it fails. That the first condition is needed, `MCFetchCacheOverlap` shows.
* `Addressable`, `NothingOrphaned`: a recorded state leads to the resource's own object or nowhere, and an object that a
  create made is recorded. The two exceptions, an import whose answer leaves a parameter out and a create that left a
  parameter to the API, are in the run, and section 5 lists them as what the code gets wrong.
* `NoFalseDrift`, `DriftIsSeen`: refreshing an unchanged object changes nothing, and carrying values
  forward hides no change of what the API represents and is not ignored. Both must hold at once: carrying
  more breaks the second, carrying less the first or `NothingOrphaned`. `NoFalseDrift` leaves out
  imported states, which drift at the first refresh (section 5).
* `WrittenAsPlanned`, `StateIsTrue`: the request has every planned value the operation takes, through the
  label, the query or the body; and what is recorded afterwards is what the object has, whether it came from
  the answer, the request or the state before. "What the object has" is up to the keys of maps (`Shows`), and neither speaks
  of `garbled` members: for those the code does not do it (section 5). The second needs two more preconditions,
  which are the two ways in which this server records what it does not know (`SilentUpdatesTakeAll`, `ReadsTellAll`).
* `VersionCoversContent`: the directory's version answers for its content after any interruption. It
  depends on the manifest, which holds the version, being written *first*.
* `SemverPromise`: a program that uses a release goes on working within its major version, unless a run met
  one of three changes that `diff.go` rates too low (section 5).
* `UnnamedCopyIsOffered`, `RefusedForCause`: copies are compared with the one placed so far and not with
  each other, and still the order of names decides nothing that the exclude table decides.
* `RequestsGoHome`: schema, placement and route are three tables, filled side by side and overwritten when
  a later source takes a type over; requests, clients and schemas agree whatever the order.
* `PrereleaseDisturbsNobody`: when an API publishes a type it has in a lower version as well (another read and another
  create, under a path of their own), nothing that was there changes its name or has to share it, so no recorded state
  loses its type. The one condition on the new version is that its own name is not taken.
* `NothingFlattened`, `ReadOnlyStaysComputed`: they compare a recursive translation with what JSON Schema
  says of the same graph, to the depth of its number of schemas, and hold where `PlainObjects` and
  `NoRoundLists` do; section 5 lists what is dropped elsewhere.
* `PinnedIsTheTable`, `RecutIsQuiet`: whatever has happened to the table and the document since. Their
  conditions name what is lost, each with what the code does without it in section 5: settings (`NoOverrides`, `NoRedocly`,
  `NoLoneTags`), the names of what is in other files, for `PinnedIsTheTable` (`InOneFile`), and for `RecutIsQuiet` a way back into
  the document (`NamedAgain`) and two creates that tie (`OneCreate`). `SameMeaning` is the part about files. That
  `RecutIsQuiet` has to leave out recuts of a misread member was found in proving it: one document, cut twice, may be
  misread the first time and not the second (section 5).

### Fairness

`RestExec!ClientFairness`: the process is scheduled and its timers fire. An attempt that is ready is made,
a response that has arrived is read, a back-off ends, a deadline passes, a context that is done aborts the
attempt. Nothing is assumed of the API or the network: a request may stay unanswered for ever. With
`Bounded = TRUE` (`withOperationTimeout`) every call ends all the same. `DynServer!DynFairness` adds that
handlers run and that the poll loop's clock does. Each is weak fairness of a step that stays enabled until
it is taken. `CCServer!FairSpec` has to assume more, that a call comes back (`WF(CallStep)`): this
server sets no deadline on its calls, so its liveness rests on the network and on core. `Pinning!PinSpec`
assumes that a generation takes its next step, and so that what it waits for ends: the server behind the URL and behind
references into other files (`openapi/load.go:234-263`), and the `npx` it runs for Redocly (`openapi/load.go:143`),
for neither of which the code sets a deadline. What `GenerationEnds` shows under this assumption is that the program's
own loops end; for files that refer to each other in circles it is `Bundle`'s visited set that ends them. `SmithyServer` has no liveness
property: its calls have no deadline either, and the loop is `RestExec`'s.

## 4. What is proved

All for every value of the constants, from the assumptions named in the modules (`APIAssumption`,
`ExecAssumption`, `CacheAssumption`, `CarryAssumption`, `GroupAssumption`, ...), none of which bounds a number
of objects, attempts, jobs, files, attributes, values, members or types.

* **DynServerProofs**, the client: `Spec => []ExecInv`, and from it `SuccessIsEffect`, `FirstRefusalIsFinal`,
  `GivesUpOnlyWhenSpent`, `GoneIsHonest`. The properties speak of a call that is done, so they say nothing
  of how it got there; `ExecInv` adds what is true *while* it runs: what is on the wire is true of the world
  (`AnswerIsTrue`, which must survive other users and strays), and nothing was done or left behind during a
  first attempt unless an answer other than a refusal is coming back (`FirstAttempt`).
* **DynServerProofs**, the waits: `WaitsAsAsked`, for every policy, status and header, and for durations of every
  width. `doubled` is a recursive function of the attempt, so its equation is derived first, from approximations that
  agree where both are defined. From the second attempt on it lies between the first wait, or the maximum where that is
  smaller, and the maximum, so that
  no multiplication wraps as long as twice the maximum is a duration (`InRange`); jitter, which takes at most half,
  and the clamp keep that.
* **DynServerProofs**, the server: `DynSpec => []DynInv`, and from it `DynTypeOK`, `GoneMeansGone`, `CleanWriteIsReal`,
  `FirstRefusalIsCertain`; and `DynSpec => KeepsContract`, the refinement of `LifecycleContract`. `DynInv`
  contains `ExecInv` (the client's steps are proved once and cited) and relates
  the call to the RPC: which call each step waits for, how far an RPC of each kind can have come, that
  the RPC is about the object core holds, that a name is live once. For synchronous writes, `NothingLostSilently`
  too (with `Async` it is false, section 5): `LostInv` follows a create through its first attempt: nothing exists
  until the API has answered, and then what it made is in the answer; it also says that outside a create no
  abandoned create is on its way and what a read or an update is answered with is what core holds.
* **CCServerProofs**: `Spec => []CCInv`, and from it `TypeOK`, `GoneMeansGone`, `CleanWriteIsReal`,
  `FirstFailureIsCertain`; and `Spec => KeepsContract`. `CCInv` says what a job stands for (`JobsInv`: a finished
  create has an object, a finished destroy's is gone, a cancelled one is `irregular`), what the RPC may conclude
  from the jobs it has started, and that a first failure left none. Until something irregular happens, every
  step maps to a step of the contract or to a stutter.
* **SmithyServerProofs**: `Spec => []SmithyInv`, and from it `TypeOK`, `StateIsTrue`; `WrittenAsPlanned` as an
  action property, and `Spec => KeepsContract`. `SmithyInv` follows a value all the way: names stay with their
  objects (`WorldInv`), a recorded key is that of the object the state is about (`HeldInv`), an input is what
  the operation takes of the plan or the state, an answer shows the object as it is while nobody has touched it,
  and what is recorded is true until `stale`, up to what an answer makes of it (`Shows`, for any `ReKeyed`).
* **FetchCacheProofs**: `Spec => []CacheInv`, and from it `TypeOK`, `PublishedWhole`, `Pinned` and `PinSettles`, for any number of
  processes that overlap in any way, on a disk that fails. `CacheInv` says that a staged file is not the published one,
  what a process that is alone at the staging name finds there (`InFlight`), that until two overlap whoever is past a miss is
  alone (`Alone`), and that meanwhile what was served is what is pinned (`ServedIsPinned`).
* **ResourceTypeProofs**, documents: `BuildSpec => []BuildInv`, and from it `EveryReadIsAccountedFor`,
  `PrereleaseDisturbsNobody` and `ParamsAreUsable`, for every document, ranking of versions and translation of schemas,
  from `MappingAssumption` (a path has one operation of a method, as in any OpenAPI document) and `BuildAssumption` (a
  schema has finitely many attributes). `BuildInv` says between two rounds of Build's loop what has been looked at and
  what became of it; that no later type takes the place of an earlier one is `UniqueNames`: two resources of one
  name are one. It needs the orders of the two sorts to be strict and total: words are compared at the least place
  where they differ, and of the operations of a path, of which an unordered map was ranged over, one comes first
  (`FirstOperation`). For a pre-release, everything that becomes a candidate by it bears the new name (`NewCandidates`),
  which the one it was published beside outranks, and so whoever outranks that; whoever lost before loses still.
  `ParamsAreUsable` is proved along the path: a round adds an attribute, or a name that is free, of which there is one
  by the pigeonhole principle, and disturbs nothing that was there. Its hypothesis `SuffixesDiffer` says that different
  numbers give different names, as `fmt.Sprintf("%s_path%d", p, n)` does (`dynserver/build.go:250`).
  `RangingNamesNothing`: types and what they read are the same in whatever order a map was ranged over.
* **ResourceTypeProofs**, states: `CarryInv`, all the run's properties, and `TouchesOwn`, from `CarryAssumption` alone, which
  lets a carried attribute be computed, a read parameter optional and an answer leave parameters out. The invariant says
  that a recorded state agrees with the object as last seen, up to carrying and normalising.
* **SnapshotReleaseProofs**: `Spec => []ReleaseInv`, and from it `TypeOK`, `RoundTrip`,
  `VersionCoversContent` and `SemverPromise`. `RoundTrip` needs to know which files a run has written so far (`WrittenInv`), whatever was
  in the directory before. `VersionCoversContent` speaks of the level between the last release and a directory that
  was written in several runs, each of which compared with its own predecessor: the proof is that levels obey a
  triangle inequality (the level between the first and the third content is at most the higher of the two between), which
  is proved up from flags and types through attributes and blocks to whole groups, and that a version raised twice
  covers the higher of the two. `SemverPromise` is about pairs of releases that need not follow each other. That a
  difference below major which is none of the three gaps leaves a program working is proved from flags and types up to
  groups, as the triangle inequality is. `PromiseInv` follows a program of the latest release through what is compared
  next: the directory, the group of a run, and the directory while that group is being written over it all
  serve the program as long as the major version is the same (`Serves`). The directory has to be followed, and
  not only the releases, because a run that died leaves it for the next one to compare itself with.
* **PinningProofs**: `SameMeaning`, `PinnedIsTheTable` and `RecutIsQuiet`, from `PinSpec => []PinnedInv`, for every number of
  files, names, definitions and editions, from `BundleAssumption` and `PinningAssumption`, which say what a document that loads is
  and which tables `config.validate` lets through. `BundleInv` follows the walk: whatever is inside a
  walked place was met (`NothingForgotten`), what stands in another file is known to (`ForeignIsKnown`, which needs
  `NoBorrowedEntry`), and what was rewritten names an entry that was made for it (`RewrittenInv`). That two strings never
  get one name is because the strings sorting before grow strictly, so that their numbers do; that every own entry is
  read back, though it may be a reference to a reference, is by the least `length` of a counterexample. `WalkInv` follows it from
  the text alone, so that what is renamed, and to what, turns out to be a function of the text (`RefsOf`) if nothing leads
  back into the document, in whatever order entries are taken and references rewritten. `PinInv`
  says what a member is: its table as far as its source keeps it, and the document as it was fetched, renamed as
  `RefsOf` says (`SnapFits`), with the same of the members and jobs of a run that is going on (`RunFits`), and for a recut that
  each member made is the one it was made of (`MadeAgain`). From it, what each of the four servers builds is compared
  with what the table would have built, source by source.
* **GroupProofs**: `Spec => []GroupInv`, and from it all properties of `MCGroup`, for any number of
  members and types. The properties speak of a launch that is over; `GroupInv` says what holds between two
  merges: whatever has been merged is kept (`MergedIsKept`), what is kept comes from a merged member
  (`KeptIsMerged`), the same one level up for sources (`AddedIsPlaced`, `PlacedIsAdded`), the three tables
  agree (`TablesAgree`), and no source was passed over (`NoneSkipped`). `RefusedForCause` needs
  `KeptIsMerged`, since the refusal names a copy and not the member that still has it. That a set of
  numbers has a least element, which the order of members and sources rests on, is `LeastOf`, from the
  library's theorem on well-founded relations.

`TypeOK` of every one of these, and `FirstRefusalIsFinal`, `GoneMeansGone`, `TouchesOwn`, are proved and
in no run: a run that checked them beside what implies them or is implied would show nothing.

Only model-checked: all liveness, `GenerationEnds` among it (out of this prover's reach), and `NothingFlattened` and
`ReadOnlyStaysComputed`, which are about what a recursion over a graph of schemas computes. That takes an induction over
data that the prover cannot do, and `RECURSIVE` operators (`Translate`), which it does not take.

## 5. Disagreements between the code and what is said of it

One has a run that reproduces it, `MCFetchCacheOverlap`: two processes that both find nothing at `ReadFile` before either
has renamed its file fetch each, and return each what it was answered (`fetchcache/fetchcache.go:56-71` against 24-27:
"every fetch of the same URL within that directory's lifetime returns the identical bytes the first fetch in that
directory saw, regardless of how many separate process invocations ask for it"). The others were met while modelling.
Where a model has one, the constants or the condition to drop are named.

**Calls and RPCs**

* A write that was repeated and then refused is reported as terminal, as if nothing had happened, though the first
  attempt may have been carried out (`dynserver/server.go:113` against 587-589): `FirstRefusalIsCertain` without its
  condition on the number of attempts.
* A client without a deadline waits for ever (`restexec/restexec.go:57` against the comment at 49-53):
  `CallTerminates` with `Bounded = FALSE`.
* A `Retry-After` in seconds is multiplied by 10⁹ without a bound: a large one overflows to a wait of nothing, or
  of any length (`restexec/retry.go:164`): `SignalIsKept` without its bound.
* A write whose answer does not decode ends in a terminal diagnostic although it was carried out
  (`dynserver/server.go:441` against `restexec/classify.go:39-43`).
* A refused poll is a terminal diagnostic while the job goes on (`dynserver/async.go:61` against 27-36):
  `NothingLostSilently` with `Async = TRUE`.
* A plan that changes a path parameter in place sends the update to the new address, where the object is not
  (`dynserver/server.go:480`); such a parameter is assumed to force replacement.
* An imported state is not normalised, so the first refresh shows drift nobody caused
  (`dynserver/server.go:253` against `policy.go:198-200`), and a read parameter that the answer leaves out
  is null in it (253 against 246-252): `NoFalseDrift` and `Addressable` without their conditions on `raw`.
* A carried attribute that the API assigns is planned Unknown, and that is carried over the answer that has its value
  (`dynserver/build.go:228` and `crud.go:113` against `server.go:350-354`, "Computed attributes resolve to their real value
  only once ApplyResourceChange actually calls the API"). If it is a read parameter, nothing recorded leads to the object any
  more, and after an asynchronous create nothing is recorded at all (`async.go:116` against 98-99): `Addressable` and
  `NothingOrphaned` without their conditions on `assigned`.
* A delete job that was cancelled is answered as a finished destroy (`cloudformation/server/server.go:408`: only `FAILED`
  is a failure): `KeepsContract` without its condition on `irregular`.
* A delete job that fails because the object is gone is an error and not a finished destroy, so repeating
  the destroy never converges through this path (`cloudformation/server/server.go:408` against
  `notfound_test.go:76-79`); a refused final read makes a finished create a terminal diagnostic
  (`server.go:448`); a 2xx with an empty body makes the poll dereference a nil event (`ccapi/client.go:282`,
  used at `cloudformation/server/server.go:425`): outcome `panic` in `CCServer`.
* `buildPatch` of nothing marshals to `null` and never to `[]`, so the shortcut for an update without a change never
  applies (`cloudformation/server/server.go:336`).
* Over a Smithy service an object is *not found* only by status 404 (`smithy/server/server.go:254`, 405), while
  `wireexec/client.go:39-44` and `codec.go:69-78` say `IsNotFound` "keeps working unchanged regardless of" the protocol and
  `restexec/restexec.go:207-214` that an awsJson1_0 service answers 400 for a missing resource. Of a service that declares 400,
  as SQS does, an object is never *gone* on a read, and destroying it fails for ever; of one that declares 404 over the same
  kind of protocol, as SNS does (`smithy/testdata/sns.json:3691-3706`), it is. `Misses` in `SmithyServer` goes by `missing404`.
* The members of a structure are sent under their snake-case names, which a service does not know
  (`smithy/wireexec/client.go:171-174`, `binding.go:78-112`), and the keys of maps, which are the user's own, come back in snake case
  (`xmlcodec.go:109-126`, called at `client.go:100`, 144, 198, 274), so that `Environment` of a Lambda function is neither set
  nor read as planned. `binding.go:14-23` says the mapping is re-derived from the model "at request/response time". Members that
  are bound to the payload, to all of the query or to a prefix of headers go into the JSON body (111-112). `WrittenAsPlanned`
  and `StateIsTrue` without `rt.garbled` and with `ReadAs` the identity.
* A create that is answered without a body panics when the answer is merged, after the object exists, unless every attribute
  was an input (`smithy/server/helpers.go:65`): outcome `panic` of `CreateDone`. The create-only inputs of other
  resources go null at the first refresh.
* A silent update records attributes its operation never took, and Unknowns as they are
  (`smithy/server/server.go:369`); a read records what it sent and was not told, so a change made by somebody
  else does not show: `StateIsTrue` without `SilentUpdatesTakeAll`, without `ReadsTellAll`.
* The parts of an import ID are assigned in the order of an iteration over a map (`smithy/wireexec/members.go:31`,
  `server/helpers.go:70`: "in order"); an identifier that is a URL has the separator in it, so SQS queues
  cannot be imported; what an import records is not merged with its input.
* Errors of `wireexec` before anything is sent are reported as ambiguous, and a JSON answer that is no object becomes a
  state of nulls (`wire/wire.go:215`).
* No server can read a data source it offers: `ReadDataSource` is refused because a read "goes through
  ReadResource, keyed by the data source's own WireType" (`smithy/server/server.go:433-440`,
  `dynserver/server.go:634-638`), but `ReadResource` looks the type up among resources only, and
  `mixedserver/server.go:179` routes it by the owners of resources. In `Group`, a type that is offered as a
  data source only is `unsupported` in one role and `unknown` in the other.

**Files and releases**

* Two processes that miss at once share one staging file, so that what is published may be a mixture
  (`fetchcache/fetchcache.go:66-68` against 24-27): `PublishedWhole` without its condition. An error of `ReadFile` on a body that is
  there is a miss, so that the URL is fetched again and the pin replaced (56-68), and an error of storing is not reported:
  `Pinned` without `swallowed`, `PinSettles` without its first disjunct.
* Three changes break programs but are not rated major, against the comment at `snapshot/diff.go:38-41`: an
  attribute that becomes the API's alone after it could be set (no change, 393-394), a new attribute that is
  required at once (minor), a required attribute that can no longer be set (minor): `SemverPromise` without its
  condition is violated by each.
* A group that has no identities any more leaves the old `identity.json` in place (`snapshot/snapshot.go:567`), and
  it is loaded again; `RoundTrip` exempts it. Files of members that left stay too, unread. A run that dies
  after a manifest that lists a new member, and before that member's file, leaves a directory that later
  runs cannot load until it is restored.
* A change that is not in the schema (base URL, authentication, retry policy, excludes) does not raise the
  version, and the gate discards it (`snapshot/generate.go:131`).

**Groups**

* Where the exclude table names every copy of a type, the first to be placed stays, so the outcome depends
  on the order of names (`snapshot/mergegroup.go:105` against 79-83, "regardless of which member happens to
  be processed first"). `Namespaces` keeps the first source's namespace for a type even if a later source
  becomes its owner, and `--dump-signals` refuses a group of several sources.
* All CloudFormation resources of a group are carried out with the first member's client
  (`cmd/ubx-provider-dynamic/main.go:1129`), which the comment at 1109-1119 says; `RequestsGoHome` exempts it.

**Snapshots of a table** (the conditions of `SameMeaning`, `PinnedIsTheTable` and `RecutIsQuiet`, dropped)

* The table that `generateGroupMembersFromSnapshot` makes of a member never has `redocly_bundle` set, since a member has no such
  field, so a recut loads the description without Redocly's bundler and finds every operation empty
  (`cmd/ubx-provider-dynamic/main.go:1593` against 1548-1550: "Every field a live [dynamic_providers.<name>] table would have
  carried is already present on each committed member's own MemberSnapshot"): `NoRedocly`.
* A description in several files does not serve the same types live and pinned. `Bundle` gives a schema of another file a
  name of the document's own (`openapi/bundle.go:359-363`), and is called for snapshots only: `run` never calls it
  (`cmd/ubx-provider-dynamic/main.go:715-765`). Nouns, creates and properties are told by such names
  (`resourcemap/resourcemap.go:675-722`, 366-386, 607-610), against `main.go:931-938`, "the same real translation the live-fetch
  path runs", and `openapi/bundle.go:47-51`, which says that the translator never looks at `Ref`: `InOneFile`.
* Where another file refers back into the document by its name, what it means there is renamed if `collect` comes to it from that
  file, and not if it has come to it before; the order is a map's (`openapi/bundle.go:161`). So a recut may announce a
  change of nothing: `NamedAgain`, over `WayBack` in `MCPinning`.
* Two creates that tie (below) make a recut announce a change of nothing too: `OneCreate`, over `TieScenarios`.

* An override of one resource's behaviour is on the member and is not given to the server that is launched on it
  (`snapshot/generate.go:394` against `snapshot.go:198-200`): `NoOverrides`.
* A table with nothing but data sources and `namespace_from_tags` prints no namespaces live, but has them in its
  snapshot: `NoLoneTags`; without a data source it serves nothing live and is refused as a snapshot.
* The target prefix of awsJson services is demanded of a table and not of a snapshot; the two members of one table
  fetch the document one after the other, so that one release may hold two revisions of it; a table whose
  source has changed cannot be cut with its predecessor; a recut forgets the group's exclude table.
* `Bundle` tells definitions apart by the string that refers to them: the same `#/...` string in two files becomes
  one entry (`Unambiguous`), and an entry of the document that is itself a reference to another file has its
  insides taken for the document's own (`NoBorrowedEntry`), against `openapi/bundle.go:37-38`: "give each DISTINCT
  external target exactly ONE new entry under doc.Components".
* Whether such an entry is misread depends on the order in which `collect` ranges over the map of components
  (`openapi/bundle.go:161`), another one in every process, against `bundle.go:322-324`: "collect's own walk order
  doesn't affect Bundle's real output (name assignment is sorted independently in rewrite)". Let A have a property that
  refers to `#B`, let B be a reference to X in file 2, and let X refer to `#A` of its own file. If A comes first, the
  inside of X is walked as the document's own, marked visited and never collected, so that X's `#A` is written as it
  stands and read back as the document's A; if B comes first it is collected and rewritten. So one document cut twice
  may change though nothing was published: `RecutIsQuiet` without its condition on `outcome.misread`, over
  `BorrowedScenarios`.

**From a document to types** (the conditions of the properties of `MCBuild`, dropped)

* Two creates of one path compare as equal in an unstable sort of what was ranged over from a map
  (`resourcemap/resourcemap.go:389-394` against 337-338), so which of them makes the resource, and with it the attributes,
  is another one in every process. The types and their names are not affected (`RangingNamesNothing`), nor is any property
  of `MCBuild`; `RecutIsQuiet` is. Two reads that share a versioned name, one of which replaces the other: `NoTwinNames`. The "shortest path string" is the alphabetically first one.
* An object that has properties of its own and `allOf`, a union or `additionalProperties` keeps the properties only;
  an `allOf` of an `allOf` is ignored: `PlainObjects`. A top-level `oneOf` or `anyOf` gives no attributes. The
  signals, on the other hand, let the branches of an `allOf` override own properties.
* A circle through a list or a map is cut to an object without fields, and a list or map of itself is expanded
  until the stack ends, since neither enters the guard (`schema/translate.go:350-361`, 375-385): `NoRoundLists`.
* A property that is read-only in a create's `allOf` is not read-only in the merge; one that is read-only in the create
  and not in the read becomes optional and computed.
* A parameter both paths need gets a second attribute if the first was renamed; parameters declared for a path and not
  for its operations are not seen.

## 6. Plan

Done, in this order: RestAPI and RestExec; DynServer with its contract; their proofs; FetchCache; CCServer;
CarryForward, with imports; SchemaDiff and SnapshotRelease; Group and its proofs; Translate, Mapping and DynBuild;
Bundle and Pinning; SmithyServer; Backoff; the proofs of CCServer, SmithyServer and SnapshotRelease; `SemverPromise`;
the waits; the proofs of Bundle and Pinning; of Mapping and DynBuild, for which the recursion over schemas became a
parameter.

Next, the most important first:

1. **Summaries**: `Summarize` and `Namespaces` of a group against what the launched group offers.
2. **Smithy models**: which operations make a resource. Like `Mapping`, with verbs and nouns for paths.
3. **OAuth2Once**: an initialisation whose error is kept for the life of the process.

To keep the number of runs what the questions warrant, a new one takes the place of the least informative
check: what `KeepsContract` or a theorem already implies is not checked beside it.

## 7. What is not modelled, and why

`config`'s parsing, the format checks of `snapshot`, and the `smithy`, `cloudformation` and `discoverydoc` builders are
functions from one document to another without an order of events or a search; their unit tests read better than a model
would. Of `dsfilter` and `typename` only the letters of words are left out: which words count is constants of
`Mapping`. Request signing is cryptography. The wire codecs are data layout, of which `SmithyServer` has
what a codec refuses or leaves out. The command line selects among the rest; `Pinning` and `Group` have the paths on which
it decides something. The workflows run on somebody else's machine; only the release gate matters to a
property, and it is in `SnapshotRelease`.

Within the modelled parts, left out are: nested blocks and collections of attributes in states (one level is enough
for carrying and normalising, which work on top-level attributes), the length of a poll's interval, the texts of
diagnostics and descriptions, private state other than the mark that a destroy was planned, and plans, validation and
upgrades, which neither call the API nor keep anything.

Six hazards have no property, for reasons given in `PROJECT.json`: wall-clock durations, a gate outside the repository, and
four where the code does what section 5 lists, so that a property would only restate it.

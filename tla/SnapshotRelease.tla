--------------------------- MODULE SnapshotRelease ---------------------------
(***************************************************************************)
(* internal/snapshot and --generate-snapshot-group: the life of one        *)
(* provider group's published snapshot, from release to release.           *)
(*                                                                         *)
(* A run loads the group's directory as its predecessor, fetches every     *)
(* member, derives the next version from what has changed and writes the   *)
(* group back, file by file: the manifest first, then the identities, then *)
(* the members in order.  The run may fail or be killed at any point and   *)
(* leave the directory as it is by then; somebody may restore it from the  *)
(* last commit or just start the next run on it.  A finished run is        *)
(* committed and released if its version is newer than the last one's,     *)
(* a gate that the comments of AssembleGroup describe.  A member stands    *)
(* for what the diff sees of it, its schema.                               *)
(***************************************************************************)
EXTENDS SchemaDiff, Sequences

CONSTANTS
    Members,      \* the members a group may bundle, in the order of their names
    Schemas(_),   \* the schemas a member's URL may answer with
    Identified,   \* the members that report identities (CloudFormation's)
    Binary,       \* the version of the binary that generates
    Unstamped,    \* the stamp of a snapshot made before binaries had one
    Missing,      \* a file that is not there
    Torn,         \* a file that does not parse
    MaxMajor,     \* bound: the major number of a version
    MaxMinor,     \* bound: its minor number and its patch number
    MaxReleases   \* bound: how many releases are made

ASSUME ReleaseAssumption ==
    /\ Members \subseteq Nat
    /\ Identified \subseteq Members
    /\ Binary # Unstamped
    /\ Missing # Torn
    /\ MaxMajor \in Nat \ {0} /\ MaxMinor \in Nat
    /\ MaxReleases \in Nat

VARIABLES
    tree,         \* the group's directory
    committed,    \* the directory as it was committed last
    run,          \* the run of the generator, and the group it has assembled
    releases,     \* history: the snapshots released so far
    understated   \* history: a run met a breach that DiffLevel does not see

vars == <<tree, committed, run, releases, understated>>

Versions == [major : 0..MaxMajor, minor : 0..MaxMinor, patch : 0..MaxMinor]

Content == UNION {Schemas(m) : m \in Members}

\* What a group bundles: some members, each with its schema.
Bundles == UNION {[ms -> Content] : ms \in SUBSET Members}

Stamps == {Binary, Unstamped}

Snapshots == [version : Versions, by : Stamps, members : Bundles, identity : Bundles]

Manifests == [version : Versions, by : Stamps, members : SUBSET Members]

Directories ==
    [manifest : Manifests \cup {Missing, Torn},
     identity : Bundles \cup {Missing, Torn},
     member : [Members -> Content \cup {Missing, Torn}]]

\* A file that is there and parses is not taken for one that is not.
ASSUME FilesAssumption ==
    {Missing, Torn} \cap (Manifests \cup Bundles \cup Content) = {}

EmptyDirectory ==
    [manifest |-> Missing, identity |-> Missing, member |-> [m \in Members |-> Missing]]

NoBundle == [m \in {} |-> Missing]

Only(bundle, ms) == [m \in DOMAIN bundle \cap ms |-> bundle[m]]

\* left: the members still to be written.
Runs == [pc : {"idle", "manifest", "identity", "members", "saved"},
         group : Snapshots, left : SUBSET Members]

TypeOK ==
    /\ tree \in Directories
    /\ committed \in Directories
    /\ run.pc # "idle" => run \in Runs
    /\ releases \in Seq(Snapshots)
    /\ understated \in BOOLEAN
-----------------------------------------------------------------------------
(* LoadSplit                                                                *)

\* The manifest and every member it lists parse; members it does not list
\* are not looked at.  An identity.json may be absent but not unreadable.
Loads(dir) ==
    /\ dir.manifest \notin {Missing, Torn}
    /\ \A m \in dir.manifest.members : dir.member[m] \notin {Missing, Torn}
    /\ dir.identity # Torn

LoadSplit(dir) ==
    [version  |-> dir.manifest.version,
     by       |-> dir.manifest.by,
     members  |-> [m \in dir.manifest.members |-> dir.member[m]],
     identity |-> IF dir.identity = Missing THEN NoBundle ELSE dir.identity]
-----------------------------------------------------------------------------
(* AssembleGroup                                                            *)

FirstVersion == [major |-> 1, minor |-> 0, patch |-> 0]

NextVersion(v, level) ==
    CASE level = Major    -> [major |-> v.major + 1, minor |-> 0, patch |-> 0]
      [] level = Minor    -> [v EXCEPT !.minor = @ + 1, !.patch = 0]
      [] level = Patch    -> [v EXCEPT !.patch = @ + 1]
      [] level = NoChange -> v

\* memberChangeLevel of every member, the worst of them: a new member is an
\* addition, one that has disappeared a breach, whatever it held.
MembersLevel(old, new) == ByName(old, new, DiffLevel)

\* A first stamp, or any other when that is asked for, is worth a patch.
GroupLevel(prev, members, forced) ==
    LET level == MembersLevel(prev.members, members) IN
    IF level = NoChange /\ (prev.by = Unstamped \/ (forced /\ prev.by # Binary))
    THEN Patch ELSE level

AssembleGroup(version, members) ==
    [version |-> version, by |-> Binary, members |-> members,
     identity |-> Only(members, Identified)]
-----------------------------------------------------------------------------
\* A group published before snapshots were stamped, or none yet.
Init ==
    /\ \/ tree = EmptyDirectory /\ releases = <<>>
       \/ \E m \in Members : \E s \in Schemas(m) :
            /\ tree = [EmptyDirectory EXCEPT
                         !.manifest = [version |-> FirstVersion, by |-> Unstamped, members |-> {m}],
                         !.member[m] = s]
            /\ releases = <<LoadSplit(tree)>>
    /\ committed = tree
    /\ run = [pc |-> "idle"]
    /\ understated = FALSE

Begin(group) ==
    /\ group.version \in Versions
    /\ run' = [pc |-> "manifest", group |-> group, left |-> DOMAIN group.members]
    /\ UNCHANGED <<tree, committed, releases>>

\* What the members' URLs answer with.
Fetched == {b \in Bundles : DOMAIN b # {} /\ \A m \in DOMAIN b : b[m] \in Schemas(m)}

\* The first run for a group, without --prev-snapshot.
GenerateFirst ==
    /\ run.pc = "idle"
    /\ committed = EmptyDirectory
    /\ tree.manifest = Missing
    /\ \E members \in Fetched : Begin(AssembleGroup(FirstVersion, members))
    /\ UNCHANGED understated

\* A run with --prev-snapshot: the members are those of the configuration,
\* or those of the predecessor.  Nothing is written when the predecessor does
\* not load or a member cannot be fetched.
Generate ==
    /\ run.pc = "idle"
    /\ Loads(tree)
    /\ LET prev == LoadSplit(tree) IN
         \E members \in Fetched, forced \in BOOLEAN :
            /\ Begin(AssembleGroup(NextVersion(prev.version, GroupLevel(prev, members, forced)),
                                   members))
            /\ understated' = (understated \/
                 \E m \in DOMAIN prev.members \cap DOMAIN members :
                     Understated(prev.members[m], members[m]))

(***************************************************************************)
(* SaveSplit                                                               *)
(***************************************************************************)
ManifestOf(group) ==
    [version |-> group.version, by |-> group.by, members |-> DOMAIN group.members]

\* Bug: the version is stamped last, by another step.
WriteManifestWithOldVersion ==
    /\ run.pc = "manifest"
    /\ tree' = [tree EXCEPT !.manifest =
                  IF tree.manifest \in {Missing, Torn} THEN ManifestOf(run.group)
                  ELSE [ManifestOf(run.group) EXCEPT !.version = tree.manifest.version]]
    /\ run' = [run EXCEPT !.pc = "identity"]
    /\ UNCHANGED <<committed, releases, understated>>

WriteManifest ==
    /\ run.pc = "manifest"
    /\ tree' = [tree EXCEPT !.manifest = ManifestOf(run.group)]
    /\ run' = [run EXCEPT !.pc = "identity"]
    /\ UNCHANGED <<committed, releases, understated>>

\* A group without identities leaves the file as it is.
WriteIdentity ==
    /\ run.pc = "identity"
    /\ tree' = [tree EXCEPT !.identity = IF run.group.identity = NoBundle THEN @
                                         ELSE run.group.identity]
    /\ run' = [run EXCEPT !.pc = "members"]
    /\ UNCHANGED <<committed, releases, understated>>

NextMember == CHOOSE m \in run.left : \A n \in run.left : m <= n

WriteMember ==
    /\ run.pc = "members"
    /\ run.left # {}
    /\ tree' = [tree EXCEPT !.member[NextMember] = run.group.members[NextMember]]
    /\ run' = [run EXCEPT !.left = @ \ {NextMember}]
    /\ UNCHANGED <<committed, releases, understated>>

\* Bug: the last member is forgotten.
SavedEarly ==
    /\ run.pc = "members"
    /\ \A m, n \in run.left : m = n
    /\ run' = [run EXCEPT !.pc = "saved"]
    /\ UNCHANGED <<tree, committed, releases, understated>>

Saved ==
    /\ run.pc = "members"
    /\ run.left = {}
    /\ run' = [run EXCEPT !.pc = "saved"]
    /\ UNCHANGED <<tree, committed, releases, understated>>

Ended == [pc |-> "idle"]

\* os.WriteFile fails, or the process is killed in the middle of it: the file
\* was truncated and only begun.
Breaks ==
    /\ \/ run.pc = "manifest" /\ tree' = [tree EXCEPT !.manifest = Torn]
       \/ /\ run.pc = "identity" /\ run.group.identity # NoBundle
          /\ tree' = [tree EXCEPT !.identity = Torn]
       \/ /\ run.pc = "members" /\ run.left # {}
          /\ tree' = [tree EXCEPT !.member[NextMember] = Torn]
    /\ run' = Ended
    /\ UNCHANGED <<committed, releases, understated>>

\* The process dies, or fails, between two files.
Killed ==
    /\ run.pc # "idle"
    /\ run' = Ended
    /\ UNCHANGED <<tree, committed, releases, understated>>

(***************************************************************************)
(* Around the generator                                                    *)
(***************************************************************************)
Newer(v, w) ==
    \/ v.major > w.major
    \/ v.major = w.major /\ v.minor > w.minor
    \/ v.major = w.major /\ v.minor = w.minor /\ v.patch > w.patch

Latest == releases[Len(releases)]

Release ==
    /\ run.pc = "saved"
    /\ Len(releases) < MaxReleases
    /\ releases # <<>> => Newer(tree.manifest.version, Latest.version)
    /\ releases' = Append(releases, LoadSplit(tree))
    /\ committed' = tree
    /\ run' = Ended
    /\ UNCHANGED <<tree, understated>>

\* Not newer: the run is thrown away.  Or somebody cleans up after a failure.
Restore ==
    /\ run.pc = "saved" => releases # <<>> /\ ~Newer(tree.manifest.version, Latest.version)
    /\ run.pc \in {"idle", "saved"}
    /\ tree' = committed
    /\ run' = Ended
    /\ UNCHANGED <<committed, releases, understated>>

Next ==
    \/ GenerateFirst \/ Generate
    \/ WriteManifest \/ WriteIdentity \/ WriteMember \/ Saved
    \/ Breaks \/ Killed
    \/ Release \/ Restore

Spec == Init /\ [][Next]_vars
-----------------------------------------------------------------------------
(* Correctness.                                                             *)

\* The level at which two versions differ.
Bump(v, w) ==
    IF v.major # w.major THEN Major
    ELSE IF v.minor # w.minor THEN Minor
    ELSE IF v.patch # w.patch THEN Patch
    ELSE NoChange

\* Whatever was interrupted, the version in the directory answers for what
\* is in it: nothing there differs from the last release by more than the
\* version says.  A run that goes on from a half-written directory derives
\* its version from that of the manifest, which is why it is written first.
VersionCoversContent ==
    releases # <<>> /\ Loads(tree) =>
        LET now == LoadSplit(tree) IN
        MembersLevel(Latest.members, now.members) <= Bump(Latest.version, now.version)

\* What every program that pins a release relies on: as long as the major
\* version stays, it goes on working with later ones.
StableWithinMajor ==
    \A i, j \in 1..Len(releases) :
        /\ i < j
        /\ releases[i].version.major = releases[j].version.major
        => \A m \in DOMAIN releases[i].members :
              /\ m \in DOMAIN releases[j].members
              /\ StillWorks(releases[i].members[m], releases[j].members[m])

\* The same, as long as no run has met one of the breaches DiffLevel does not
\* see.
SemverPromise == ~understated => StableWithinMajor

\* A finished run's directory loads as the group it assembled, whatever was
\* in the directory before.  (Identities that the group no longer has are
\* the exception: their file stays.)
RoundTrip ==
    run.pc = "saved" =>
        /\ Loads(tree)
        /\ LoadSplit(tree).version = run.group.version
        /\ LoadSplit(tree).members = run.group.members
        /\ run.group.identity # NoBundle => LoadSplit(tree).identity = run.group.identity
=============================================================================

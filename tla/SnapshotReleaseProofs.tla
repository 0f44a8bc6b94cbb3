-------------------------- MODULE SnapshotReleaseProofs --------------------------
(***************************************************************************)
(* Proofs about SnapshotRelease, for any members, schemas and versions:    *)
(* every state is of its type; a finished run's directory loads as the     *)
(* group it assembled, whatever an earlier run has left there; the version *)
(* answers for the content; and the releases of one major version keep the *)
(* promise of semantic versions.                                           *)
(***************************************************************************)
EXTENDS SnapshotRelease, TLAPS, WellFoundedInduction

(***************************************************************************)
(* The invariant                                                           *)
(***************************************************************************)

\* The files written so far are the group's, and an identity file that was
\* torn has been written again: a directory without a manifest has none, and
\* any other is loaded before a run begins.
WrittenInv ==
    run.pc # "idle" =>
        /\ run.left \subseteq DOMAIN run.group.members
        /\ run.pc \in {"manifest", "identity"} => run.left = DOMAIN run.group.members
        /\ tree.identity # Torn
        /\ run.pc # "manifest" => tree.manifest = ManifestOf(run.group)
        /\ run.pc \in {"members", "saved"} =>
              /\ run.group.identity # NoBundle => tree.identity = run.group.identity
              /\ \A m \in DOMAIN run.group.members \ run.left :
                    tree.member[m] = run.group.members[m]
        /\ run.pc = "saved" => run.left = {}

Whole(dir) == dir.manifest = Missing => dir.identity # Torn

ReleaseInv ==
    /\ TypeOK
    /\ run.pc # "idle" => run \in Runs
    /\ WrittenInv
    /\ Whole(tree) /\ Whole(committed)

(***************************************************************************)
(* Records                                                                 *)
(***************************************************************************)
LEMMA Kinds ==
    /\ Members \subseteq Nat
    /\ Missing # Torn
    /\ Manifests \cap {Missing, Torn} = {} /\ Bundles \cap {Missing, Torn} = {}
    /\ Content \cap {Missing, Torn} = {}
    /\ Binary \in Stamps /\ Unstamped \in Stamps
  BY ReleaseAssumption, FilesAssumption DEF Stamps

WithManifest(dir, x) == [dir EXCEPT !.manifest = x]

WithIdentity(dir, x) == [dir EXCEPT !.identity = x]

WithMember(dir, m, x) == [dir EXCEPT !.member[m] = x]

LEMMA ManifestWritten ==
    ASSUME NEW dir \in Directories, NEW x \in Manifests \cup {Missing, Torn}
    PROVE  /\ WithManifest(dir, x) \in Directories
           /\ WithManifest(dir, x).manifest = x
           /\ WithManifest(dir, x).identity = dir.identity
           /\ WithManifest(dir, x).member = dir.member
  <1>1. WithManifest(dir, x) \in Directories
    BY ZenonT(60) DEF Directories, WithManifest
  <1> QED BY <1>1, ZenonT(60) DEF Directories, WithManifest

LEMMA IdentityWritten ==
    ASSUME NEW dir \in Directories, NEW x \in Bundles \cup {Missing, Torn}
    PROVE  /\ WithIdentity(dir, x) \in Directories
           /\ WithIdentity(dir, x).manifest = dir.manifest
           /\ WithIdentity(dir, x).identity = x
           /\ WithIdentity(dir, x).member = dir.member
  <1>1. WithIdentity(dir, x) \in Directories
    BY ZenonT(60) DEF Directories, WithIdentity
  <1> QED BY <1>1, ZenonT(60) DEF Directories, WithIdentity

LEMMA MemberWritten ==
    ASSUME NEW dir \in Directories, NEW m \in Members, NEW x \in Content \cup {Missing, Torn}
    PROVE  /\ WithMember(dir, m, x) \in Directories
           /\ WithMember(dir, m, x).manifest = dir.manifest
           /\ WithMember(dir, m, x).identity = dir.identity
           /\ WithMember(dir, m, x).member[m] = x
           /\ \A n \in Members \ {m} : WithMember(dir, m, x).member[n] = dir.member[n]
  <1> DEFINE f == [dir.member EXCEPT ![m] = x]
  <1>1. /\ f \in [Members -> Content \cup {Missing, Torn}] /\ f[m] = x
        /\ \A n \in Members \ {m} : f[n] = dir.member[n]
    BY DEF Directories
  <1>2. WithMember(dir, m, x) = [dir EXCEPT !.member = f]
    BY DEF WithMember
  <1> HIDE DEF f
  <1>3. [dir EXCEPT !.member = f] \in Directories
    BY <1>1, ZenonT(60) DEF Directories
  <1>4. /\ [dir EXCEPT !.member = f].manifest = dir.manifest
        /\ [dir EXCEPT !.member = f].identity = dir.identity
        /\ [dir EXCEPT !.member = f].member = f
    BY ZenonT(60) DEF Directories
  <1> QED BY <1>1, <1>2, <1>3, <1>4

Reaching(r, step) == [r EXCEPT !.pc = step]

Without(r, m) == [r EXCEPT !.left = @ \ {m}]

LEMMA RunReaches ==
    ASSUME NEW r \in Runs, NEW step \in {"identity", "members", "saved"}
    PROVE  /\ Reaching(r, step) \in Runs
           /\ Reaching(r, step).pc = step /\ Reaching(r, step).group = r.group
           /\ Reaching(r, step).left = r.left
  <1>1. Reaching(r, step) \in Runs
    BY ZenonT(60) DEF Runs, Reaching
  <1> QED BY <1>1, ZenonT(60) DEF Runs, Reaching

LEMMA RunGoesOn ==
    ASSUME NEW r \in Runs, NEW m
    PROVE  /\ Without(r, m) \in Runs
           /\ Without(r, m).pc = r.pc /\ Without(r, m).group = r.group
           /\ Without(r, m).left = r.left \ {m}
  <1>1. r.left \ {m} \in SUBSET Members
    BY DEF Runs
  <1>2. Without(r, m) = [r EXCEPT !.left = r.left \ {m}]
    BY DEF Without
  <1>3. Without(r, m) \in Runs
    BY <1>1, <1>2, ZenonT(60) DEF Runs
  <1> QED BY <1>1, <1>2, <1>3, ZenonT(60) DEF Runs

LEMMA Bundled ==
    ASSUME NEW b \in Bundles
    PROVE  /\ DOMAIN b \subseteq Members
           /\ \A m \in DOMAIN b : b[m] \in Content
           /\ b = [m \in DOMAIN b |-> b[m]]
  BY DEF Bundles

LEMMA RunTyped ==
    ASSUME NEW r \in Runs
    PROVE  /\ r.pc \in {"idle", "manifest", "identity", "members", "saved"}
           /\ r.group \in Snapshots /\ r.left \subseteq Members
           /\ r.group.version \in Versions /\ r.group.by \in Stamps
           /\ r.group.members \in Bundles /\ r.group.identity \in Bundles
           /\ DOMAIN r.group.members \subseteq Members
           /\ \A m \in DOMAIN r.group.members : r.group.members[m] \in Content
           /\ ManifestOf(r.group) \in Manifests
           /\ ManifestOf(r.group).version = r.group.version
           /\ ManifestOf(r.group).members = DOMAIN r.group.members
  <1>1. /\ r.pc \in {"idle", "manifest", "identity", "members", "saved"}
        /\ r.group \in Snapshots /\ r.left \subseteq Members
    BY DEF Runs
  <1>2. /\ r.group.version \in Versions /\ r.group.by \in Stamps
        /\ r.group.members \in Bundles /\ r.group.identity \in Bundles
    BY <1>1 DEF Snapshots
  <1>3. /\ DOMAIN r.group.members \subseteq Members
        /\ \A m \in DOMAIN r.group.members : r.group.members[m] \in Content
    BY <1>2, Bundled
  <1>4. /\ ManifestOf(r.group) \in Manifests
        /\ ManifestOf(r.group).version = r.group.version
        /\ ManifestOf(r.group).members = DOMAIN r.group.members
    BY <1>2, <1>3 DEF ManifestOf, Manifests
  <1> QED BY <1>1, <1>2, <1>3, <1>4

\* The next member to be written is one that is left.
LEMMA NextIsLeft ==
    ASSUME run.left \subseteq Nat, run.left # {}
    PROVE  NextMember \in run.left
  <1>1. PICK m \in run.left : \A n \in run.left : <<n, m>> \notin OpToRel(<, Nat)
    BY NatLessThanWellFounded, WFMin
  <1>2. \A n \in run.left : ~(n < m)
    BY <1>1 DEF OpToRel
  <1>3. \A n \in run.left : m <= n
    BY <1>2
  <1> QED BY <1>3 DEF NextMember

\* What loads is a snapshot.
LEMMA LoadsTyped ==
    ASSUME NEW dir \in Directories, Loads(dir)
    PROVE  LoadSplit(dir) \in Snapshots
  <1>1. dir.manifest \in Manifests /\ dir.identity \in Bundles \cup {Missing}
    BY DEF Loads, Directories
  <1>2. /\ dir.manifest.version \in Versions /\ dir.manifest.by \in Stamps
        /\ dir.manifest.members \in SUBSET Members
    BY <1>1 DEF Manifests
  <1>3. [m \in dir.manifest.members |-> dir.member[m]] \in [dir.manifest.members -> Content]
    BY <1>2 DEF Loads, Directories
  <1>4. [m \in dir.manifest.members |-> dir.member[m]] \in Bundles
    BY <1>2, <1>3 DEF Bundles
  <1>5. NoBundle \in Bundles
    BY DEF NoBundle, Bundles
  <1>6. (IF dir.identity = Missing THEN NoBundle ELSE dir.identity) \in Bundles
    BY <1>1, <1>5
  <1> QED BY <1>2, <1>4, <1>6 DEF LoadSplit, Snapshots

LEMMA OnlyTyped ==
    ASSUME NEW b \in Bundles, NEW ms
    PROVE  Only(b, ms) \in Bundles
  <1>1. DOMAIN b \cap ms \in SUBSET Members
    BY Bundled
  <1>2. Only(b, ms) \in [DOMAIN b \cap ms -> Content]
    BY Bundled DEF Only
  <1> QED BY <1>1, <1>2 DEF Bundles

(***************************************************************************)
(* The actions                                                             *)
(***************************************************************************)
LEMMA NotRunning ==
    ASSUME run.pc = "idle"
    PROVE  WrittenInv
  BY DEF WrittenInv

LEMMA EndedKeeps ==
    ASSUME ReleaseInv, run' = Ended, UNCHANGED <<committed, understated>>,
           tree' \in Directories, releases' \in Seq(Snapshots), Whole(tree)'
    PROVE  ReleaseInv'
  <1>1. run'.pc = "idle"
    BY DEF Ended
  <1>2. TypeOK'
    BY <1>1 DEF ReleaseInv, TypeOK
  <1>3. WrittenInv'
    BY <1>1 DEF WrittenInv
  <1>4. Whole(committed)'
    BY DEF ReleaseInv, Whole
  <1> QED BY <1>1, <1>2, <1>3, <1>4 DEF ReleaseInv

LEMMA BeginKeeps ==
    ASSUME ReleaseInv, NEW group \in Snapshots, Begin(group), understated' \in BOOLEAN,
           tree.identity # Torn
    PROVE  ReleaseInv'
  <1>1. /\ run' = [pc |-> "manifest", group |-> group, left |-> DOMAIN group.members]
        /\ UNCHANGED <<tree, committed, releases>>
    BY DEF Begin
  <1>2. group.members \in Bundles
    BY DEF Snapshots
  <1>3. DOMAIN group.members \in SUBSET Members
    BY <1>2, Bundled
  <1>4. run' \in Runs /\ run'.pc = "manifest" /\ run'.left = DOMAIN run'.group.members
    BY <1>1, <1>3 DEF Runs
  <1>5. TypeOK'
    BY <1>1, <1>4 DEF ReleaseInv, TypeOK
  <1>6. WrittenInv'
    BY <1>1, <1>4 DEF WrittenInv
  <1>7. Whole(tree)' /\ Whole(committed)'
    BY <1>1 DEF ReleaseInv, Whole
  <1> QED BY <1>4, <1>5, <1>6, <1>7 DEF ReleaseInv

LEMMA GenerateKeeps ==
    ASSUME ReleaseInv, GenerateFirst \/ Generate
    PROVE  ReleaseInv'
  <1>1. ASSUME NEW members \in Fetched, NEW v, Begin(AssembleGroup(v, members)),
               understated' \in BOOLEAN, tree.identity # Torn
        PROVE  ReleaseInv'
    <2> DEFINE group == AssembleGroup(v, members)
    <2>1. members \in Bundles
      BY DEF Fetched
    <2>2. v \in Versions
      BY <1>1 DEF Begin, AssembleGroup
    <2>3. Only(members, Identified) \in Bundles
      BY <2>1, OnlyTyped
    <2>4. group \in Snapshots
      BY <2>1, <2>2, <2>3, Kinds DEF AssembleGroup, Snapshots
    <2> QED BY <1>1, <2>4, BeginKeeps
  <1>2. CASE GenerateFirst
    <2>1. tree.identity # Torn /\ understated' \in BOOLEAN
      BY <1>2 DEF GenerateFirst, ReleaseInv, Whole, TypeOK
    <2>2. PICK members \in Fetched : Begin(AssembleGroup(FirstVersion, members))
      BY <1>2 DEF GenerateFirst
    <2> QED BY <1>1, <2>1, <2>2
  <1>3. CASE Generate
    <2>1. tree.identity # Torn
      BY <1>3 DEF Generate, Loads
    <2>2. PICK members \in Fetched, forced \in BOOLEAN :
             /\ Begin(AssembleGroup(NextVersion(LoadSplit(tree).version,
                                        GroupLevel(LoadSplit(tree), members, forced)), members))
             /\ understated' \in BOOLEAN
      BY <1>3 DEF Generate, ReleaseInv, TypeOK
    <2> QED BY <1>1, <2>1, <2>2
  <1> QED BY <1>2, <1>3

\* A file of the group is written.
LEMMA FileKeeps ==
    ASSUME ReleaseInv, run.pc # "idle", UNCHANGED <<committed, releases, understated>>,
           tree' \in Directories, run' \in Runs, run'.pc # "idle", WrittenInv',
           tree'.manifest # Missing
    PROVE  ReleaseInv'
  <1>1. TypeOK'
    BY DEF ReleaseInv, TypeOK
  <1>2. Whole(tree)' /\ Whole(committed)'
    BY DEF ReleaseInv, Whole
  <1> QED BY <1>1, <1>2 DEF ReleaseInv

LEMMA WriteManifestKeeps ==
    ASSUME ReleaseInv, WriteManifest
    PROVE  ReleaseInv'
  <1>1. /\ run.pc = "manifest" /\ tree' = WithManifest(tree, ManifestOf(run.group))
        /\ run' = Reaching(run, "identity")
        /\ UNCHANGED <<committed, releases, understated>>
    BY DEF WriteManifest, WithManifest, Reaching
  <1>2. run \in Runs /\ tree \in Directories /\ WrittenInv
    BY <1>1 DEF ReleaseInv, TypeOK
  <1>3. ManifestOf(run.group) \in Manifests /\ ManifestOf(run.group) # Missing
    BY <1>2, RunTyped, Kinds
  <1>4. /\ tree' \in Directories /\ tree'.manifest = ManifestOf(run.group)
        /\ tree'.identity = tree.identity
    BY <1>1, <1>2, <1>3, ManifestWritten
  <1>5. /\ run' \in Runs /\ run'.pc = "identity" /\ run'.group = run.group
        /\ run'.left = run.left
    BY <1>1, <1>2, RunReaches
  <1>6. WrittenInv'
    BY <1>1, <1>2, <1>4, <1>5 DEF WrittenInv
  <1> QED BY <1>1, <1>3, <1>4, <1>5, <1>6, FileKeeps

LEMMA WriteIdentityKeeps ==
    ASSUME ReleaseInv, WriteIdentity
    PROVE  ReleaseInv'
  <1> DEFINE identity == IF run.group.identity = NoBundle THEN tree.identity
                         ELSE run.group.identity
  <1>1. /\ run.pc = "identity" /\ tree' = WithIdentity(tree, identity)
        /\ run' = Reaching(run, "members")
        /\ UNCHANGED <<committed, releases, understated>>
    BY DEF WriteIdentity, WithIdentity, Reaching
  <1>2. run \in Runs /\ tree \in Directories /\ WrittenInv
    BY <1>1 DEF ReleaseInv, TypeOK
  <1>3. /\ run.group.identity \in Bundles /\ run.group.identity # Torn
        /\ ManifestOf(run.group) # Missing
    BY <1>2, RunTyped, Kinds
  <1>4. /\ identity \in Bundles \cup {Missing, Torn} /\ identity # Torn
        /\ run.group.identity # NoBundle => identity = run.group.identity
    BY <1>1, <1>2, <1>3 DEF WrittenInv, Directories
  <1> HIDE DEF identity
  <1>5. /\ tree' \in Directories /\ tree'.manifest = tree.manifest
        /\ tree'.identity = identity
    BY <1>1, <1>2, <1>4, IdentityWritten
  <1>6. /\ run' \in Runs /\ run'.pc = "members" /\ run'.group = run.group
        /\ run'.left = run.left
    BY <1>1, <1>2, RunReaches
  <1>7. tree.manifest = ManifestOf(run.group) /\ run.left \subseteq DOMAIN run.group.members
    BY <1>1, <1>2 DEF WrittenInv
  <1>8. WrittenInv'
    BY <1>1, <1>2, <1>4, <1>5, <1>6, <1>7 DEF WrittenInv
  <1> QED BY <1>1, <1>3, <1>5, <1>6, <1>7, <1>8, FileKeeps

LEMMA WriteMemberKeeps ==
    ASSUME ReleaseInv, WriteMember
    PROVE  ReleaseInv'
  <1>1. /\ run.pc = "members" /\ run.left # {}
        /\ tree' = WithMember(tree, NextMember, run.group.members[NextMember])
        /\ run' = Without(run, NextMember)
        /\ UNCHANGED <<committed, releases, understated>>
    BY DEF WriteMember, WithMember, Without
  <1>2. run \in Runs /\ tree \in Directories /\ WrittenInv
    BY <1>1 DEF ReleaseInv, TypeOK
  <1>3. /\ run.left \subseteq DOMAIN run.group.members
        /\ DOMAIN run.group.members \subseteq Members
        /\ ManifestOf(run.group) # Missing
    BY <1>1, <1>2, RunTyped, Kinds DEF WrittenInv
  <1>4. NextMember \in run.left
    BY <1>1, <1>3, Kinds, NextIsLeft
  <1>5. NextMember \in Members /\ run.group.members[NextMember] \in Content
    BY <1>2, <1>3, <1>4, RunTyped
  <1>6. SUFFICES ASSUME NEW m \in Members, NEW x \in Content, m \in run.left,
                        x = run.group.members[m],
                        tree' = WithMember(tree, m, x), run' = Without(run, m)
                 PROVE  ReleaseInv'
    BY <1>1, <1>4, <1>5
  <1>7. /\ tree' \in Directories /\ tree'.manifest = tree.manifest
        /\ tree'.identity = tree.identity /\ tree'.member[m] = x
        /\ \A n \in Members \ {m} : tree'.member[n] = tree.member[n]
    BY <1>2, <1>6, MemberWritten
  <1>8. /\ run' \in Runs /\ run'.pc = "members" /\ run'.group = run.group
        /\ run'.left = run.left \ {m}
    BY <1>1, <1>2, <1>6, RunGoesOn
  <1>9. \A n \in DOMAIN run'.group.members \ run'.left : tree'.member[n] = run'.group.members[n]
    <2>1. SUFFICES ASSUME NEW n \in DOMAIN run.group.members, n \notin run.left \ {m}
                   PROVE  tree'.member[n] = run.group.members[n]
      BY <1>8
    <2>2. CASE n = m
      BY <1>6, <1>7, <2>2
    <2>3. CASE n # m
      BY <1>1, <1>2, <1>3, <1>7, <2>1, <2>3 DEF WrittenInv
    <2> QED BY <2>2, <2>3
  <1>10. /\ tree.manifest = ManifestOf(run.group) /\ tree.identity # Torn
         /\ run.group.identity # NoBundle => tree.identity = run.group.identity
    BY <1>1, <1>2 DEF WrittenInv
  <1>11. WrittenInv'
    BY <1>3, <1>7, <1>8, <1>9, <1>10 DEF WrittenInv
  <1> QED BY <1>1, <1>3, <1>7, <1>8, <1>10, <1>11, FileKeeps

LEMMA SavedKeeps ==
    ASSUME ReleaseInv, Saved
    PROVE  ReleaseInv'
  <1>1. /\ run.pc = "members" /\ run.left = {} /\ run' = Reaching(run, "saved")
        /\ UNCHANGED <<tree, committed, releases, understated>>
    BY DEF Saved, Reaching
  <1>2. run \in Runs /\ tree \in Directories /\ WrittenInv
    BY <1>1 DEF ReleaseInv, TypeOK
  <1>3. /\ run' \in Runs /\ run'.pc = "saved" /\ run'.group = run.group
        /\ run'.left = run.left
    BY <1>1, <1>2, RunReaches
  <1>4. tree'.manifest # Missing
    BY <1>1, <1>2, RunTyped, Kinds DEF WrittenInv
  <1>5. WrittenInv'
    BY <1>1, <1>2, <1>3 DEF WrittenInv
  <1> QED BY <1>1, <1>2, <1>3, <1>4, <1>5, FileKeeps

LEMMA BreaksKeeps ==
    ASSUME ReleaseInv, Breaks
    PROVE  ReleaseInv'
  <1>1. /\ run.pc # "idle" /\ run' = Ended
        /\ UNCHANGED <<committed, releases, understated>>
    BY DEF Breaks
  <1>2. run \in Runs /\ tree \in Directories /\ WrittenInv /\ releases \in Seq(Snapshots)
    BY <1>1 DEF ReleaseInv, TypeOK
  <1>3. tree' \in Directories /\ Whole(tree)'
    <2>1. CASE tree' = WithManifest(tree, Torn)
      BY <1>2, <2>1, ManifestWritten, Kinds DEF Whole
    <2>2. CASE run.pc = "identity" /\ tree' = WithIdentity(tree, Torn)
      <3>1. tree.manifest # Missing
        BY <1>2, <2>2, RunTyped, Kinds DEF WrittenInv
      <3> QED BY <1>2, <2>2, <3>1, IdentityWritten DEF Whole
    <2>3. CASE /\ run.pc = "members" /\ run.left # {}
               /\ tree' = WithMember(tree, NextMember, Torn)
      <3>1. run.left \subseteq Members /\ tree.manifest # Missing
        BY <1>2, <2>3, RunTyped, Kinds DEF WrittenInv
      <3>2. NextMember \in Members
        BY <2>3, <3>1, Kinds, NextIsLeft
      <3>3. ASSUME NEW m \in Members, tree' = WithMember(tree, m, Torn)
            PROVE  tree' \in Directories /\ tree'.manifest = tree.manifest
        BY <1>2, <3>3, MemberWritten
      <3> QED BY <2>3, <3>1, <3>2, <3>3 DEF Whole
    <2> QED BY <2>1, <2>2, <2>3 DEF Breaks, WithManifest, WithIdentity, WithMember
  <1> QED BY <1>1, <1>2, <1>3, EndedKeeps

\* A finished run's directory is the group's.
LEMMA SavedLoads ==
    ASSUME ReleaseInv, run.pc = "saved"
    PROVE  /\ Loads(tree)
           /\ LoadSplit(tree).version = run.group.version
           /\ LoadSplit(tree).members = run.group.members
           /\ run.group.identity # NoBundle => LoadSplit(tree).identity = run.group.identity
  <1>1. run \in Runs /\ tree \in Directories /\ WrittenInv
    BY DEF ReleaseInv, TypeOK
  <1>2. /\ tree.manifest = ManifestOf(run.group) /\ tree.identity # Torn
        /\ run.group.identity # NoBundle => tree.identity = run.group.identity
        /\ \A m \in DOMAIN run.group.members : tree.member[m] = run.group.members[m]
    BY <1>1 DEF WrittenInv
  <1>3. /\ tree.manifest \in Manifests
        /\ tree.manifest.version = run.group.version
        /\ tree.manifest.members = DOMAIN run.group.members
        /\ \A m \in DOMAIN run.group.members : run.group.members[m] \in Content
        /\ run.group.members \in Bundles /\ run.group.identity \in Bundles
    BY <1>1, <1>2, RunTyped
  <1>4. Loads(tree)
    <2>1. tree.manifest \notin {Missing, Torn}
      BY <1>3, Kinds
    <2>2. \A m \in tree.manifest.members : tree.member[m] \notin {Missing, Torn}
      BY <1>2, <1>3, Kinds
    <2> QED BY <1>2, <2>1, <2>2 DEF Loads
  <1>5. LoadSplit(tree).members = run.group.members
    <2>1. run.group.members = [m \in DOMAIN run.group.members |-> run.group.members[m]]
      BY <1>3, Bundled
    <2>2. LoadSplit(tree).members = [m \in DOMAIN run.group.members |-> tree.member[m]]
      BY <1>3 DEF LoadSplit
    <2> QED BY <1>2, <2>1, <2>2
  <1>6. run.group.identity # NoBundle => LoadSplit(tree).identity = run.group.identity
    BY <1>2, <1>3, Kinds DEF LoadSplit
  <1> QED BY <1>3, <1>4, <1>5, <1>6 DEF LoadSplit

LEMMA LeavesKeeps ==
    ASSUME ReleaseInv, Killed \/ Release \/ Restore
    PROVE  ReleaseInv'
  <1>1. CASE Killed
    <2>1. /\ run' = Ended /\ UNCHANGED <<tree, committed, releases, understated>>
      BY <1>1 DEF Killed
    <2> QED BY <2>1, EndedKeeps DEF ReleaseInv, TypeOK, Whole
  <1>2. CASE Restore
    <2>1. /\ run' = Ended /\ tree' = committed
          /\ UNCHANGED <<committed, releases, understated>>
      BY <1>2 DEF Restore
    <2> QED BY <2>1, EndedKeeps DEF ReleaseInv, TypeOK, Whole
  <1>3. CASE Release
    <2>1. /\ run.pc = "saved" /\ run' = Ended /\ committed' = tree
          /\ releases' = Append(releases, LoadSplit(tree))
          /\ UNCHANGED <<tree, understated>>
      BY <1>3 DEF Release
    <2>2. Loads(tree) /\ tree \in Directories
      BY <2>1, SavedLoads DEF ReleaseInv, TypeOK
    <2>3. releases' \in Seq(Snapshots)
      BY <2>1, <2>2, LoadsTyped DEF ReleaseInv, TypeOK
    <2>4. run'.pc = "idle"
      BY <2>1 DEF Ended
    <2>5. TypeOK' /\ WrittenInv' /\ Whole(tree)' /\ Whole(committed)'
      BY <2>1, <2>3, <2>4 DEF ReleaseInv, TypeOK, WrittenInv, Whole
    <2> QED BY <2>4, <2>5 DEF ReleaseInv
  <1> QED BY <1>1, <1>2, <1>3

(***************************************************************************)
(* What always holds, and that finished runs load                          *)
(***************************************************************************)
LEMMA InitReleaseInv == Init => ReleaseInv
  <1> SUFFICES ASSUME Init PROVE ReleaseInv
    OBVIOUS
  <1>1. run = [pc |-> "idle"] /\ committed = tree /\ understated = FALSE
    BY DEF Init
  <1>2. EmptyDirectory \in Directories /\ EmptyDirectory.manifest = Missing
        /\ EmptyDirectory.identity = Missing
    BY DEF EmptyDirectory, Directories
  <1>3. tree \in Directories /\ releases \in Seq(Snapshots) /\ tree.identity # Torn
    <2>1. CASE tree = EmptyDirectory /\ releases = <<>>
      BY <1>2, <2>1, Kinds
    <2>2. ASSUME NEW m \in Members, NEW s \in Schemas(m),
                 tree = [EmptyDirectory EXCEPT
                           !.manifest = [version |-> FirstVersion, by |-> Unstamped, members |-> {m}],
                           !.member[m] = s],
                 releases = <<LoadSplit(tree)>>
          PROVE  tree \in Directories /\ releases \in Seq(Snapshots) /\ tree.identity # Torn
      <3> DEFINE manifest == [version |-> FirstVersion, by |-> Unstamped, members |-> {m}]
      <3>1. FirstVersion \in Versions
        BY ReleaseAssumption DEF FirstVersion, Versions
      <3>2. manifest \in Manifests /\ manifest.members = {m}
        BY <3>1, Kinds DEF Manifests
      <3>3. s \in Content
        BY DEF Content
      <3> DEFINE named == WithManifest(EmptyDirectory, manifest)
      <3>4. tree = WithMember(named, m, s)
        BY <2>2 DEF WithManifest, WithMember
      <3> HIDE DEF manifest
      <3>5. /\ named \in Directories /\ named.manifest = manifest
            /\ named.identity = Missing
        BY <1>2, <3>2, ManifestWritten
      <3> HIDE DEF named
      <3>6. /\ tree \in Directories /\ tree.manifest = manifest
            /\ tree.identity = Missing /\ tree.member[m] = s
        BY <3>3, <3>4, <3>5, MemberWritten
      <3>7. Loads(tree)
        BY <3>2, <3>3, <3>6, Kinds DEF Loads
      <3>8. LoadSplit(tree) \in Snapshots
        BY <3>6, <3>7, LoadsTyped
      <3> QED BY <2>2, <3>6, <3>8, Kinds
    <2> QED BY <2>1, <2>2 DEF Init
  <1>4. run.pc = "idle"
    BY <1>1
  <1> QED BY <1>1, <1>3, <1>4, NotRunning DEF ReleaseInv, TypeOK, Whole

LEMMA NextKeepsReleaseInv == ReleaseInv /\ [Next]_vars => ReleaseInv'
  <1> SUFFICES ASSUME ReleaseInv, [Next]_vars PROVE ReleaseInv'
    OBVIOUS
  <1>1. CASE UNCHANGED vars
    BY <1>1 DEF vars, ReleaseInv, TypeOK, WrittenInv, Whole
  <1>2. CASE Next
    BY <1>2, GenerateKeeps, WriteManifestKeeps, WriteIdentityKeeps, WriteMemberKeeps,
       SavedKeeps, BreaksKeeps, LeavesKeeps DEF Next
  <1> QED BY <1>1, <1>2

\* The invariant holds throughout.
THEOREM ReleaseInvariant == Spec => []ReleaseInv
  <1> QED BY InitReleaseInv, NextKeepsReleaseInv, PTL DEF Spec

\* Every state is of its type: what is released is a snapshot, and the
\* directory holds files of the group, whole, torn or missing.
THEOREM ReleaseTypeCorrect == Spec => []TypeOK
  <1>1. ReleaseInv => TypeOK
    BY DEF ReleaseInv
  <1> QED BY <1>1, ReleaseInvariant, PTL

\* A finished run's directory loads as the group the run assembled, whatever
\* an interrupted run or an earlier release had left there.
THEOREM FinishedRunsLoad == Spec => []RoundTrip
  <1>1. ReleaseInv => RoundTrip
    BY SavedLoads DEF RoundTrip
  <1> QED BY <1>1, ReleaseInvariant, PTL

(***************************************************************************)
(* How the levels add up: what differs over two steps differs by no more   *)
(* than one of them does.                                                  *)
(***************************************************************************)
LEMMA RaisedAtMost ==
    ASSUME NEW S \in SUBSET Levels, NEW k \in Levels
    PROVE  Raised(S) \in Levels /\ (Raised(S) <= k <=> \A l \in S : l <= k)
  BY DEF Raised, Levels, Major, Minor, Patch, NoChange

\* The names alone: something new, something gone.
NamesWithin(old, new, k) ==
    /\ DOMAIN new \ DOMAIN old # {} => Minor <= k
    /\ DOMAIN old \ DOMAIN new # {} => Major <= k

LEMMA NamesAddUp ==
    ASSUME NEW a, NEW b, NEW c, NEW k \in Levels, NamesWithin(a, b, k), NamesWithin(b, c, k)
    PROVE  NamesWithin(a, c, k)
  BY DEF NamesWithin, Levels, Major, Minor, NoChange

\* The four uses of ByName.
LEMMA FieldsWithin ==
    ASSUME NEW old, NEW new, NEW k \in Levels
    PROVE  /\ ByName(old, new, diffLeaf) \in Levels
           /\ ByName(old, new, diffLeaf) <= k <=>
                 /\ NamesWithin(old, new, k)
                 /\ \A n \in DOMAIN old \cap DOMAIN new : diffLeaf(old[n], new[n]) <= k
  <1> DEFINE S == {Minor : n \in DOMAIN new \ DOMAIN old}
                  \cup {Major : n \in DOMAIN old \ DOMAIN new}
                  \cup {diffLeaf(old[n], new[n]) : n \in DOMAIN old \cap DOMAIN new}
  <1>1. S \in SUBSET Levels
    BY DEF diffLeaf, Levels, Major, Minor, NoChange
  <1>2. ByName(old, new, diffLeaf) = Raised(S)
    BY DEF ByName
  <1>3. (\A l \in S : l <= k) <=>
            /\ NamesWithin(old, new, k)
            /\ \A n \in DOMAIN old \cap DOMAIN new : diffLeaf(old[n], new[n]) <= k
    BY DEF NamesWithin
  <1> HIDE DEF S
  <1> QED BY <1>1, <1>2, <1>3, RaisedAtMost

LEMMA TypeLevel ==
    ASSUME NEW a, NEW b, NEW c, NEW k \in Levels
    PROVE  /\ diffType(a, b) \in Levels
           /\ diffType(a, b) <= k /\ diffType(b, c) <= k => diffType(a, c) <= k
  <1>1. diffType(a, b) \in Levels
    <2>1. ByName(a.fields, b.fields, diffLeaf) \in Levels
      BY FieldsWithin
    <2> QED BY <2>1 DEF diffType, Levels, Major, NoChange
  <1>2. ASSUME diffType(a, b) <= k, diffType(b, c) <= k, k # Major
        PROVE  diffType(a, c) <= k
    <2>1. /\ a.kind = b.kind /\ b.kind = c.kind
          /\ ByName(a.fields, b.fields, diffLeaf) <= k
          /\ ByName(b.fields, c.fields, diffLeaf) <= k
      BY <1>2 DEF diffType, Levels, Major, NoChange
    <2>2. /\ NamesWithin(a.fields, b.fields, k)
          /\ \A n \in DOMAIN a.fields \cap DOMAIN b.fields :
                diffLeaf(a.fields[n], b.fields[n]) <= k
      BY <2>1, FieldsWithin
    <2>3. /\ NamesWithin(b.fields, c.fields, k)
          /\ \A n \in DOMAIN b.fields \cap DOMAIN c.fields :
                diffLeaf(b.fields[n], c.fields[n]) <= k
      BY <2>1, FieldsWithin
    <2>4. NamesWithin(a.fields, c.fields, k)
      BY <2>2, <2>3, NamesAddUp
    <2>5. \A n \in DOMAIN a.fields \cap DOMAIN c.fields : n \in DOMAIN b.fields
      BY <1>2, <2>2 DEF NamesWithin, Levels, Major, NoChange
    <2>6. \A n \in DOMAIN a.fields \cap DOMAIN c.fields : diffLeaf(a.fields[n], c.fields[n]) <= k
      <3> SUFFICES ASSUME NEW n \in DOMAIN a.fields \cap DOMAIN c.fields
                   PROVE  diffLeaf(a.fields[n], c.fields[n]) <= k
        OBVIOUS
      <3>1. n \in DOMAIN b.fields
        BY <2>5
      <3>2. a.fields[n] = b.fields[n] /\ b.fields[n] = c.fields[n]
        BY <1>2, <2>2, <2>3, <3>1 DEF diffLeaf, Levels, Major, NoChange
      <3> QED BY <3>2 DEF diffLeaf, Levels, NoChange
    <2>7. ByName(a.fields, c.fields, diffLeaf) <= k
      BY <2>4, <2>6, FieldsWithin
    <2> QED BY <2>1, <2>7 DEF diffType
  <1>3. ASSUME k = Major PROVE diffType(a, c) <= k
    <2>1. ByName(a.fields, c.fields, diffLeaf) \in Levels
      BY FieldsWithin
    <2> QED BY <1>3, <2>1 DEF diffType, Levels, Major, NoChange
  <1> QED BY <1>1, <1>2, <1>3

LEMMA FlagsLevel ==
    ASSUME NEW a, NEW b, NEW c, NEW k \in Levels
    PROVE  /\ diffAttributeFlags(a, b) \in Levels
           /\ diffAttributeFlags(a, b) <= k /\ diffAttributeFlags(b, c) <= k
              => diffAttributeFlags(a, c) <= k
  <1>1. ASSUME NEW x, NEW y
        PROVE  /\ diffAttributeFlags(x, y) \in Levels
               /\ diffAttributeFlags(x, y) <= k <=>
                     /\ ~x.required /\ y.required => Major <= k
                     /\ x.required /\ ~y.required => Minor <= k
                     /\ (x.required <=> y.required) /\ Writable(x) /\ ~Writable(y) => Major <= k
                     /\ (x.required <=> y.required) /\ ~Writable(x) /\ Writable(y) => Minor <= k
                     /\ /\ (x.required <=> y.required) /\ (Writable(x) <=> Writable(y))
                        /\ x.text # y.text
                        => Patch <= k
    <2>1. CASE ~x.required /\ y.required
      BY <2>1 DEF diffAttributeFlags, Levels, Major, Minor, Patch, NoChange
    <2>2. CASE x.required /\ ~y.required
      BY <2>2 DEF diffAttributeFlags, Levels, Major, Minor, Patch, NoChange
    <2>3. CASE (x.required <=> y.required) /\ Writable(x) /\ ~Writable(y)
      BY <2>3 DEF diffAttributeFlags, Levels, Major, Minor, Patch, NoChange
    <2>4. CASE (x.required <=> y.required) /\ ~Writable(x) /\ Writable(y)
      BY <2>4 DEF diffAttributeFlags, Levels, Major, Minor, Patch, NoChange
    <2>5. CASE (x.required <=> y.required) /\ (Writable(x) <=> Writable(y))
      BY <2>5 DEF diffAttributeFlags, Levels, Major, Minor, Patch, NoChange
    <2> QED BY <2>1, <2>2, <2>3, <2>4, <2>5
  <1>2. Patch <= Minor /\ Minor <= Major /\ (Major <= k => Minor <= k) /\ (Minor <= k => Patch <= k)
    BY DEF Levels, Major, Minor, Patch, NoChange
  <1> QED BY <1>1, <1>2

LEMMA AttributeLevel ==
    ASSUME NEW a, NEW b, NEW c, NEW k \in Levels
    PROVE  /\ diffAttribute(a, b) \in Levels
           /\ diffAttribute(a, b) <= k /\ diffAttribute(b, c) <= k => diffAttribute(a, c) <= k
  <1>1. ASSUME NEW x, NEW y
        PROVE  /\ diffAttribute(x, y) \in Levels
               /\ diffAttribute(x, y) <= k <=>
                     diffType(x.type, y.type) <= k /\ diffAttributeFlags(x, y) <= k
    <2>1. {diffType(x.type, y.type), diffAttributeFlags(x, y)} \in SUBSET Levels
      BY TypeLevel, FlagsLevel
    <2> QED BY <2>1, RaisedAtMost DEF diffAttribute
  <1> QED BY <1>1, TypeLevel, FlagsLevel

LEMMA AttributesWithin ==
    ASSUME NEW old, NEW new, NEW k \in Levels
    PROVE  /\ ByName(old, new, diffAttribute) \in Levels
           /\ ByName(old, new, diffAttribute) <= k <=>
                 /\ NamesWithin(old, new, k)
                 /\ \A n \in DOMAIN old \cap DOMAIN new : diffAttribute(old[n], new[n]) <= k
  <1> DEFINE S == {Minor : n \in DOMAIN new \ DOMAIN old}
                  \cup {Major : n \in DOMAIN old \ DOMAIN new}
                  \cup {diffAttribute(old[n], new[n]) : n \in DOMAIN old \cap DOMAIN new}
  <1>1. \A x, y : diffAttribute(x, y) \in Levels
    BY AttributeLevel
  <1>2. S \in SUBSET Levels
    BY <1>1 DEF Levels, Major, Minor, NoChange
  <1>3. ByName(old, new, diffAttribute) = Raised(S)
    BY DEF ByName
  <1>4. (\A l \in S : l <= k) <=>
            /\ NamesWithin(old, new, k)
            /\ \A n \in DOMAIN old \cap DOMAIN new : diffAttribute(old[n], new[n]) <= k
    BY DEF NamesWithin
  <1> HIDE DEF S
  <1> QED BY <1>2, <1>3, <1>4, RaisedAtMost

LEMMA BlockLevel ==
    ASSUME NEW a, NEW b, NEW c, NEW k \in Levels
    PROVE  /\ diffBlock(a, b) \in Levels
           /\ diffBlock(a, b) <= k /\ diffBlock(b, c) <= k => diffBlock(a, c) <= k
  <1>1. diffBlock(a, b) \in Levels
    BY AttributesWithin DEF diffBlock
  <1>2. ASSUME diffBlock(a, b) <= k, diffBlock(b, c) <= k
        PROVE  diffBlock(a, c) <= k
    <2>1. /\ NamesWithin(a, b, k)
          /\ \A n \in DOMAIN a \cap DOMAIN b : diffAttribute(a[n], b[n]) <= k
      BY <1>2, AttributesWithin DEF diffBlock
    <2>2. /\ NamesWithin(b, c, k)
          /\ \A n \in DOMAIN b \cap DOMAIN c : diffAttribute(b[n], c[n]) <= k
      BY <1>2, AttributesWithin DEF diffBlock
    <2>3. NamesWithin(a, c, k)
      BY <2>1, <2>2, NamesAddUp
    <2>4. \A n \in DOMAIN a \cap DOMAIN c : diffAttribute(a[n], c[n]) <= k
      <3> SUFFICES ASSUME NEW n \in DOMAIN a \cap DOMAIN c
                   PROVE  diffAttribute(a[n], c[n]) <= k
        OBVIOUS
      <3>1. CASE n \in DOMAIN b
        BY <2>1, <2>2, <3>1, AttributeLevel
      <3>2. CASE n \notin DOMAIN b
        <4>1. Major <= k
          BY <2>1, <3>2 DEF NamesWithin
        <4>2. diffAttribute(a[n], c[n]) \in Levels
          BY AttributeLevel
        <4> QED BY <4>1, <4>2 DEF Levels, Major, NoChange
      <3> QED BY <3>1, <3>2
    <2> QED BY <2>3, <2>4, AttributesWithin DEF diffBlock
  <1> QED BY <1>1, <1>2

LEMMA BlocksWithin ==
    ASSUME NEW old, NEW new, NEW k \in Levels
    PROVE  /\ ByName(old, new, diffBlock) \in Levels
           /\ ByName(old, new, diffBlock) <= k <=>
                 /\ NamesWithin(old, new, k)
                 /\ \A n \in DOMAIN old \cap DOMAIN new : diffBlock(old[n], new[n]) <= k
  <1> DEFINE S == {Minor : n \in DOMAIN new \ DOMAIN old}
                  \cup {Major : n \in DOMAIN old \ DOMAIN new}
                  \cup {diffBlock(old[n], new[n]) : n \in DOMAIN old \cap DOMAIN new}
  <1>1. \A x, y : diffBlock(x, y) \in Levels
    BY BlockLevel
  <1>2. S \in SUBSET Levels
    BY <1>1 DEF Levels, Major, Minor, NoChange
  <1>3. ByName(old, new, diffBlock) = Raised(S)
    BY DEF ByName
  <1>4. (\A l \in S : l <= k) <=>
            /\ NamesWithin(old, new, k)
            /\ \A n \in DOMAIN old \cap DOMAIN new : diffBlock(old[n], new[n]) <= k
    BY DEF NamesWithin
  <1> HIDE DEF S
  <1> QED BY <1>2, <1>3, <1>4, RaisedAtMost

LEMMA SchemaLevel ==
    ASSUME NEW a, NEW b, NEW c, NEW k \in Levels
    PROVE  /\ DiffLevel(a, b) \in Levels
           /\ DiffLevel(a, b) <= k /\ DiffLevel(b, c) <= k => DiffLevel(a, c) <= k
  <1>1. DiffLevel(a, b) \in Levels
    BY BlocksWithin DEF DiffLevel
  <1>2. ASSUME DiffLevel(a, b) <= k, DiffLevel(b, c) <= k
        PROVE  DiffLevel(a, c) <= k
    <2>1. /\ NamesWithin(a, b, k)
          /\ \A n \in DOMAIN a \cap DOMAIN b : diffBlock(a[n], b[n]) <= k
      BY <1>2, BlocksWithin DEF DiffLevel
    <2>2. /\ NamesWithin(b, c, k)
          /\ \A n \in DOMAIN b \cap DOMAIN c : diffBlock(b[n], c[n]) <= k
      BY <1>2, BlocksWithin DEF DiffLevel
    <2>3. NamesWithin(a, c, k)
      BY <2>1, <2>2, NamesAddUp
    <2>4. \A n \in DOMAIN a \cap DOMAIN c : diffBlock(a[n], c[n]) <= k
      <3> SUFFICES ASSUME NEW n \in DOMAIN a \cap DOMAIN c
                   PROVE  diffBlock(a[n], c[n]) <= k
        OBVIOUS
      <3>1. CASE n \in DOMAIN b
        BY <2>1, <2>2, <3>1, BlockLevel
      <3>2. CASE n \notin DOMAIN b
        <4>1. Major <= k
          BY <2>1, <3>2 DEF NamesWithin
        <4>2. diffBlock(a[n], c[n]) \in Levels
          BY BlockLevel
        <4> QED BY <4>1, <4>2 DEF Levels, Major, NoChange
      <3> QED BY <3>1, <3>2
    <2> QED BY <2>3, <2>4, BlocksWithin DEF DiffLevel
  <1> QED BY <1>1, <1>2

LEMMA SchemataWithin ==
    ASSUME NEW old, NEW new, NEW k \in Levels
    PROVE  /\ ByName(old, new, DiffLevel) \in Levels
           /\ ByName(old, new, DiffLevel) <= k <=>
                 /\ NamesWithin(old, new, k)
                 /\ \A n \in DOMAIN old \cap DOMAIN new : DiffLevel(old[n], new[n]) <= k
  <1> DEFINE S == {Minor : n \in DOMAIN new \ DOMAIN old}
                  \cup {Major : n \in DOMAIN old \ DOMAIN new}
                  \cup {DiffLevel(old[n], new[n]) : n \in DOMAIN old \cap DOMAIN new}
  <1>1. \A x, y : DiffLevel(x, y) \in Levels
    BY SchemaLevel
  <1>2. S \in SUBSET Levels
    BY <1>1 DEF Levels, Major, Minor, NoChange
  <1>3. ByName(old, new, DiffLevel) = Raised(S)
    BY DEF ByName
  <1>4. (\A l \in S : l <= k) <=>
            /\ NamesWithin(old, new, k)
            /\ \A n \in DOMAIN old \cap DOMAIN new : DiffLevel(old[n], new[n]) <= k
    BY DEF NamesWithin
  <1> HIDE DEF S
  <1> QED BY <1>2, <1>3, <1>4, RaisedAtMost

LEMMA BundleLevel ==
    ASSUME NEW a, NEW b, NEW c, NEW k \in Levels
    PROVE  /\ MembersLevel(a, b) \in Levels
           /\ MembersLevel(a, b) <= k /\ MembersLevel(b, c) <= k => MembersLevel(a, c) <= k
  <1>1. MembersLevel(a, b) \in Levels
    BY SchemataWithin DEF MembersLevel
  <1>2. ASSUME MembersLevel(a, b) <= k, MembersLevel(b, c) <= k
        PROVE  MembersLevel(a, c) <= k
    <2>1. /\ NamesWithin(a, b, k)
          /\ \A n \in DOMAIN a \cap DOMAIN b : DiffLevel(a[n], b[n]) <= k
      BY <1>2, SchemataWithin DEF MembersLevel
    <2>2. /\ NamesWithin(b, c, k)
          /\ \A n \in DOMAIN b \cap DOMAIN c : DiffLevel(b[n], c[n]) <= k
      BY <1>2, SchemataWithin DEF MembersLevel
    <2>3. NamesWithin(a, c, k)
      BY <2>1, <2>2, NamesAddUp
    <2>4. \A n \in DOMAIN a \cap DOMAIN c : DiffLevel(a[n], c[n]) <= k
      <3> SUFFICES ASSUME NEW n \in DOMAIN a \cap DOMAIN c
                   PROVE  DiffLevel(a[n], c[n]) <= k
        OBVIOUS
      <3>1. CASE n \in DOMAIN b
        BY <2>1, <2>2, <3>1, SchemaLevel
      <3>2. CASE n \notin DOMAIN b
        <4>1. Major <= k
          BY <2>1, <3>2 DEF NamesWithin
        <4>2. DiffLevel(a[n], c[n]) \in Levels
          BY SchemaLevel
        <4> QED BY <4>1, <4>2 DEF Levels, Major, NoChange
      <3> QED BY <3>1, <3>2
    <2> QED BY <2>3, <2>4, SchemataWithin DEF MembersLevel
  <1> QED BY <1>1, <1>2

\* Nothing differs from itself.
LEMMA SameSchema ==
    ASSUME NEW a
    PROVE  DiffLevel(a, a) = NoChange
  <1>1. \A x : diffType(x, x) <= NoChange
    <2> SUFFICES ASSUME NEW x PROVE diffType(x, x) <= NoChange
      OBVIOUS
    <2>1. NoChange \in Levels /\ NamesWithin(x.fields, x.fields, NoChange)
      BY DEF NamesWithin, Levels, Major, NoChange
    <2>2. \A n \in DOMAIN x.fields : diffLeaf(x.fields[n], x.fields[n]) <= NoChange
      BY DEF diffLeaf, NoChange
    <2>3. ByName(x.fields, x.fields, diffLeaf) <= NoChange
      BY <2>1, <2>2, FieldsWithin
    <2> QED BY <2>3 DEF diffType
  <1>2. \A x : diffAttributeFlags(x, x) <= NoChange
    BY DEF diffAttributeFlags, NoChange
  <1>3. \A x : diffAttribute(x, x) <= NoChange
    <2> SUFFICES ASSUME NEW x PROVE diffAttribute(x, x) <= NoChange
      OBVIOUS
    <2>1. NoChange \in Levels
      BY DEF Levels, Major, NoChange
    <2>2. {diffType(x.type, x.type), diffAttributeFlags(x, x)} \in SUBSET Levels
      BY <2>1, TypeLevel, FlagsLevel
    <2> QED BY <1>1, <1>2, <2>1, <2>2, RaisedAtMost DEF diffAttribute
  <1>4. NoChange \in Levels /\ \A x : NamesWithin(x, x, NoChange)
    BY DEF NamesWithin, Levels, Major, NoChange
  <1>5. \A x : diffBlock(x, x) <= NoChange
    BY <1>3, <1>4, AttributesWithin DEF diffBlock
  <1>6. DiffLevel(a, a) <= NoChange
    BY <1>4, <1>5, BlocksWithin DEF DiffLevel
  <1>7. DiffLevel(a, a) \in Levels
    BY <1>4, SchemaLevel
  <1> QED BY <1>6, <1>7 DEF Levels, Major, NoChange

(***************************************************************************)
(* Versions                                                                *)
(***************************************************************************)
AtLeast(v, w) ==
    \/ v.major > w.major
    \/ v.major = w.major /\ v.minor > w.minor
    \/ v.major = w.major /\ v.minor = w.minor /\ v.patch >= w.patch

LEMMA VersionFields ==
    ASSUME NEW v \in Versions
    PROVE  v.major \in Nat /\ v.minor \in Nat /\ v.patch \in Nat
  BY ReleaseAssumption DEF Versions

LEMMA NextFields ==
    ASSUME NEW v \in Versions, NEW level \in Levels
    PROVE  LET w == NextVersion(v, level)
           IN  \/ level = Major /\ w.major = v.major + 1 /\ w.minor = 0 /\ w.patch = 0
               \/ level = Minor /\ w.major = v.major /\ w.minor = v.minor + 1 /\ w.patch = 0
               \/ level = Patch /\ w.major = v.major /\ w.minor = v.minor
                                /\ w.patch = v.patch + 1
               \/ level = NoChange /\ w = v
  <1>1. CASE level = Major
    BY <1>1 DEF NextVersion
  <1>2. CASE level = Minor
    <2>1. NextVersion(v, level) = [v EXCEPT !.minor = v.minor + 1, !.patch = 0]
      BY <1>2 DEF NextVersion, Levels, Major, Minor, Patch, NoChange
    <2>2. LET w == [v EXCEPT !.minor = v.minor + 1, !.patch = 0]
          IN  w.major = v.major /\ w.minor = v.minor + 1 /\ w.patch = 0
      BY ZenonT(60) DEF Versions
    <2> QED BY <1>2, <2>1, <2>2
  <1>3. CASE level = Patch
    <2>1. NextVersion(v, level) = [v EXCEPT !.patch = v.patch + 1]
      BY <1>3 DEF NextVersion, Levels, Major, Minor, Patch, NoChange
    <2>2. LET w == [v EXCEPT !.patch = v.patch + 1]
          IN  w.major = v.major /\ w.minor = v.minor /\ w.patch = v.patch + 1
      BY ZenonT(60) DEF Versions
    <2> QED BY <1>3, <2>1, <2>2
  <1>4. CASE level = NoChange
    BY <1>4 DEF NextVersion, Levels, Major, Minor, Patch, NoChange
  <1>5. level \in {Major, Minor, Patch, NoChange}
    BY DEF Levels, Major, Minor, Patch, NoChange
  <1> QED BY <1>1, <1>2, <1>3, <1>4, <1>5

LEMMA BumpLevel ==
    ASSUME NEW v, NEW w
    PROVE  Bump(v, w) \in Levels
  BY DEF Bump, Levels, Major, Minor, Patch, NoChange

\* The next version is further from the first by the level, at least.
LEMMA NextBumps ==
    ASSUME NEW v \in Versions, NEW w \in Versions, AtLeast(w, v), NEW level \in Levels
    PROVE  LET x == NextVersion(w, level)
           IN  /\ AtLeast(x, v)
               /\ Bump(v, w) <= Bump(v, x)
               /\ level <= Bump(v, x)
  <1> DEFINE x == NextVersion(w, level)
  <1>1. /\ v.major \in Nat /\ v.minor \in Nat /\ v.patch \in Nat
        /\ w.major \in Nat /\ w.minor \in Nat /\ w.patch \in Nat
    BY VersionFields
  <1>2. \/ level = Major /\ x.major = w.major + 1 /\ x.minor = 0 /\ x.patch = 0
        \/ level = Minor /\ x.major = w.major /\ x.minor = w.minor + 1 /\ x.patch = 0
        \/ level = Patch /\ x.major = w.major /\ x.minor = w.minor /\ x.patch = w.patch + 1
        \/ level = NoChange /\ x = w
    BY NextFields
  <1> HIDE DEF x
  <1>3. /\ AtLeast(x, v) /\ Bump(v, w) <= Bump(v, x) /\ level <= Bump(v, x)
    <2>1. CASE level = Major /\ x.major = w.major + 1 /\ x.minor = 0 /\ x.patch = 0
      BY <1>1, <2>1 DEF AtLeast, Bump, Major, Minor, Patch, NoChange
    <2>2. CASE level = Minor /\ x.major = w.major /\ x.minor = w.minor + 1 /\ x.patch = 0
      BY <1>1, <2>2 DEF AtLeast, Bump, Major, Minor, Patch, NoChange
    <2>3. CASE level = Patch /\ x.major = w.major /\ x.minor = w.minor /\ x.patch = w.patch + 1
      BY <1>1, <2>3 DEF AtLeast, Bump, Major, Minor, Patch, NoChange
    <2>4. CASE level = NoChange /\ x = w
      BY <1>1, <2>4 DEF AtLeast, Bump, Major, Minor, Patch, NoChange
    <2> QED BY <1>2, <2>1, <2>2, <2>3, <2>4
  <1> QED BY <1>3 DEF x

(***************************************************************************)
(* The version covers the content, written or half-written                 *)
(***************************************************************************)

\* Files f, for the members ms under version v, are no further from a release
\* than the version says; files that are torn or missing do not load.
Covers(rel, v, ms, f) ==
    LET k == Bump(rel.version, v) IN
    /\ AtLeast(v, rel.version)
    /\ ms \ DOMAIN rel.members # {} => Minor <= k
    /\ DOMAIN rel.members \ ms # {} => Major <= k
    /\ \A m \in ms \cap DOMAIN rel.members :
          f[m] \notin {Missing, Torn} => DiffLevel(rel.members[m], f[m]) <= k

\* While the manifest is not written, the members that are there are those of
\* earlier runs, and must not be too much for the version to come either.
CoverInv ==
    releases # <<>> =>
        /\ Loads(committed) /\ LoadSplit(committed) = Latest
        /\ tree.manifest \notin {Missing, Torn} =>
              Covers(Latest, tree.manifest.version, tree.manifest.members, tree.member)
        /\ run.pc # "idle" =>
              Covers(Latest, run.group.version, DOMAIN run.group.members, run.group.members)
        /\ run.pc = "manifest" =>
              Covers(Latest, run.group.version, DOMAIN run.group.members, tree.member)

LEMMA LatestTyped ==
    ASSUME ReleaseInv, releases # <<>>
    PROVE  Latest \in Snapshots /\ Latest.version \in Versions
  <1>1. releases \in Seq(Snapshots)
    BY DEF ReleaseInv, TypeOK
  <1>2. Latest \in Snapshots
    BY <1>1 DEF Latest
  <1> QED BY <1>2 DEF Snapshots

\* A release covers itself.
LEMMA CoversItself ==
    ASSUME NEW dir \in Directories, Loads(dir)
    PROVE  Covers(LoadSplit(dir), dir.manifest.version, dir.manifest.members, dir.member)
  <1>1. /\ LoadSplit(dir).version = dir.manifest.version
        /\ LoadSplit(dir).members = [m \in dir.manifest.members |-> dir.member[m]]
        /\ LoadSplit(dir).version \in Versions
    BY LoadsTyped DEF LoadSplit, Snapshots
  <1>2. AtLeast(dir.manifest.version, dir.manifest.version)
    BY <1>1, VersionFields DEF AtLeast
  <1>3. Bump(dir.manifest.version, dir.manifest.version) = NoChange
    BY DEF Bump
  <1>4. \A m \in dir.manifest.members : DiffLevel(dir.member[m], dir.member[m]) <= NoChange
    BY SameSchema DEF NoChange
  <1> QED BY <1>1, <1>2, <1>3, <1>4 DEF Covers

\* What a covered directory loads as is within the version.
LEMMA CoveredLoads ==
    ASSUME NEW dir \in Directories, Loads(dir), NEW rel \in Snapshots,
           Covers(rel, dir.manifest.version, dir.manifest.members, dir.member)
    PROVE  MembersLevel(rel.members, LoadSplit(dir).members)
               <= Bump(rel.version, dir.manifest.version)
  <1> DEFINE k == Bump(rel.version, dir.manifest.version)
             now == LoadSplit(dir).members
  <1>1. k \in Levels
    BY BumpLevel
  <1>2. now = [m \in dir.manifest.members |-> dir.member[m]]
    BY DEF LoadSplit
  <1>3. NamesWithin(rel.members, now, k)
    BY <1>2 DEF Covers, NamesWithin
  <1>4. \A m \in DOMAIN rel.members \cap DOMAIN now : DiffLevel(rel.members[m], now[m]) <= k
    BY <1>2 DEF Covers, Loads
  <1> HIDE DEF k, now
  <1>5. MembersLevel(rel.members, now) <= k
    BY <1>1, <1>3, <1>4, SchemataWithin DEF MembersLevel
  <1> QED BY <1>5 DEF k, now

\* A run that goes on from a covered directory stays within its version, and
\* so do the files it has not replaced yet.
LEMMA GeneratedCovers ==
    ASSUME NEW dir \in Directories, Loads(dir), NEW rel \in Snapshots,
           Covers(rel, dir.manifest.version, dir.manifest.members, dir.member),
           NEW members \in Fetched, NEW level \in Levels,
           MembersLevel(LoadSplit(dir).members, members) <= level
    PROVE  LET v == NextVersion(dir.manifest.version, level)
           IN  /\ Covers(rel, v, DOMAIN members, members)
               /\ Covers(rel, v, DOMAIN members, dir.member)
  <1> DEFINE v == NextVersion(dir.manifest.version, level)
             k == Bump(rel.version, v)
             now == LoadSplit(dir).members
             k0 == Bump(rel.version, dir.manifest.version)
  <1>1. rel.version \in Versions /\ dir.manifest.version \in Versions
    BY DEF Snapshots, Loads, Directories, Manifests
  <1>2. AtLeast(dir.manifest.version, rel.version)
    BY DEF Covers
  <1>3. /\ AtLeast(v, rel.version) /\ k0 <= k /\ level <= k
        /\ k \in Levels /\ k0 \in Levels
    BY <1>1, <1>2, NextBumps, BumpLevel
  <1>4. MembersLevel(rel.members, now) <= k0 /\ MembersLevel(now, members) <= level
    BY CoveredLoads
  <1>5. DOMAIN now = dir.manifest.members
    BY DEF LoadSplit
  <1>6. /\ DOMAIN rel.members \ dir.manifest.members # {} => Major <= k0
        /\ \A m \in dir.manifest.members \cap DOMAIN rel.members :
              dir.member[m] \notin {Missing, Torn} => DiffLevel(rel.members[m], dir.member[m]) <= k0
    BY DEF Covers
  <1> HIDE DEF v, k, k0, now
  <1>7. /\ MembersLevel(rel.members, now) \in Levels /\ MembersLevel(now, members) \in Levels
    BY <1>3, BundleLevel
  <1>8. MembersLevel(rel.members, now) <= k /\ MembersLevel(now, members) <= k
    BY <1>3, <1>4, <1>7 DEF Levels, Major, NoChange
  <1>9. MembersLevel(rel.members, members) <= k
    BY <1>3, <1>8, BundleLevel
  <1>10. /\ NamesWithin(rel.members, members, k)
         /\ \A m \in DOMAIN rel.members \cap DOMAIN members :
               DiffLevel(rel.members[m], members[m]) <= k
    BY <1>3, <1>9, SchemataWithin DEF MembersLevel
  <1>11. Covers(rel, v, DOMAIN members, members)
    BY <1>3, <1>10 DEF Covers, NamesWithin, k
  <1>12. \A m \in DOMAIN members \cap DOMAIN rel.members :
            dir.member[m] \notin {Missing, Torn} => DiffLevel(rel.members[m], dir.member[m]) <= k
    <2> SUFFICES ASSUME NEW m \in DOMAIN members \cap DOMAIN rel.members,
                        dir.member[m] \notin {Missing, Torn}
                 PROVE  DiffLevel(rel.members[m], dir.member[m]) <= k
      OBVIOUS
    <2>1. DiffLevel(rel.members[m], dir.member[m]) \in Levels
      BY <1>3, SchemaLevel
    <2>2. CASE m \in dir.manifest.members
      BY <1>3, <1>6, <2>1, <2>2 DEF Levels, Major, NoChange
    <2>3. CASE m \notin dir.manifest.members
      BY <1>3, <1>6, <2>1, <2>3 DEF Levels, Major, NoChange
    <2> QED BY <2>2, <2>3
  <1>13. Covers(rel, v, DOMAIN members, dir.member)
    BY <1>3, <1>10, <1>12 DEF Covers, NamesWithin, k
  <1> QED BY <1>11, <1>13 DEF v

LEMMA GroupLevelFacts ==
    ASSUME NEW prev, NEW members, NEW forced
    PROVE  /\ GroupLevel(prev, members, forced) \in Levels
           /\ MembersLevel(prev.members, members) <= GroupLevel(prev, members, forced)
  <1>1. MembersLevel(prev.members, members) \in Levels
    <2>1. NoChange \in Levels
      BY DEF Levels, Major, NoChange
    <2> QED BY <2>1, BundleLevel
  <1> QED BY <1>1 DEF GroupLevel, Levels, Major, Patch, NoChange

\* With a release made, there is something to start from.
LEMMA GenerateCovers ==
    ASSUME ReleaseInv, CoverInv, GenerateFirst \/ Generate
    PROVE  CoverInv'
  <1> SUFFICES ASSUME releases # <<>>, releases' = releases
               PROVE  CoverInv'
    BY DEF CoverInv, GenerateFirst, Generate, Begin
  <1>1. /\ Loads(committed) /\ LoadSplit(committed) = Latest /\ tree \in Directories
        /\ UNCHANGED <<tree, committed, Latest>>
    BY DEF CoverInv, GenerateFirst, Generate, Begin, Latest, ReleaseInv, TypeOK
  <1>2. Generate
    <2>1. EmptyDirectory.manifest = Missing
      BY DEF EmptyDirectory
    <2> QED BY <1>1, <2>1 DEF GenerateFirst, Loads
  <1>3. Loads(tree) /\ Covers(Latest, tree.manifest.version, tree.manifest.members, tree.member)
    BY <1>2 DEF Generate, Loads, CoverInv
  <1>4. SUFFICES ASSUME NEW members \in Fetched, NEW level \in Levels,
                        MembersLevel(LoadSplit(tree).members, members) <= level,
                        Begin(AssembleGroup(NextVersion(tree.manifest.version, level), members))
                 PROVE  CoverInv'
    <2>1. LoadSplit(tree).version = tree.manifest.version
      BY DEF LoadSplit
    <2> QED BY <1>2, <1>4, <2>1, GroupLevelFacts DEF Generate
  <1> DEFINE v == NextVersion(tree.manifest.version, level)
  <1>5. /\ Covers(Latest, v, DOMAIN members, members)
        /\ Covers(Latest, v, DOMAIN members, tree.member)
    <2>1. /\ tree \in Directories /\ Loads(tree) /\ Latest \in Snapshots
          /\ MembersLevel(LoadSplit(tree).members, members) <= level
      BY <1>1, <1>3, <1>4, LatestTyped
    <2> QED BY <1>3, <2>1, GeneratedCovers
  <1>6. run'.group.version = v /\ run'.group.members = members
    BY <1>4 DEF Begin, AssembleGroup
  <1> HIDE DEF v
  <1> QED BY <1>1, <1>3, <1>5, <1>6 DEF CoverInv

LEMMA WriteManifestCovers ==
    ASSUME ReleaseInv, CoverInv, WriteManifest
    PROVE  CoverInv'
  <1>1. /\ run.pc = "manifest" /\ tree' = WithManifest(tree, ManifestOf(run.group))
        /\ run' = Reaching(run, "identity")
        /\ UNCHANGED <<committed, releases, Latest>>
    BY DEF WriteManifest, WithManifest, Reaching, Latest
  <1>2. run \in Runs /\ tree \in Directories
    BY <1>1 DEF ReleaseInv, TypeOK
  <1>3. /\ ManifestOf(run.group) \in Manifests
        /\ ManifestOf(run.group).version = run.group.version
        /\ ManifestOf(run.group).members = DOMAIN run.group.members
    BY <1>2, RunTyped
  <1>4. tree'.manifest = ManifestOf(run.group) /\ tree'.member = tree.member
    BY <1>1, <1>2, <1>3, ManifestWritten
  <1>5. run'.pc = "identity" /\ run'.group = run.group
    BY <1>1, <1>2, RunReaches
  <1> QED BY <1>1, <1>3, <1>4, <1>5 DEF CoverInv

\* The identities are not compared.
LEMMA WriteIdentityCovers ==
    ASSUME ReleaseInv, CoverInv, WriteIdentity
    PROVE  CoverInv'
  <1> DEFINE identity == IF run.group.identity = NoBundle THEN tree.identity
                         ELSE run.group.identity
  <1>1. /\ run.pc = "identity" /\ tree' = WithIdentity(tree, identity)
        /\ run' = Reaching(run, "members")
        /\ UNCHANGED <<committed, releases, Latest>>
    BY DEF WriteIdentity, WithIdentity, Reaching, Latest
  <1>2. run \in Runs /\ tree \in Directories
    BY <1>1 DEF ReleaseInv, TypeOK
  <1>3. identity \in Bundles \cup {Missing, Torn}
    BY <1>2, RunTyped DEF Directories
  <1> HIDE DEF identity
  <1>4. tree'.manifest = tree.manifest /\ tree'.member = tree.member
    BY <1>1, <1>2, <1>3, IdentityWritten
  <1>5. run'.pc = "members" /\ run'.group = run.group
    BY <1>1, <1>2, RunReaches
  <1> QED BY <1>1, <1>4, <1>5 DEF CoverInv

LEMMA WriteMemberCovers ==
    ASSUME ReleaseInv, CoverInv, WriteMember
    PROVE  CoverInv'
  <1> SUFFICES ASSUME releases # <<>>, releases' = releases
               PROVE  CoverInv'
    BY DEF CoverInv, WriteMember
  <1>1. /\ run.pc = "members" /\ run.left # {}
        /\ tree' = WithMember(tree, NextMember, run.group.members[NextMember])
        /\ run' = Without(run, NextMember)
        /\ UNCHANGED <<committed, Latest>>
    BY DEF WriteMember, WithMember, Without, Latest
  <1>2. run \in Runs /\ tree \in Directories /\ WrittenInv
    BY <1>1 DEF ReleaseInv, TypeOK
  <1>3. /\ run.left \subseteq DOMAIN run.group.members
        /\ DOMAIN run.group.members \subseteq Members
        /\ \A m \in DOMAIN run.group.members : run.group.members[m] \in Content
    BY <1>1, <1>2, RunTyped DEF WrittenInv
  <1>4. NextMember \in run.left
    BY <1>1, <1>3, Kinds, NextIsLeft
  <1>5. SUFFICES ASSUME NEW m \in DOMAIN run.group.members,
                        tree' = WithMember(tree, m, run.group.members[m]),
                        run' = Without(run, m)
                 PROVE  CoverInv'
    BY <1>1, <1>3, <1>4
  <1>6. m \in Members /\ run.group.members[m] \in Content \cup {Missing, Torn}
    BY <1>3
  <1>7. /\ tree'.manifest = tree.manifest
        /\ tree'.member[m] = run.group.members[m]
        /\ \A n \in Members \ {m} : tree'.member[n] = tree.member[n]
    BY <1>2, <1>5, <1>6, MemberWritten
  <1>8. run'.pc = "members" /\ run'.group = run.group
    BY <1>1, <1>2, <1>5, RunGoesOn
  <1>9. /\ tree.manifest = ManifestOf(run.group)
        /\ tree.manifest \notin {Missing, Torn}
        /\ tree.manifest.version = run.group.version
        /\ tree.manifest.members = DOMAIN run.group.members
    BY <1>1, <1>2, RunTyped, Kinds DEF WrittenInv
  <1>10. /\ Covers(Latest, run.group.version, DOMAIN run.group.members, run.group.members)
         /\ Covers(Latest, run.group.version, DOMAIN run.group.members, tree.member)
    BY <1>1, <1>9 DEF CoverInv
  <1>11. Covers(Latest, run.group.version, DOMAIN run.group.members, tree'.member)
    <2>1. \A n \in DOMAIN run.group.members :
             tree'.member[n] = tree.member[n] \/ tree'.member[n] = run.group.members[n]
      BY <1>3, <1>7
    <2>2. \A n \in DOMAIN run.group.members : run.group.members[n] \notin {Missing, Torn}
      BY <1>3, Kinds
    <2> QED BY <1>10, <2>1, <2>2 DEF Covers
  <1> QED BY <1>1, <1>7, <1>8, <1>9, <1>10, <1>11 DEF CoverInv

LEMMA EndsCover ==
    ASSUME ReleaseInv, CoverInv, Saved \/ Killed \/ Restore \/ Release
    PROVE  CoverInv'
  <1>1. CASE Saved
    <2>1. /\ run.pc = "members" /\ run' = Reaching(run, "saved")
          /\ UNCHANGED <<tree, committed, releases, Latest>>
      BY <1>1 DEF Saved, Reaching, Latest
    <2>2. run'.pc = "saved" /\ run'.group = run.group
      BY <2>1, RunReaches DEF ReleaseInv
    <2> QED BY <2>1, <2>2 DEF CoverInv
  <1>2. CASE Killed
    <2>1. run'.pc = "idle" /\ UNCHANGED <<tree, committed, releases, Latest>>
      BY <1>2 DEF Killed, Ended, Latest
    <2> QED BY <2>1 DEF CoverInv
  <1>3. CASE Restore
    <2>1. /\ run'.pc = "idle" /\ tree' = committed
          /\ UNCHANGED <<committed, releases, Latest>>
      BY <1>3 DEF Restore, Ended, Latest
    <2>2. committed \in Directories
      BY DEF ReleaseInv, TypeOK
    <2>3. ASSUME releases # <<>>
          PROVE  Covers(Latest, committed.manifest.version, committed.manifest.members,
                        committed.member)
      BY <2>2, <2>3, CoversItself DEF CoverInv
    <2> QED BY <2>1, <2>3 DEF CoverInv
  <1>4. CASE Release
    <2>1. /\ run.pc = "saved" /\ run'.pc = "idle" /\ committed' = tree /\ tree' = tree
          /\ releases' = Append(releases, LoadSplit(tree))
      BY <1>4 DEF Release, Ended
    <2>2. releases \in Seq(Snapshots) /\ tree \in Directories
      BY DEF ReleaseInv, TypeOK
    <2>3. Loads(tree) /\ LoadSplit(tree) \in Snapshots
      BY <2>1, <2>2, SavedLoads, LoadsTyped
    <2>4. Latest' = LoadSplit(tree)
      BY <2>1, <2>2, <2>3 DEF Latest
    <2>5. Covers(LoadSplit(tree), tree.manifest.version, tree.manifest.members, tree.member)
      BY <2>2, <2>3, CoversItself
    <2>6. Loads(committed)' /\ LoadSplit(committed)' = LoadSplit(tree)
      BY <2>1, <2>3 DEF Loads, LoadSplit
    <2> QED BY <2>1, <2>4, <2>5, <2>6 DEF CoverInv
  <1> QED BY <1>1, <1>2, <1>3, <1>4

LEMMA BreaksCover ==
    ASSUME ReleaseInv, CoverInv, Breaks
    PROVE  CoverInv'
  <1>1. /\ run.pc # "idle" /\ run'.pc = "idle"
        /\ UNCHANGED <<committed, releases, Latest>>
    BY DEF Breaks, Ended, Latest
  <1>2. run \in Runs /\ tree \in Directories /\ WrittenInv
    BY <1>1 DEF ReleaseInv, TypeOK
  <1>3. CASE tree' = WithManifest(tree, Torn)
    <2>1. tree'.manifest = Torn
      BY <1>2, <1>3, ManifestWritten
    <2> QED BY <1>1, <2>1 DEF CoverInv
  <1>4. CASE tree' = WithIdentity(tree, Torn)
    <2>1. tree'.manifest = tree.manifest /\ tree'.member = tree.member
      BY <1>2, <1>4, IdentityWritten
    <2> QED BY <1>1, <2>1 DEF CoverInv
  <1>5. CASE /\ run.pc = "members" /\ run.left # {}
             /\ tree' = WithMember(tree, NextMember, Torn)
    <2>1. run.left \subseteq Members
      BY <1>2, RunTyped
    <2>2. NextMember \in Members
      BY <1>5, <2>1, Kinds, NextIsLeft
    <2>3. SUFFICES ASSUME NEW m \in Members, tree' = WithMember(tree, m, Torn)
                   PROVE  CoverInv'
      BY <1>5, <2>2
    <2>4. /\ tree'.manifest = tree.manifest /\ tree'.member[m] = Torn
          /\ \A n \in Members \ {m} : tree'.member[n] = tree.member[n]
      BY <1>2, <2>3, MemberWritten
    <2>5. tree.manifest \in Manifests => tree.manifest.members \subseteq Members
      BY DEF Manifests
    <2>6. tree.manifest \notin {Missing, Torn} => tree.manifest.members \subseteq Members
      BY <1>2, <2>5 DEF Directories
    <2>7. ASSUME NEW rel, NEW v, tree.manifest \notin {Missing, Torn},
                 Covers(rel, v, tree.manifest.members, tree.member)
          PROVE  Covers(rel, v, tree.manifest.members, tree'.member)
      <3>1. \A n \in tree.manifest.members :
               tree'.member[n] = tree.member[n] \/ tree'.member[n] = Torn
        BY <2>4, <2>6, <2>7
      <3> QED BY <2>7, <3>1 DEF Covers
    <2> QED BY <1>1, <2>4, <2>7 DEF CoverInv
  <1> QED BY <1>3, <1>4, <1>5 DEF Breaks, WithManifest, WithIdentity, WithMember

LEMMA InitCoverInv == Init => CoverInv
  <1> SUFFICES ASSUME Init, releases # <<>> PROVE CoverInv
    BY DEF CoverInv
  <1>1. /\ releases = <<LoadSplit(tree)>> /\ committed = tree /\ run.pc = "idle"
        /\ tree \in Directories
    BY InitReleaseInv DEF Init, ReleaseInv, TypeOK
  <1>2. Latest = LoadSplit(tree)
    BY <1>1 DEF Latest
  <1>3. Loads(tree)
    <2>1. SUFFICES ASSUME NEW m \in Members, NEW s \in Schemas(m),
                          tree = [EmptyDirectory EXCEPT
                                    !.manifest = [version |-> FirstVersion, by |-> Unstamped,
                                                  members |-> {m}],
                                    !.member[m] = s]
                   PROVE  Loads(tree)
      BY DEF Init
    <2> DEFINE manifest == [version |-> FirstVersion, by |-> Unstamped, members |-> {m}]
               named == WithManifest(EmptyDirectory, manifest)
    <2>2. EmptyDirectory \in Directories /\ EmptyDirectory.identity = Missing
      BY DEF EmptyDirectory, Directories
    <2>3. manifest \in Manifests /\ manifest.members = {m}
      BY ReleaseAssumption, Kinds DEF Manifests, FirstVersion, Versions
    <2>4. s \in Content
      BY DEF Content
    <2>5. tree = WithMember(named, m, s)
      BY <2>1 DEF WithManifest, WithMember
    <2> HIDE DEF manifest
    <2>6. named \in Directories /\ named.manifest = manifest /\ named.identity = Missing
      BY <2>2, <2>3, ManifestWritten
    <2> HIDE DEF named
    <2>7. tree.manifest = manifest /\ tree.identity = Missing /\ tree.member[m] = s
      BY <2>4, <2>5, <2>6, MemberWritten
    <2> QED BY <2>3, <2>4, <2>7, Kinds DEF Loads
  <1>4. Covers(Latest, tree.manifest.version, tree.manifest.members, tree.member)
    BY <1>1, <1>2, <1>3, CoversItself
  <1> QED BY <1>1, <1>2, <1>3, <1>4 DEF CoverInv

LEMMA NextKeepsCoverInv == ReleaseInv /\ CoverInv /\ [Next]_vars => CoverInv'
  <1> SUFFICES ASSUME ReleaseInv, CoverInv, [Next]_vars PROVE CoverInv'
    OBVIOUS
  <1>1. CASE UNCHANGED vars
    BY <1>1 DEF vars, CoverInv, Latest, Loads, LoadSplit
  <1>2. CASE Next
    BY <1>2, GenerateCovers, WriteManifestCovers, WriteIdentityCovers, WriteMemberCovers,
       EndsCover, BreaksCover DEF Next
  <1> QED BY <1>1, <1>2

\* Whatever was interrupted, and however often, the version in the directory
\* answers for what is in it.
THEOREM VersionsCoverContent == Spec => []VersionCoversContent
  <1>1. Spec => []CoverInv
    <2> QED BY InitCoverInv, NextKeepsCoverInv, ReleaseInvariant, PTL DEF Spec
  <1>2. ReleaseInv /\ CoverInv => VersionCoversContent
    <2> SUFFICES ASSUME ReleaseInv, CoverInv, releases # <<>>, Loads(tree)
                 PROVE  MembersLevel(Latest.members, LoadSplit(tree).members)
                            <= Bump(Latest.version, LoadSplit(tree).version)
      BY DEF VersionCoversContent
    <2>1. Covers(Latest, tree.manifest.version, tree.manifest.members, tree.member)
      BY DEF CoverInv, Loads
    <2>2. tree \in Directories /\ LoadSplit(tree).version = tree.manifest.version
      BY DEF ReleaseInv, TypeOK, LoadSplit
    <2> QED BY <2>1, <2>2, LatestTyped, CoveredLoads
  <1> QED BY <1>1, <1>2, ReleaseInvariant, PTL


(***************************************************************************)
(* What the levels promise: a difference below a major one breaks nobody,  *)
(* but for the breaches that DiffLevel does not take for one.              *)
(***************************************************************************)
LEMMA SmallDiffReads ==
    ASSUME NEW a, NEW b, diffType(a, b) <= Minor
    PROVE  Readable(a, b)
  <1>1. a.kind = b.kind /\ ByName(a.fields, b.fields, diffLeaf) <= Minor
    BY DEF diffType, Major, Minor
  <1>2. Minor \in Levels
    BY DEF Levels, Minor, Major, NoChange
  <1>3. /\ NamesWithin(a.fields, b.fields, Minor)
        /\ \A n \in DOMAIN a.fields \cap DOMAIN b.fields :
              diffLeaf(a.fields[n], b.fields[n]) <= Minor
    BY <1>1, <1>2, FieldsWithin
  <1>4. DOMAIN a.fields \subseteq DOMAIN b.fields
    BY <1>3 DEF NamesWithin, Major, Minor
  <1>5. \A n \in DOMAIN a.fields : a.fields[n] = b.fields[n]
    BY <1>3, <1>4 DEF diffLeaf, Major, Minor
  <1> QED BY <1>1, <1>4, <1>5 DEF Readable

\* Who sets an attribute can still set it, unless it was required, or
\* defaulted by the API, and is now the API's alone.
LEMMA SmallDiffSets ==
    ASSUME NEW a, NEW b, diffAttributeFlags(a, b) <= Minor,
           a.required => Settable(b),
           a.optional /\ a.computed => Settable(b)
    PROVE  /\ Settable(a) => Settable(b)
           /\ b.required => a.required
  <1>1. b.required => a.required
    BY DEF diffAttributeFlags, Major, Minor
  <1>2. ASSUME a.optional, ~a.computed, ~a.required, ~Settable(b)
        PROVE  FALSE
    <2>1. (a.required <=> b.required) /\ Writable(a) /\ ~Writable(b)
      BY <1>2 DEF Settable, Writable
    <2>2. diffAttributeFlags(a, b) = Major
      BY <2>1 DEF diffAttributeFlags
    <2> QED BY <2>2 DEF Major, Minor
  <1> QED BY <1>1, <1>2 DEF Settable

LEMMA SmallDiffBlock ==
    ASSUME NEW a, NEW b, diffBlock(a, b) <= Minor,
           ~AddsRequired(a, b), ~LosesRequired(a, b), ~LosesDefaulted(a, b)
    PROVE  BlockWorks(a, b)
  <1>1. Minor \in Levels /\ ~(Major <= Minor)
    BY DEF Levels, Minor, Major, NoChange
  <1>2. /\ NamesWithin(a, b, Minor)
        /\ \A n \in DOMAIN a \cap DOMAIN b : diffAttribute(a[n], b[n]) <= Minor
    BY <1>1, AttributesWithin DEF diffBlock
  <1>3. DOMAIN a \subseteq DOMAIN b
    BY <1>1, <1>2 DEF NamesWithin
  <1>4. ASSUME NEW n \in DOMAIN a
        PROVE  /\ Readable(a[n].type, b[n].type)
               /\ Settable(a[n]) => Settable(b[n])
               /\ b[n].required => a[n].required
    <2>1. diffAttribute(a[n], b[n]) <= Minor
      BY <1>2, <1>3
    <2>2. {diffType(a[n].type, b[n].type), diffAttributeFlags(a[n], b[n])} \in SUBSET Levels
      BY <1>1, TypeLevel, FlagsLevel
    <2>3. diffType(a[n].type, b[n].type) <= Minor /\ diffAttributeFlags(a[n], b[n]) <= Minor
      BY <1>1, <2>1, <2>2, RaisedAtMost DEF diffAttribute
    <2>4. /\ a[n].required => Settable(b[n])
          /\ a[n].optional /\ a[n].computed => Settable(b[n])
      BY <1>3 DEF LosesRequired, LosesDefaulted
    <2> QED BY <2>3, <2>4, SmallDiffReads, SmallDiffSets
  <1>5. ASSUME NEW n \in DOMAIN b, b[n].required
        PROVE  n \in DOMAIN a /\ a[n].required
    BY <1>4, <1>5 DEF AddsRequired
  <1> QED BY <1>3, <1>4, <1>5 DEF BlockWorks

LEMMA SmallDiffWorks ==
    ASSUME NEW a, NEW b, DiffLevel(a, b) <= Minor, ~Understated(a, b)
    PROVE  StillWorks(a, b)
  <1>1. Minor \in Levels /\ ~(Major <= Minor)
    BY DEF Levels, Minor, Major, NoChange
  <1>2. /\ NamesWithin(a, b, Minor)
        /\ \A n \in DOMAIN a \cap DOMAIN b : diffBlock(a[n], b[n]) <= Minor
    BY <1>1, BlocksWithin DEF DiffLevel
  <1>3. DOMAIN a \subseteq DOMAIN b
    BY <1>1, <1>2 DEF NamesWithin
  <1>4. ASSUME NEW n \in DOMAIN a PROVE BlockWorks(a[n], b[n])
    <2>1. diffBlock(a[n], b[n]) <= Minor
      BY <1>2, <1>3
    <2>2. /\ ~AddsRequired(a[n], b[n]) /\ ~LosesRequired(a[n], b[n])
          /\ ~LosesDefaulted(a[n], b[n])
      BY <1>3 DEF Understated
    <2> QED BY <2>1, <2>2, SmallDiffBlock
  <1> QED BY <1>3, <1>4 DEF StillWorks

LEMMA BlockWorksOn ==
    ASSUME NEW a, NEW b, NEW c, BlockWorks(a, b), BlockWorks(b, c)
    PROVE  BlockWorks(a, c)
  <1>1. ASSUME NEW n \in DOMAIN a
        PROVE  /\ n \in DOMAIN c
               /\ Readable(a[n].type, c[n].type)
               /\ Settable(a[n]) => Settable(c[n])
    <2>1. /\ n \in DOMAIN b /\ Readable(a[n].type, b[n].type)
          /\ Settable(a[n]) => Settable(b[n])
      BY DEF BlockWorks
    <2>2. /\ n \in DOMAIN c /\ Readable(b[n].type, c[n].type)
          /\ Settable(b[n]) => Settable(c[n])
      BY <2>1 DEF BlockWorks
    <2>3. Readable(a[n].type, c[n].type)
      BY <2>1, <2>2 DEF Readable
    <2> QED BY <2>1, <2>2, <2>3
  <1>2. \A n \in DOMAIN c : c[n].required => n \in DOMAIN a /\ a[n].required
    BY DEF BlockWorks
  <1> QED BY <1>1, <1>2 DEF BlockWorks

LEMMA WorksOn ==
    ASSUME NEW a, NEW b, NEW c, StillWorks(a, b), StillWorks(b, c)
    PROVE  StillWorks(a, c)
  <1> SUFFICES ASSUME NEW t \in DOMAIN a
               PROVE  t \in DOMAIN c /\ BlockWorks(a[t], c[t])
    BY DEF StillWorks
  <1>1. t \in DOMAIN b /\ BlockWorks(a[t], b[t])
    BY DEF StillWorks
  <1>2. t \in DOMAIN c /\ BlockWorks(b[t], c[t])
    BY <1>1 DEF StillWorks
  <1> QED BY <1>1, <1>2, BlockWorksOn

LEMMA WorksWithItself ==
    ASSUME NEW a
    PROVE  StillWorks(a, a)
  BY DEF StillWorks, BlockWorks, Readable

(***************************************************************************)
(* Releases of one major version, one after the other                      *)
(***************************************************************************)

\* As long as the major version stays that of a release, files f, for the
\* members ms under version v, serve the programs written for it.
Serves(rel, v, ms, f) ==
    v.major = rel.version.major =>
        \A m \in DOMAIN rel.members :
            /\ m \in ms
            /\ f[m] \notin {Missing, Torn} => StillWorks(rel.members[m], f[m])

\* Major versions never go back.
Ascending == \A i \in 1..Len(releases) : releases[i].version.major <= Latest.version.major

\* The promise, and what keeps it: the directory, and the group of a run,
\* serve the programs of the latest release, while they are being written and
\* whatever part of them is.
PromiseInv ==
    ~understated =>
        /\ StableWithinMajor
        /\ Ascending
        /\ releases # <<>> =>
              /\ tree.manifest \notin {Missing, Torn} =>
                    Serves(Latest, tree.manifest.version, tree.manifest.members, tree.member)
              /\ run.pc # "idle" =>
                    Serves(Latest, run.group.version, DOMAIN run.group.members,
                           run.group.members)
              /\ run.pc = "manifest" =>
                    Serves(Latest, run.group.version, DOMAIN run.group.members, tree.member)

\* A release serves its own programs.
LEMMA ServesItself ==
    ASSUME NEW dir
    PROVE  Serves(LoadSplit(dir), dir.manifest.version, dir.manifest.members, dir.member)
  BY WorksWithItself DEF Serves, LoadSplit

\* A run that goes on from a directory that serves a release serves it too,
\* and so do the files it has not replaced yet.
LEMMA GeneratedServes ==
    ASSUME NEW dir \in Directories, Loads(dir), NEW rel \in Snapshots,
           AtLeast(dir.manifest.version, rel.version),
           Serves(rel, dir.manifest.version, dir.manifest.members, dir.member),
           NEW members \in Fetched, NEW level \in Levels,
           MembersLevel(LoadSplit(dir).members, members) <= level,
           \A m \in DOMAIN LoadSplit(dir).members \cap DOMAIN members :
              ~Understated(LoadSplit(dir).members[m], members[m])
    PROVE  LET v == NextVersion(dir.manifest.version, level)
           IN  /\ Serves(rel, v, DOMAIN members, members)
               /\ Serves(rel, v, DOMAIN members, dir.member)
  <1> DEFINE v == NextVersion(dir.manifest.version, level)
             now == LoadSplit(dir).members
  <1> SUFFICES ASSUME v.major = rel.version.major, NEW m \in DOMAIN rel.members
               PROVE  /\ m \in DOMAIN members
                      /\ StillWorks(rel.members[m], members[m])
                      /\ dir.member[m] \notin {Missing, Torn} =>
                            StillWorks(rel.members[m], dir.member[m])
    BY DEF Serves
  <1>1. rel.version \in Versions /\ dir.manifest.version \in Versions
    BY DEF Snapshots, Loads, Directories, Manifests
  <1>2. /\ rel.version.major \in Nat /\ dir.manifest.version.major \in Nat
        /\ dir.manifest.version.major >= rel.version.major
    BY <1>1, VersionFields DEF AtLeast
  <1>3. dir.manifest.version.major = rel.version.major /\ level # Major
    BY <1>1, <1>2, NextFields DEF Major, Minor, Patch, NoChange
  <1>4. m \in dir.manifest.members /\ dir.member[m] \notin {Missing, Torn}
    BY <1>3 DEF Serves, Loads
  <1>5. StillWorks(rel.members[m], dir.member[m])
    BY <1>3, <1>4 DEF Serves
  <1>6. m \in DOMAIN now /\ now[m] = dir.member[m]
    BY <1>4 DEF LoadSplit
  <1>7. level <= Minor /\ Minor \in Levels /\ ~(Major <= Minor)
    BY <1>3 DEF Levels, Major, Minor, NoChange
  <1> HIDE DEF now
  <1>8. MembersLevel(now, members) \in Levels
    BY <1>7, BundleLevel
  <1>9. MembersLevel(now, members) <= Minor
    BY <1>7, <1>8 DEF now, Levels, Major, Minor, NoChange
  <1>10. /\ NamesWithin(now, members, Minor)
         /\ \A n \in DOMAIN now \cap DOMAIN members : DiffLevel(now[n], members[n]) <= Minor
    BY <1>7, <1>9, SchemataWithin DEF MembersLevel
  <1>11. m \in DOMAIN members
    BY <1>6, <1>7, <1>10 DEF NamesWithin
  <1>12. StillWorks(now[m], members[m])
    BY <1>6, <1>10, <1>11, SmallDiffWorks DEF now
  <1> QED BY <1>4, <1>5, <1>6, <1>11, <1>12, WorksOn

LEMMA SameReleases ==
    ASSUME PromiseInv, ~understated, releases' = releases
    PROVE  StableWithinMajor' /\ Ascending' /\ Latest' = Latest
  BY DEF PromiseInv, StableWithinMajor, Ascending, Latest

LEMMA GeneratePromises ==
    ASSUME ReleaseInv, CoverInv, PromiseInv, GenerateFirst \/ Generate
    PROVE  PromiseInv'
  <1>1. /\ understated \in BOOLEAN /\ (~understated' => ~understated)
        /\ UNCHANGED <<tree, committed, releases>>
    BY DEF GenerateFirst, Generate, Begin, ReleaseInv, TypeOK
  <1> SUFFICES ASSUME ~understated' PROVE PromiseInv'
    BY DEF PromiseInv
  <1>2. StableWithinMajor' /\ Ascending' /\ Latest' = Latest
    BY <1>1, SameReleases
  <1> SUFFICES ASSUME releases # <<>> PROVE PromiseInv'
    BY <1>1, <1>2 DEF PromiseInv
  <1>3. /\ Loads(committed) /\ tree \in Directories
    BY DEF CoverInv, ReleaseInv, TypeOK
  <1>4. Generate
    <2>1. EmptyDirectory.manifest = Missing
      BY DEF EmptyDirectory
    <2> QED BY <1>3, <2>1 DEF GenerateFirst, Loads
  <1>5. /\ Loads(tree)
        /\ Serves(Latest, tree.manifest.version, tree.manifest.members, tree.member)
        /\ AtLeast(tree.manifest.version, Latest.version)
    BY <1>1, <1>4 DEF Generate, Loads, PromiseInv, CoverInv, Covers
  <1>6. SUFFICES ASSUME NEW members \in Fetched, NEW level \in Levels,
                        MembersLevel(LoadSplit(tree).members, members) <= level,
                        Begin(AssembleGroup(NextVersion(tree.manifest.version, level), members)),
                        \A m \in DOMAIN LoadSplit(tree).members \cap DOMAIN members :
                            ~Understated(LoadSplit(tree).members[m], members[m])
                 PROVE  PromiseInv'
    <2>1. LoadSplit(tree).version = tree.manifest.version
      BY DEF LoadSplit
    <2> QED BY <1>4, <1>6, <2>1, GroupLevelFacts DEF Generate
  <1> DEFINE v == NextVersion(tree.manifest.version, level)
  <1>7. /\ Serves(Latest, v, DOMAIN members, members)
        /\ Serves(Latest, v, DOMAIN members, tree.member)
    BY <1>3, <1>5, <1>6, LatestTyped, GeneratedServes
  <1>8. run'.group.version = v /\ run'.group.members = members
    BY <1>6 DEF Begin, AssembleGroup
  <1> HIDE DEF v
  <1> QED BY <1>1, <1>2, <1>5, <1>7, <1>8 DEF PromiseInv

LEMMA WriteManifestPromises ==
    ASSUME ReleaseInv, PromiseInv, WriteManifest
    PROVE  PromiseInv'
  <1>1. /\ run.pc = "manifest" /\ tree' = WithManifest(tree, ManifestOf(run.group))
        /\ run' = Reaching(run, "identity")
        /\ UNCHANGED <<committed, releases, understated>>
    BY DEF WriteManifest, WithManifest, Reaching
  <1>2. run \in Runs /\ tree \in Directories
    BY <1>1 DEF ReleaseInv, TypeOK
  <1>3. /\ ManifestOf(run.group) \in Manifests
        /\ ManifestOf(run.group).version = run.group.version
        /\ ManifestOf(run.group).members = DOMAIN run.group.members
    BY <1>2, RunTyped
  <1>4. tree'.manifest = ManifestOf(run.group) /\ tree'.member = tree.member
    BY <1>1, <1>2, <1>3, ManifestWritten
  <1>5. run'.pc = "identity" /\ run'.group = run.group
    BY <1>1, <1>2, RunReaches
  <1> QED BY <1>1, <1>3, <1>4, <1>5, SameReleases DEF PromiseInv

LEMMA WriteIdentityPromises ==
    ASSUME ReleaseInv, PromiseInv, WriteIdentity
    PROVE  PromiseInv'
  <1> DEFINE identity == IF run.group.identity = NoBundle THEN tree.identity
                         ELSE run.group.identity
  <1>1. /\ run.pc = "identity" /\ tree' = WithIdentity(tree, identity)
        /\ run' = Reaching(run, "members")
        /\ UNCHANGED <<committed, releases, understated>>
    BY DEF WriteIdentity, WithIdentity, Reaching
  <1>2. run \in Runs /\ tree \in Directories
    BY <1>1 DEF ReleaseInv, TypeOK
  <1>3. identity \in Bundles \cup {Missing, Torn}
    BY <1>2, RunTyped DEF Directories
  <1> HIDE DEF identity
  <1>4. tree'.manifest = tree.manifest /\ tree'.member = tree.member
    BY <1>1, <1>2, <1>3, IdentityWritten
  <1>5. run'.pc = "members" /\ run'.group = run.group
    BY <1>1, <1>2, RunReaches
  <1> QED BY <1>1, <1>4, <1>5, SameReleases DEF PromiseInv

\* Half old, half new: each file serves the programs of the latest release.
LEMMA WriteMemberPromises ==
    ASSUME ReleaseInv, PromiseInv, WriteMember
    PROVE  PromiseInv'
  <1>1. /\ run.pc = "members" /\ run.left # {}
        /\ tree' = WithMember(tree, NextMember, run.group.members[NextMember])
        /\ run' = Without(run, NextMember)
        /\ UNCHANGED <<committed, releases, understated>>
    BY DEF WriteMember, WithMember, Without
  <1> SUFFICES ASSUME ~understated PROVE PromiseInv'
    BY <1>1 DEF PromiseInv
  <1>2. run \in Runs /\ tree \in Directories /\ WrittenInv
    BY <1>1 DEF ReleaseInv, TypeOK
  <1>3. /\ run.left \subseteq DOMAIN run.group.members
        /\ DOMAIN run.group.members \subseteq Members
        /\ \A m \in DOMAIN run.group.members : run.group.members[m] \in Content
    BY <1>1, <1>2, RunTyped DEF WrittenInv
  <1>4. NextMember \in run.left
    BY <1>1, <1>3, Kinds, NextIsLeft
  <1>5. SUFFICES ASSUME NEW m \in DOMAIN run.group.members,
                        tree' = WithMember(tree, m, run.group.members[m]),
                        run' = Without(run, m)
                 PROVE  PromiseInv'
    BY <1>1, <1>3, <1>4
  <1>6. m \in Members /\ run.group.members[m] \in Content \cup {Missing, Torn}
    BY <1>3
  <1>7. /\ tree'.manifest = tree.manifest
        /\ tree'.member[m] = run.group.members[m]
        /\ \A n \in Members \ {m} : tree'.member[n] = tree.member[n]
    BY <1>2, <1>5, <1>6, MemberWritten
  <1>8. run'.pc = "members" /\ run'.group = run.group
    BY <1>1, <1>2, <1>5, RunGoesOn
  <1>9. /\ tree.manifest = ManifestOf(run.group)
        /\ tree.manifest \notin {Missing, Torn}
        /\ tree.manifest.version = run.group.version
        /\ tree.manifest.members = DOMAIN run.group.members
    BY <1>1, <1>2, RunTyped, Kinds DEF WrittenInv
  <1>10. ASSUME releases # <<>>
         PROVE  Serves(Latest, run.group.version, DOMAIN run.group.members, tree'.member)
    <2>1. /\ Serves(Latest, run.group.version, DOMAIN run.group.members, run.group.members)
          /\ Serves(Latest, run.group.version, DOMAIN run.group.members, tree.member)
      BY <1>1, <1>9, <1>10 DEF PromiseInv
    <2>2. \A n \in DOMAIN run.group.members :
             tree'.member[n] = tree.member[n] \/ tree'.member[n] = run.group.members[n]
      BY <1>3, <1>7
    <2>3. \A n \in DOMAIN run.group.members : run.group.members[n] \notin {Missing, Torn}
      BY <1>3, Kinds
    <2> QED BY <2>1, <2>2, <2>3 DEF Serves
  <1> QED BY <1>1, <1>7, <1>8, <1>9, <1>10, SameReleases DEF PromiseInv

LEMMA BreaksPromises ==
    ASSUME ReleaseInv, PromiseInv, Breaks
    PROVE  PromiseInv'
  <1>1. /\ run.pc # "idle" /\ run'.pc = "idle"
        /\ UNCHANGED <<committed, releases, understated>>
    BY DEF Breaks, Ended
  <1>2. run \in Runs /\ tree \in Directories /\ WrittenInv
    BY <1>1 DEF ReleaseInv, TypeOK
  <1>3. CASE tree' = WithManifest(tree, Torn)
    <2>1. tree'.manifest = Torn
      BY <1>2, <1>3, ManifestWritten
    <2> QED BY <1>1, <2>1, SameReleases DEF PromiseInv
  <1>4. CASE tree' = WithIdentity(tree, Torn)
    <2>1. tree'.manifest = tree.manifest /\ tree'.member = tree.member
      BY <1>2, <1>4, IdentityWritten
    <2> QED BY <1>1, <2>1, SameReleases DEF PromiseInv
  <1>5. CASE /\ run.pc = "members" /\ run.left # {}
             /\ tree' = WithMember(tree, NextMember, Torn)
    <2>1. run.left \subseteq Members
      BY <1>2, RunTyped
    <2>2. NextMember \in Members
      BY <1>5, <2>1, Kinds, NextIsLeft
    <2>3. SUFFICES ASSUME NEW m \in Members, tree' = WithMember(tree, m, Torn)
                   PROVE  PromiseInv'
      BY <1>5, <2>2
    <2>4. /\ tree'.manifest = tree.manifest /\ tree'.member[m] = Torn
          /\ \A n \in Members \ {m} : tree'.member[n] = tree.member[n]
      BY <1>2, <2>3, MemberWritten
    <2>5. tree.manifest \in Manifests => tree.manifest.members \subseteq Members
      BY DEF Manifests
    <2>6. tree.manifest \notin {Missing, Torn} => tree.manifest.members \subseteq Members
      BY <1>2, <2>5 DEF Directories
    <2>7. ASSUME NEW rel, NEW v, tree.manifest \notin {Missing, Torn},
                 Serves(rel, v, tree.manifest.members, tree.member)
          PROVE  Serves(rel, v, tree.manifest.members, tree'.member)
      <3>1. \A n \in tree.manifest.members :
               tree'.member[n] = tree.member[n] \/ tree'.member[n] = Torn
        BY <2>4, <2>6, <2>7
      <3> QED BY <2>7, <3>1 DEF Serves
    <2> QED BY <1>1, <2>4, <2>7, SameReleases DEF PromiseInv
  <1> QED BY <1>3, <1>4, <1>5 DEF Breaks, WithManifest, WithIdentity, WithMember

LEMMA EndsPromise ==
    ASSUME ReleaseInv, CoverInv, PromiseInv, Saved \/ Killed \/ Restore
    PROVE  PromiseInv'
  <1>1. CASE Saved
    <2>1. /\ run.pc = "members" /\ run' = Reaching(run, "saved")
          /\ UNCHANGED <<tree, committed, releases, understated>>
      BY <1>1 DEF Saved, Reaching
    <2>2. run'.pc = "saved" /\ run'.group = run.group
      BY <2>1, RunReaches DEF ReleaseInv
    <2> QED BY <2>1, <2>2, SameReleases DEF PromiseInv
  <1>2. CASE Killed
    <2>1. run'.pc = "idle" /\ UNCHANGED <<tree, committed, releases, understated>>
      BY <1>2 DEF Killed, Ended
    <2> QED BY <2>1, SameReleases DEF PromiseInv
  <1>3. CASE Restore
    <2>1. /\ run'.pc = "idle" /\ tree' = committed
          /\ UNCHANGED <<committed, releases, understated>>
      BY <1>3 DEF Restore, Ended
    <2>2. ASSUME releases # <<>>
          PROVE  Serves(Latest, committed.manifest.version, committed.manifest.members,
                        committed.member)
      BY <2>2, ServesItself DEF CoverInv
    <2> QED BY <2>1, <2>2, SameReleases DEF PromiseInv
  <1> QED BY <1>1, <1>2, <1>3

\* A release whose directory serves the latest one serves those before it of
\* the same major version: there is nothing between them.
LEMMA ReleasePromises ==
    ASSUME ReleaseInv, CoverInv, PromiseInv, Release
    PROVE  PromiseInv'
  <1> DEFINE new == LoadSplit(tree)
  <1>1. /\ run.pc = "saved" /\ run'.pc = "idle" /\ tree' = tree
        /\ releases' = Append(releases, new) /\ understated' = understated
        /\ releases # <<>> => Newer(tree.manifest.version, Latest.version)
    BY DEF Release, Ended
  <1> SUFFICES ASSUME ~understated PROVE PromiseInv'
    BY <1>1 DEF PromiseInv
  <1>2. releases \in Seq(Snapshots) /\ tree \in Directories
    BY DEF ReleaseInv, TypeOK
  <1>3. Loads(tree) /\ new \in Snapshots /\ new.version = tree.manifest.version
    BY <1>1, <1>2, SavedLoads, LoadsTyped DEF LoadSplit
  <1>4. /\ DOMAIN new.members = tree.manifest.members
        /\ \A m \in DOMAIN new.members :
              new.members[m] = tree.member[m] /\ new.members[m] \notin {Missing, Torn}
    BY <1>3 DEF LoadSplit, Loads
  <1>5. \A i \in 1..Len(releases) : releases[i] \in Snapshots
    BY <1>2
  <1>6. /\ new.version.major \in Nat
        /\ \A i \in 1..Len(releases) : releases[i].version.major \in Nat
    <2>1. \A r \in Snapshots : r.version.major \in Nat
      BY VersionFields DEF Snapshots
    <2> QED BY <1>3, <1>5, <2>1
  <1> HIDE DEF new
  <1>7. /\ Len(releases) \in Nat /\ Len(releases') = Len(releases) + 1
        /\ \A i \in 1..Len(releases) : releases'[i] = releases[i]
        /\ releases'[Len(releases) + 1] = new /\ Latest' = new
    BY <1>1, <1>2, <1>3 DEF Latest
  <1>8. ASSUME NEW i \in 1..Len(releases)
        PROVE  /\ Len(releases) \in 1..Len(releases)
               /\ releases[i].version.major <= Latest.version.major
               /\ Latest.version.major <= new.version.major
               /\ Serves(Latest, new.version, DOMAIN new.members, new.members)
    <2>1. releases # <<>> /\ Len(releases) \in 1..Len(releases)
      BY <1>2, <1>8
    <2>2. Newer(new.version, Latest.version)
      BY <1>1, <1>3, <2>1
    <2>3. Latest.version.major <= new.version.major
      BY <1>6, <2>1, <2>2 DEF Newer, Latest
    <2>4. Serves(Latest, tree.manifest.version, tree.manifest.members, tree.member)
      BY <1>3, <2>1 DEF PromiseInv, Loads
    <2>5. Serves(Latest, new.version, DOMAIN new.members, new.members)
      BY <1>3, <1>4, <2>4 DEF Serves
    <2>6. releases[i].version.major <= Latest.version.major
      BY DEF PromiseInv, Ascending
    <2> QED BY <2>1, <2>3, <2>5, <2>6
  <1>9. Ascending'
    <2> SUFFICES ASSUME NEW i \in 1..Len(releases')
                 PROVE  releases'[i].version.major <= new.version.major
      BY <1>7 DEF Ascending
    <2>1. CASE i = Len(releases) + 1
      BY <1>6, <1>7, <2>1
    <2>2. CASE i \in 1..Len(releases)
      <3>1. /\ releases[i].version.major \in Nat /\ Latest.version.major \in Nat
            /\ new.version.major \in Nat
        BY <1>6, <1>8, <2>2 DEF Latest
      <3>2. /\ releases[i].version.major <= Latest.version.major
            /\ Latest.version.major <= new.version.major
        BY <1>8, <2>2
      <3>3. releases[i].version.major <= new.version.major
        BY ONLY <3>1, <3>2, SMT
      <3> QED BY <1>7, <2>2, <3>3
    <2> QED BY <1>7, <2>1, <2>2
  <1>10. ASSUME NEW i \in 1..Len(releases), releases[i].version.major = new.version.major,
                NEW m \in DOMAIN releases[i].members
         PROVE  /\ m \in DOMAIN new.members
                /\ StillWorks(releases[i].members[m], new.members[m])
    <2>1. /\ releases[i].version.major \in Nat /\ Latest.version.major \in Nat
          /\ new.version.major \in Nat
      BY <1>6, <1>8 DEF Latest
    <2>2. /\ Latest.version.major = new.version.major
          /\ releases[i].version.major = Latest.version.major
      BY <1>8, <1>10, <2>1
    <2>3. /\ m \in DOMAIN Latest.members
          /\ StillWorks(releases[i].members[m], Latest.members[m])
      <3>1. CASE i = Len(releases)
        BY <3>1, WorksWithItself DEF Latest
      <3>2. CASE i # Len(releases)
        <4>1. i < Len(releases) /\ Len(releases) \in 1..Len(releases)
          BY <1>7, <1>8, <3>2
        <4> QED BY <2>2, <4>1 DEF PromiseInv, StableWithinMajor, Latest
      <3> QED BY <3>1, <3>2
    <2>4. /\ m \in DOMAIN new.members
          /\ StillWorks(Latest.members[m], new.members[m])
      BY <1>4, <1>8, <2>2, <2>3 DEF Serves
    <2> QED BY <2>3, <2>4, WorksOn
  <1>11. StableWithinMajor'
    <2> SUFFICES ASSUME NEW i \in 1..Len(releases'), NEW j \in 1..Len(releases'), i < j,
                        releases'[i].version.major = releases'[j].version.major,
                        NEW m \in DOMAIN releases'[i].members
                 PROVE  /\ m \in DOMAIN releases'[j].members
                        /\ StillWorks(releases'[i].members[m], releases'[j].members[m])
      BY DEF StableWithinMajor
    <2>1. i \in 1..Len(releases) /\ releases'[i] = releases[i]
      BY <1>7
    <2>2. CASE j = Len(releases) + 1
      BY <1>7, <1>10, <2>1, <2>2
    <2>3. CASE j \in 1..Len(releases)
      <3>1. releases'[j] = releases[j]
        BY <1>7, <2>3
      <3> QED BY <2>1, <2>3, <3>1 DEF PromiseInv, StableWithinMajor
    <2> QED BY <1>7, <2>2, <2>3
  <1>12. Serves(new, tree.manifest.version, tree.manifest.members, tree.member)
    BY ServesItself DEF new
  <1> QED BY <1>1, <1>7, <1>9, <1>11, <1>12 DEF PromiseInv

LEMMA InitPromiseInv == Init => PromiseInv
  <1> SUFFICES ASSUME Init PROVE PromiseInv
    OBVIOUS
  <1>1. run.pc = "idle" /\ releases \in Seq(Snapshots)
    BY InitReleaseInv DEF Init, ReleaseInv, TypeOK
  <1>2. CASE releases = <<>>
    BY <1>1, <1>2 DEF PromiseInv, StableWithinMajor, Ascending
  <1>3. CASE releases = <<LoadSplit(tree)>>
    <2>1. Len(releases) = 1 /\ Latest = releases[1] /\ releases[1] = LoadSplit(tree)
      BY <1>3 DEF Latest
    <2>2. releases[1].version.major \in Nat
      <3>1. releases[1] \in Snapshots
        BY <1>1, <2>1
      <3> QED BY <3>1, VersionFields DEF Snapshots
    <2>3. StableWithinMajor /\ Ascending
      BY <2>1, <2>2 DEF StableWithinMajor, Ascending
    <2>4. Serves(Latest, tree.manifest.version, tree.manifest.members, tree.member)
      BY <2>1, ServesItself
    <2> QED BY <1>1, <2>3, <2>4 DEF PromiseInv
  <1> QED BY <1>2, <1>3 DEF Init

LEMMA NextKeepsPromiseInv ==
    ReleaseInv /\ CoverInv /\ PromiseInv /\ [Next]_vars => PromiseInv'
  <1> SUFFICES ASSUME ReleaseInv, CoverInv, PromiseInv, [Next]_vars PROVE PromiseInv'
    OBVIOUS
  <1>1. CASE UNCHANGED vars
    BY <1>1 DEF vars, PromiseInv, StableWithinMajor, Ascending, Latest
  <1>2. CASE Next
    BY <1>2, GeneratePromises, WriteManifestPromises, WriteIdentityPromises,
       WriteMemberPromises, BreaksPromises, EndsPromise, ReleasePromises DEF Next
  <1> QED BY <1>1, <1>2

\* A program written for a release works with every later one of its major
\* version, whatever runs were interrupted in between, unless a run has met
\* one of the breaches that DiffLevel does not see.
THEOREM SemverHolds == Spec => []SemverPromise
  <1>1. Spec => []CoverInv
    <2> QED BY InitCoverInv, NextKeepsCoverInv, ReleaseInvariant, PTL DEF Spec
  <1>2. Spec => []PromiseInv
    BY <1>1, InitPromiseInv, NextKeepsPromiseInv, ReleaseInvariant, PTL DEF Spec
  <1>3. PromiseInv => SemverPromise
    BY DEF PromiseInv, SemverPromise
  <1> QED BY <1>2, <1>3, PTL

=============================================================================

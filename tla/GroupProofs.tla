------------------------------ MODULE GroupProofs ------------------------------
(***************************************************************************)
(* Proofs about Group, for every group of members and every exclude table. *)
(***************************************************************************)
EXTENDS Group, WellFoundedInduction, TLAPS

\* The source's sub-server is finished.
Added(s) == s < src \/ (s = src /\ phase = "serving")

\* The member's contributions have been merged.
IsMerged(m) ==
    \/ Added(group.source[m])
    \/ (group.source[m] = src /\ m \in merged)

\* What a sub-server keeps is a copy of a member that has been merged.
KeptIsMerged ==
    \A s \in Sources, r \in Roles, t \in Types :
        sub[s][r][t] # None =>
            /\ group.source[sub[s][r][t]] = s
            /\ Contributes(sub[s][r][t], r, t)
            /\ IsMerged(sub[s][r][t])

\* What has been merged is kept, an unnamed copy as it is.
MergedIsKept ==
    \A m \in Members, r \in Roles, t \in Types :
        Contributes(m, r, t) /\ IsMerged(m) =>
            /\ sub[group.source[m]][r][t] # None
            /\ t \notin group.loses[m] => sub[group.source[m]][r][t] = m

\* The placed copy is one of a finished sub-server.
PlacedIsAdded ==
    \A r \in Roles, t \in Types :
        placedBy[r][t] # None =>
            Added(placedBy[r][t]) /\ sub[placedBy[r][t]][r][t] # None

\* What a finished sub-server keeps is placed, an unnamed source's by itself.
AddedIsPlaced ==
    \A s \in Sources, r \in Roles, t \in Types :
        Added(s) /\ sub[s][r][t] # None =>
            /\ placedBy[r][t] # None
            /\ t \notin group.sourceLoses[s] => placedBy[r][t] = s

\* The schema offered and the route are those of the placed copy.
TablesAgree ==
    /\ owner = placedBy
    /\ \A r \in Roles, t \in Types :
           schemas[r][t] = IF placedBy[r][t] = None THEN None
                           ELSE sub[placedBy[r][t]][r][t]

\* A type is carried out with its own member's client, or with none.
ClientsAgree ==
    \A s \in Sources, t \in Types :
        Added(s) /\ sub[s]["resource"][t] # None /\ s # CloudFormation =>
            client[s][t] \in {None, sub[s]["resource"][t]}

\* No source is left out, and no request is answered before the last is in.
NoneSkipped ==
    /\ src \in Present
    /\ phase = "serving" => Later = {}
    /\ answer # NoAnswer => phase = "serving"

GroupInv ==
    /\ TypeOK
    /\ KeptIsMerged
    /\ MergedIsKept
    /\ PlacedIsAdded
    /\ AddedIsPlaced
    /\ TablesAgree
    /\ ClientsAgree
    /\ NoneSkipped
    /\ RequestsGoHome
    /\ RefusedForCause
-----------------------------------------------------------------------------
(* Numbers, copies and sources.                                             *)

LEMMA LeastOf ==
    ASSUME NEW S \in SUBSET Nat, S # {}
    PROVE  Least(S) \in S /\ \A y \in S : Least(S) <= y
<1>1. PICK x \in S : \A y \in S : <<y, x>> \notin OpToRel(<, Nat)
  BY NatLessThanWellFounded, WFMin
<1>2. \A y \in S : ~(y < x)
  BY <1>1 DEF OpToRel
<1>3. \A y \in S : x <= y
  BY <1>2
<1> QED
  BY <1>3 DEF Least

LEMMA Names ==
    /\ Members \subseteq Nat /\ None \notin Members /\ Members # {}
    /\ Sources \subseteq Nat /\ None \notin Sources
BY GroupAssumption DEF None

\* What a merge leaves at a name: the old copy, or the newcomer's.
LEMMA MergedValue ==
    ASSUME NEW placed, NEW contributed, NEW name, NEW loses, NEW t \in Types
    PROVE  LET merge == Merged(placed, contributed, name, loses)
           IN  /\ merge[t] = placed[t] \/ (merge[t] = name /\ t \in contributed)
               /\ t \in contributed /\ placed[t] = None => merge[t] = name
               /\ merge[t] # placed[t] /\ placed[t] # None => t \in loses[placed[t]]
               /\ /\ ~Undecided(placed, contributed, name, loses)
                  /\ t \in contributed
                  /\ t \notin loses[name]
                  => merge[t] = name
BY DEF Merged, Undecided

LEMMA InitInv == Init => GroupInv
<1> SUFFICES ASSUME Init PROVE GroupInv
  OBVIOUS
<1>1. Present # {} /\ Present \subseteq Sources
  BY Names DEF Init, Present, InSource, Groups
<1>2. src \in Present /\ \A s \in Present : src <= s
  BY <1>1, Names, LeastOf DEF Init
<1>3. phase = "merging" /\ merged = {} /\ reason = "none" /\ answer.outcome = "none"
  BY DEF Init, NoAnswer
<1>4. \A s \in Sources, r \in Roles, t \in Types :
          sub[s][r][t] = None /\ placedBy[r][t] = None /\ schemas[r][t] = None
  BY DEF Init, Nowhere
<1>5. TypeOK
  BY <1>1, <1>2, Names
     DEF Init, TypeOK, Phases, Reasons, Nowhere, MemberOrNone, SourceOrNone
<1>6. KeptIsMerged
  BY <1>4 DEF KeptIsMerged
<1>7. \A m \in Members : ~IsMerged(m)
  <2> SUFFICES ASSUME NEW m \in Members PROVE ~IsMerged(m)
    OBVIOUS
  <2>1. group.source[m] \in Present
    BY DEF Init, Present, InSource, Groups
  <2>2. src \in Nat /\ group.source[m] \in Nat /\ src <= group.source[m]
    BY <2>1, <1>1, <1>2, Names
  <2> QED
    BY <2>2, <1>3 DEF IsMerged, Added
<1>8. MergedIsKept
  BY <1>7 DEF MergedIsKept
<1>9. PlacedIsAdded
  <2> SUFFICES ASSUME NEW r \in Roles, NEW t \in Types
               PROVE  placedBy[r][t] = None
    BY DEF PlacedIsAdded
  <2> QED
    BY DEF Init, Nowhere
<1>10. AddedIsPlaced
  BY <1>4 DEF AddedIsPlaced
<1>11. TablesAgree
  <2>1. owner = placedBy
    BY DEF Init
  <2>2. \A r \in Roles, t \in Types : placedBy[r][t] = None /\ schemas[r][t] = None
    BY DEF Init, Nowhere
  <2> QED
    BY <2>1, <2>2 DEF TablesAgree
<1>12. ClientsAgree
  BY DEF Init, ClientsAgree
<1>13. NoneSkipped /\ RequestsGoHome /\ RefusedForCause
  BY <1>2, <1>3 DEF Init, NoneSkipped, RequestsGoHome, RefusedForCause
<1> QED
  BY <1>5, <1>6, <1>8, <1>9, <1>10, <1>11, <1>12, <1>13 DEF GroupInv
-----------------------------------------------------------------------------
(* Merging a member.                                                        *)

LEMMA MergeStep ==
    ASSUME GroupInv,
           phase = "merging",
           NEW m \in InSource(src) \ merged,
           ~Undecided(sub[src][group.role[m]], group.types[m], m, group.loses),
           sub' = [sub EXCEPT ![src][group.role[m]] =
                     Merged(sub[src][group.role[m]], group.types[m], m, group.loses)],
           merged' = merged \cup {m},
           UNCHANGED <<group, phase, reason, src, client, tables, answer>>
    PROVE  GroupInv'
<1> DEFINE role == group.role[m]
           new == Merged(sub[src][role], group.types[m], m, group.loses)
<1>1. /\ m \in Members /\ group.source[m] = src /\ role \in Roles
      /\ group.types[m] \subseteq Types /\ src \in Sources /\ src \in Nat /\ m # None
  BY Names DEF GroupInv, TypeOK, Groups, InSource
<1>2. /\ group' = group /\ phase' = phase /\ reason' = reason /\ src' = src
      /\ client' = client /\ placedBy' = placedBy /\ schemas' = schemas
      /\ owner' = owner /\ answer' = answer
  BY DEF tables
<1>3. /\ sub'[src][role] = new
      /\ \A s \in Sources, r \in Roles :
            s # src \/ r # role => sub'[s][r] = sub[s][r]
  BY <1>1 DEF GroupInv, TypeOK
<1>4. new \in [Types -> MemberOrNone]
  <2>1. sub[src][role] \in [Types -> MemberOrNone]
    BY <1>1 DEF GroupInv, TypeOK
  <2> QED
    BY <2>1, <1>1 DEF Merged, MemberOrNone
<1>5. \A s : Added(s)' <=> Added(s)
  BY <1>2 DEF Added
<1>6. ~Added(src)
  BY <1>1 DEF Added
<1>7. \A n : IsMerged(n)' <=> IsMerged(n) \/ n = m
  BY <1>1, <1>2 DEF IsMerged, Added
<1>8. ~IsMerged(m)
  BY <1>1, <1>6 DEF IsMerged
<1>9. TypeOK'
  <2>1. sub' \in [Sources -> [Roles -> [Types -> MemberOrNone]]]
    BY <1>1, <1>4 DEF GroupInv, TypeOK
  <2>2. merged' \subseteq InSource(src)'
    BY <1>2 DEF GroupInv, TypeOK, InSource
  <2> QED
    BY <2>1, <2>2, <1>2 DEF GroupInv, TypeOK
<1>10. \A s \in Sources, r \in Roles, t \in Types :
          \/ sub'[s][r][t] = sub[s][r][t]
          \/ s = src /\ r = role /\ sub'[s][r][t] = m /\ t \in group.types[m]
  BY <1>3, MergedValue
<1>11. KeptIsMerged'
  <2> SUFFICES ASSUME NEW s \in Sources, NEW r \in Roles, NEW t \in Types,
                      sub'[s][r][t] # None
               PROVE  /\ group.source[sub'[s][r][t]] = s
                      /\ Contributes(sub'[s][r][t], r, t)
                      /\ IsMerged(sub'[s][r][t]) \/ sub'[s][r][t] = m
    BY <1>2, <1>7 DEF KeptIsMerged, Contributes
  <2>1. CASE sub'[s][r][t] = sub[s][r][t]
    BY <2>1 DEF GroupInv, KeptIsMerged
  <2>2. CASE s = src /\ r = role /\ sub'[s][r][t] = m /\ t \in group.types[m]
    BY <2>2, <1>1 DEF Contributes
  <2> QED
    BY <2>1, <2>2, <1>10
<1>12. MergedIsKept'
  <2> SUFFICES ASSUME NEW n \in Members, NEW r \in Roles, NEW t \in Types,
                      Contributes(n, r, t), IsMerged(n) \/ n = m
               PROVE  /\ sub'[group.source[n]][r][t] # None
                      /\ t \notin group.loses[n] => sub'[group.source[n]][r][t] = n
    BY <1>2, <1>7 DEF MergedIsKept, Contributes
  <2>1. CASE n = m
    <3>1. r = role /\ t \in group.types[m]
      BY <2>1 DEF Contributes
    <3>2. sub'[group.source[n]][r][t] = new[t]
      BY <2>1, <3>1, <1>1, <1>3
    <3>3. new[t] # None /\ (t \notin group.loses[m] => new[t] = m)
      BY <3>1, <1>1, MergedValue
    <3> QED
      BY <3>2, <3>3, <2>1
  <2>2. CASE n # m
    <3>1. /\ sub[group.source[n]][r][t] # None
          /\ t \notin group.loses[n] => sub[group.source[n]][r][t] = n
      BY <2>2 DEF GroupInv, MergedIsKept
    <3>2. group.source[n] \in Sources
      BY DEF GroupInv, TypeOK, Groups
    <3>3. CASE group.source[n] = src /\ r = role
      <4>1. sub'[group.source[n]][r][t] = new[t]
        BY <3>3, <1>3
      <4>2. new[t] = sub[src][role][t] \/ new[t] = m
        BY MergedValue
      <4>3. new[t] # sub[src][role][t] => t \in group.loses[sub[src][role][t]]
        BY <3>1, <3>3, MergedValue
      <4> QED
        BY <4>1, <4>2, <4>3, <3>1, <3>3, <1>1
    <3>4. CASE ~(group.source[n] = src /\ r = role)
      BY <3>1, <3>2, <3>4, <1>3
    <3> QED
      BY <3>3, <3>4
  <2> QED
    BY <2>1, <2>2
<1>13. \A s \in Sources, r \in Roles : Added(s) => sub'[s][r] = sub[s][r]
  BY <1>3, <1>6
<1>14. \A r \in Roles, t \in Types : placedBy[r][t] # None => placedBy[r][t] \in Sources
  BY DEF GroupInv, TypeOK, SourceOrNone
<1>15. PlacedIsAdded'
  BY <1>2, <1>5, <1>13, <1>14 DEF GroupInv, PlacedIsAdded
<1>16. AddedIsPlaced'
  BY <1>2, <1>5, <1>13 DEF GroupInv, AddedIsPlaced
<1>17. TablesAgree'
  BY <1>2, <1>13, <1>14 DEF GroupInv, TablesAgree, PlacedIsAdded
<1>18. ClientsAgree'
  BY <1>2, <1>5, <1>13 DEF GroupInv, ClientsAgree, Roles
<1>19. NoneSkipped' /\ RequestsGoHome'
  BY <1>2 DEF GroupInv, NoneSkipped, RequestsGoHome, NoAnswer, Present, InSource
<1>20. RefusedForCause'
  BY <1>2 DEF GroupInv, RefusedForCause, TrueCollision, Present, InSource
<1> QED
  BY <1>9, <1>11, <1>12, <1>15, <1>16, <1>17, <1>18, <1>19, <1>20 DEF GroupInv
-----------------------------------------------------------------------------
(* Refusals.                                                                *)

\* Ending the launch disturbs nothing, if there was a reason to.
LEMMA RefuseStep ==
    ASSUME GroupInv, phase = "merging", NEW why \in Reasons, Refuse(why),
           why = "collision" =>
               \E m, n \in Members, t \in Types : TrueCollision(m, n, t),
           why = "empty" =>
               \E s \in Present : \A m \in InSource(s) : group.types[m] = {}
    PROVE  GroupInv'
<1>1. /\ group' = group /\ src' = src /\ merged' = merged /\ sub' = sub
      /\ client' = client /\ placedBy' = placedBy /\ schemas' = schemas
      /\ owner' = owner /\ answer' = answer /\ phase' = "refused" /\ reason' = why
  BY DEF Refuse, tables
<1>2. TypeOK'
  BY <1>1 DEF GroupInv, TypeOK, Phases, InSource
<1>3. \A s : Added(s)' <=> Added(s)
  BY <1>1 DEF Added
<1>4. \A n : IsMerged(n)' <=> IsMerged(n)
  BY <1>1, <1>3 DEF IsMerged
<1>5. KeptIsMerged' /\ MergedIsKept'
  BY <1>1, <1>4 DEF GroupInv, KeptIsMerged, MergedIsKept, Contributes
<1>6. PlacedIsAdded' /\ AddedIsPlaced' /\ TablesAgree' /\ ClientsAgree'
  BY <1>1, <1>3 DEF GroupInv, PlacedIsAdded, AddedIsPlaced, TablesAgree, ClientsAgree
<1>7. NoneSkipped' /\ RequestsGoHome'
  BY <1>1 DEF GroupInv, NoneSkipped, RequestsGoHome, NoAnswer, Present, InSource
<1>8. RefusedForCause'
  BY <1>1 DEF RefusedForCause, TrueCollision, Present, InSource
<1> QED
  BY <1>2, <1>5, <1>6, <1>7, <1>8 DEF GroupInv

\* A collision within a source is one of two of its members.
LEMMA CollisionWithin ==
    ASSUME GroupInv, phase = "merging", NEW m \in InSource(src) \ merged,
           Undecided(sub[src][group.role[m]], group.types[m], m, group.loses)
    PROVE  \E n, k \in Members, t \in Types : TrueCollision(n, k, t)
<1> DEFINE role == group.role[m]
<1>1. /\ m \in Members /\ group.source[m] = src /\ role \in Roles /\ src \in Sources
      /\ src \in Nat /\ group.types[m] \subseteq Types
  BY Names DEF GroupInv, TypeOK, Groups, InSource
<1>2. PICK t \in group.types[m] :
          /\ sub[src][role][t] # None
          /\ t \notin group.loses[m]
          /\ t \notin group.loses[sub[src][role][t]]
  BY DEF Undecided
<1> DEFINE n == sub[src][role][t]
<1>3. n \in Members
  BY <1>1, <1>2 DEF GroupInv, TypeOK, MemberOrNone
<1>4. group.source[n] = src /\ Contributes(n, role, t) /\ IsMerged(n)
  BY <1>1, <1>2 DEF GroupInv, KeptIsMerged
<1>5. n # m
  BY <1>1, <1>4 DEF IsMerged, Added
<1>6. TrueCollision(m, n, t)
  BY <1>1, <1>2, <1>4, <1>5 DEF TrueCollision, Contributes
<1> QED
  BY <1>1, <1>3, <1>6

\* A collision between sources is one of two of their members.
LEMMA CollisionBetween ==
    ASSUME GroupInv, phase = "merging", CollidesAcross
    PROVE  \E n, k \in Members, t \in Types : TrueCollision(n, k, t)
<1>1. src \in Sources /\ src \in Nat
  BY Names DEF GroupInv, TypeOK
<1>2. PICK r \in Roles : Undecided(placedBy[r], Has(src, r), src, group.sourceLoses)
  BY DEF CollidesAcross
<1>3. PICK t \in Has(src, r) :
          /\ placedBy[r][t] # None
          /\ t \notin group.sourceLoses[src]
          /\ t \notin group.sourceLoses[placedBy[r][t]]
  BY <1>2 DEF Undecided
<1> DEFINE other == placedBy[r][t]
           m == sub[src][r][t]
           n == sub[other][r][t]
<1>4. t \in Types /\ m # None
  BY <1>3 DEF Has
<1>5. other \in Sources /\ other # src /\ n # None
  <2>1. Added(other) /\ n # None
    BY <1>3, <1>4 DEF GroupInv, PlacedIsAdded
  <2> QED
    BY <2>1, <1>1, <1>3, <1>4 DEF Added, GroupInv, TypeOK, SourceOrNone
<1>6. m \in Members /\ n \in Members
  <2>1. \A s \in Sources : sub[s][r][t] \in MemberOrNone
    BY <1>4 DEF GroupInv, TypeOK
  <2> QED
    BY <2>1, <1>1, <1>4, <1>5 DEF MemberOrNone
<1>7. /\ group.source[m] = src /\ Contributes(m, r, t)
      /\ group.source[n] = other /\ Contributes(n, r, t)
  BY <1>1, <1>4, <1>5 DEF GroupInv, KeptIsMerged
<1>8. TrueCollision(m, n, t)
  BY <1>3, <1>5, <1>7 DEF TrueCollision, Contributes
<1> QED
  BY <1>4, <1>6, <1>8

\* A source whose sub-server has nothing consists of members with nothing.
LEMMA EmptySource ==
    ASSUME GroupInv, AllMerged, \A r \in Roles : Has(src, r) = {}
    PROVE  \A m \in InSource(src) : group.types[m] = {}
<1> SUFFICES ASSUME NEW m \in InSource(src), NEW t \in group.types[m]
             PROVE  FALSE
  OBVIOUS
<1>1. /\ m \in Members /\ group.source[m] = src /\ group.role[m] \in Roles
      /\ t \in Types
  BY DEF GroupInv, TypeOK, Groups, InSource
<1>2. IsMerged(m)
  BY <1>1 DEF AllMerged, IsMerged
<1>3. sub[src][group.role[m]][t] # None
  BY <1>1, <1>2 DEF GroupInv, MergedIsKept, Contributes
<1> QED
  BY <1>1, <1>3 DEF Has
-----------------------------------------------------------------------------
(* Adding a source.                                                         *)

\* A sub-server's client is that of a member with resources, outside
\* CloudFormation that of the type's own.
LEMMA ClientIsMembers ==
    ASSUME GroupInv, ~TooManyModels, NEW t \in Types
    PROVE  /\ ClientOf(t) \in MemberOrNone
           /\ src # CloudFormation => ClientOf(t) \in {None, sub[src]["resource"][t]}
<1> DEFINE own == sub[src]["resource"][t]
           models == InRole(src, "resource")
<1>1. src \in Sources /\ own \in MemberOrNone
  BY DEF GroupInv, TypeOK, Roles
<1>2. CASE own = None \/ src = DiscoveryDocs
  BY <1>2 DEF ClientOf, MemberOrNone
<1>3. CASE own # None /\ src = OpenAPI
  BY <1>1, <1>3 DEF ClientOf, DiscoveryDocs, OpenAPI
<1>4. CASE own # None /\ src \notin {DiscoveryDocs, OpenAPI}
  <2>1. ClientOf(t) = Least(models)
    BY <1>4 DEF ClientOf
  <2>2. own \in Members /\ own \in models
    BY <1>1, <1>4
       DEF GroupInv, KeptIsMerged, MemberOrNone, InRole, InSource, Contributes, Roles
  <2>3. Least(models) \in models /\ models \subseteq Members
    <3>1. models \subseteq Members
      BY DEF InRole, InSource
    <3> QED
      BY <3>1, <2>2, Names, LeastOf
  <2>4. src # CloudFormation => src = Smithy
    BY <1>1, <1>4, GroupAssumption
       DEF CloudFormation, DiscoveryDocs, OpenAPI, Smithy
  <2>5. src = Smithy => Least(models) = own
    BY <2>2, <2>3 DEF TooManyModels
  <2> QED
    BY <2>1, <2>3, <2>4, <2>5 DEF MemberOrNone
<1> QED
  BY <1>2, <1>3, <1>4

LEMMA AddStep ==
    ASSUME GroupInv, AddSource
    PROVE  GroupInv'
<1> DEFINE AddedNow(s) == s < src' \/ (s = src' /\ phase' = "serving")
<1>1. /\ phase = "merging" /\ ~TooManyModels /\ merged = InSource(src)
      /\ ~CollidesAcross
  BY DEF AddSource, AllMerged
<1>2. /\ group' = group /\ reason' = reason /\ sub' = sub /\ answer' = answer
      /\ client' = [client EXCEPT ![src] = [t \in Types |-> ClientOf(t)]]
      /\ placedBy' = NewPlaces /\ schemas' = NewSchemas /\ owner' = NewOwners
  BY DEF AddSource
<1>3. /\ src \in Sources /\ src \in Nat /\ src # None /\ src \in Present
      /\ Present \subseteq Sources /\ Present' = Present
      /\ answer = NoAnswer
  BY <1>1, <1>2, Names DEF GroupInv, TypeOK, NoneSkipped, Present, InSource
<1>4. \/ /\ Later = {} /\ phase' = "serving" /\ src' = src /\ merged' = merged
      \/ /\ Later # {} /\ phase' = phase /\ src' \in Later /\ merged' = {}
         /\ \A s \in Later : src' <= s
  <2>1. Later \subseteq Nat
    BY Names DEF Later, Present
  <2> QED
    BY <2>1, LeastOf DEF AddSource, NextSource
<1>5. src' \in Sources /\ src' \in Nat /\ src' \in Present /\ src <= src'
  <2>1. src' = src \/ src' \in Later
    BY <1>4
  <2>2. Later \subseteq Present /\ Present \subseteq Nat /\ \A s \in Later : src < s
    BY <1>3, Names DEF Later
  <2>3. src' \in Present /\ src' \in Nat
    BY <2>1, <2>2, <1>3
  <2>4. src <= src'
    BY <2>1, <2>2, <2>3, <1>3
  <2> QED
    BY <2>3, <2>4, <1>3
<1>6. ~Added(src) /\ AddedNow(src)
  <2>1. ~Added(src)
    BY <1>1, <1>3 DEF Added
  <2>2. src < src' \/ (src = src' /\ phase' = "serving")
    BY <1>3, <1>4, <1>5 DEF Later
  <2> QED
    BY <2>1, <2>2
<1>7. \A s \in Sources : Added(s) => AddedNow(s)
  <2> SUFFICES ASSUME NEW s \in Sources, Added(s) PROVE AddedNow(s)
    OBVIOUS
  <2>1. s \in Nat /\ s < src
    BY Names, <1>1 DEF Added
  <2> QED
    BY <2>1, <1>3, <1>5 DEF Added
<1>8. \A s \in Present : AddedNow(s) <=> Added(s) \/ s = src
  <2> SUFFICES ASSUME NEW s \in Present, AddedNow(s) PROVE Added(s) \/ s = src
    BY <1>3, <1>6, <1>7
  <2>1. s \in Nat
    BY <1>3, Names
  <2>2. CASE Later = {}
    BY <2>1, <2>2, <1>3, <1>4 DEF Added
  <2>3. CASE Later # {}
    <3>1. s < src'
      BY <2>3, <1>1, <1>4 DEF Added
    <3>2. s \notin Later
      BY <3>1, <2>1, <2>3, <1>4, <1>5
    <3> QED
      BY <3>2, <2>1, <1>3 DEF Later, Added
  <2> QED
    BY <2>2, <2>3
<1>9. \A m \in Members : IsMerged(m)' <=> IsMerged(m)
  <2> SUFFICES ASSUME NEW m \in Members PROVE IsMerged(m)' <=> IsMerged(m)
    OBVIOUS
  <2>1. group.source[m] \in Present /\ group'.source[m] = group.source[m]
    BY <1>2 DEF GroupInv, TypeOK, Groups, Present, InSource
  <2>2. CASE group.source[m] = src
    BY <2>1, <2>2, <1>1, <1>6 DEF IsMerged, Added, InSource
  <2>3. CASE group.source[m] # src
    <3>1. AddedNow(group.source[m]) <=> Added(group.source[m])
      BY <2>1, <2>3, <1>8
    <3>2. ~(group.source[m] = src' /\ m \in merged')
      BY <2>3, <1>4
    <3> QED
      BY <3>1, <3>2, <2>1, <2>3 DEF IsMerged, Added
  <2> QED
    BY <2>2, <2>3
<1>10. \A s \in Sources, r \in Roles, t \in Types :
           sub[s][r][t] # None => sub[s][r][t] \in Members /\ s \in Present
  <2> SUFFICES ASSUME NEW s \in Sources, NEW r \in Roles, NEW t \in Types,
                      sub[s][r][t] # None
               PROVE  sub[s][r][t] \in Members /\ s \in Present
    OBVIOUS
  <2>1. sub[s][r][t] \in Members
    BY DEF GroupInv, TypeOK, MemberOrNone
  <2> QED
    BY <2>1 DEF GroupInv, KeptIsMerged, Present, InSource
<1>11. \A r \in Roles, t \in Types :
           /\ placedBy[r][t] \in SourceOrNone
           /\ NewPlaces[r][t] \in {placedBy[r][t], src}
           /\ NewPlaces[r][t] = src /\ placedBy[r][t] # src => t \in Has(src, r)
           /\ NewSchemas[r][t] = IF NewPlaces[r][t] = src THEN sub[src][r][t]
                                 ELSE schemas[r][t]
           /\ NewOwners[r][t] = IF NewPlaces[r][t] = src THEN src ELSE owner[r][t]
  <2> SUFFICES ASSUME NEW r \in Roles, NEW t \in Types
               PROVE  /\ placedBy[r][t] \in SourceOrNone
                      /\ NewPlaces[r][t] \in {placedBy[r][t], src}
                      /\ NewPlaces[r][t] = src /\ placedBy[r][t] # src => t \in Has(src, r)
    BY DEF NewSchemas, NewOwners
  <2>1. placedBy[r][t] \in SourceOrNone
    BY DEF GroupInv, TypeOK
  <2>2. NewPlaces[r] = Merged(placedBy[r], Has(src, r), src, group.sourceLoses)
    BY DEF NewPlaces
  <2> QED
    BY <2>1, <2>2, MergedValue
<1>12. \A r \in Roles, t \in Types : placedBy[r][t] # src
  BY <1>3, <1>6 DEF GroupInv, PlacedIsAdded
<1>13. TypeOK'
  <2>1. client' \in [Sources -> [Types -> MemberOrNone]]
    <3>1. [t \in Types |-> ClientOf(t)] \in [Types -> MemberOrNone]
      BY <1>1, ClientIsMembers
    <3> QED
      BY <3>1, <1>2 DEF GroupInv, TypeOK
  <2>2. placedBy' \in [Roles -> [Types -> SourceOrNone]]
    <3>1. \A r \in Roles, t \in Types : NewPlaces[r][t] \in SourceOrNone
      BY <1>3, <1>11 DEF SourceOrNone
    <3> QED
      BY <3>1, <1>2 DEF NewPlaces, Merged
  <2>3. owner' \in [Roles -> [Types -> SourceOrNone]]
    BY <1>2, <1>3 DEF GroupInv, TypeOK, NewOwners, SourceOrNone
  <2>4. schemas' \in [Roles -> [Types -> MemberOrNone]]
    BY <1>2, <1>3 DEF GroupInv, TypeOK, NewSchemas
  <2>5. merged' \subseteq InSource(src)' /\ phase' \in Phases
    BY <1>1, <1>2, <1>4 DEF InSource, Phases
  <2>6. group' \in Groups /\ reason' \in Reasons /\ answer' \in Answers \cup {NoAnswer}
        /\ sub' \in [Sources -> [Roles -> [Types -> MemberOrNone]]]
    BY <1>2 DEF GroupInv, TypeOK
  <2> QED
    BY <2>1, <2>2, <2>3, <2>4, <2>5, <2>6, <1>5 DEF TypeOK
<1>14. KeptIsMerged'
  BY <1>2, <1>9, <1>10 DEF GroupInv, KeptIsMerged, Contributes
<1>15. MergedIsKept'
  BY <1>2, <1>9 DEF GroupInv, MergedIsKept, Contributes
<1>16. PlacedIsAdded'
  <2> SUFFICES ASSUME NEW r \in Roles, NEW t \in Types, NewPlaces[r][t] # None
               PROVE  AddedNow(NewPlaces[r][t]) /\ sub[NewPlaces[r][t]][r][t] # None
    BY <1>2 DEF PlacedIsAdded, Added
  <2>1. CASE NewPlaces[r][t] = src
    BY <2>1, <1>6, <1>11, <1>12 DEF Has
  <2>2. CASE NewPlaces[r][t] # src
    <3>1. NewPlaces[r][t] = placedBy[r][t] /\ placedBy[r][t] \in Sources
      BY <2>2, <1>11 DEF SourceOrNone
    <3> QED
      BY <3>1, <1>7 DEF GroupInv, PlacedIsAdded
  <2> QED
    BY <2>1, <2>2
<1>17. AddedIsPlaced'
  <2> SUFFICES ASSUME NEW s \in Sources, NEW r \in Roles, NEW t \in Types,
                      AddedNow(s), sub[s][r][t] # None
               PROVE  /\ NewPlaces[r][t] # None
                      /\ t \notin group.sourceLoses[s] => NewPlaces[r][t] = s
    BY <1>2 DEF AddedIsPlaced, Added
  <2>1. NewPlaces[r] = Merged(placedBy[r], Has(src, r), src, group.sourceLoses)
    BY DEF NewPlaces
  <2>2. ~Undecided(placedBy[r], Has(src, r), src, group.sourceLoses)
    BY <1>1 DEF CollidesAcross
  <2>3. CASE s = src
    <3>1. t \in Has(src, r)
      BY <2>3 DEF Has
    <3> QED
      BY <3>1, <2>1, <2>2, <2>3, <1>3, <1>11, MergedValue
  <2>4. CASE s # src
    <3>1. Added(s)
      BY <2>4, <1>8, <1>10
    <3>2. /\ placedBy[r][t] # None
          /\ t \notin group.sourceLoses[s] => placedBy[r][t] = s
      BY <3>1 DEF GroupInv, AddedIsPlaced
    <3>3. NewPlaces[r][t] # placedBy[r][t] => t \in group.sourceLoses[placedBy[r][t]]
      BY <3>2, <2>1, MergedValue
    <3> QED
      BY <3>2, <3>3, <1>3, <1>11
  <2> QED
    BY <2>3, <2>4
<1>18. TablesAgree'
  <2>1. NewOwners = NewPlaces
    <3>1. \A r \in Roles, t \in Types : NewOwners[r][t] = NewPlaces[r][t]
      BY <1>11 DEF GroupInv, TablesAgree
    <3> QED
      BY <3>1 DEF NewOwners, NewPlaces, Merged
  <2>2. ASSUME NEW r \in Roles, NEW t \in Types
        PROVE  NewSchemas[r][t] = IF NewPlaces[r][t] = None THEN None
                                  ELSE sub[NewPlaces[r][t]][r][t]
    BY <1>3, <1>11 DEF GroupInv, TablesAgree
  <2> QED
    BY <2>1, <2>2, <1>2 DEF TablesAgree
<1>19. ClientsAgree'
  <2> SUFFICES ASSUME NEW s \in Sources, NEW t \in Types,
                      AddedNow(s), sub[s]["resource"][t] # None, s # CloudFormation
               PROVE  client'[s][t] \in {None, sub[s]["resource"][t]}
    BY <1>2 DEF ClientsAgree, Added
  <2>1. CASE s = src
    <3>1. client'[s][t] = ClientOf(t)
      BY <2>1, <1>2 DEF GroupInv, TypeOK
    <3> QED
      BY <3>1, <2>1, <1>1, ClientIsMembers
  <2>2. CASE s # src
    <3>1. client'[s][t] = client[s][t]
      BY <2>2, <1>2 DEF GroupInv, TypeOK
    <3>2. Added(s)
      BY <2>2, <1>8, <1>10 DEF Roles
    <3> QED
      BY <3>1, <3>2 DEF GroupInv, ClientsAgree
  <2> QED
    BY <2>1, <2>2
<1>20. NoneSkipped'
  <2>1. phase' = "serving" => Later' = {}
    BY <1>1, <1>3, <1>4 DEF Later
  <2> QED
    BY <2>1, <1>2, <1>3, <1>5 DEF NoneSkipped
<1>21. RequestsGoHome'
  BY <1>2, <1>3 DEF RequestsGoHome, NoAnswer
<1>22. RefusedForCause'
  BY <1>2, <1>3 DEF GroupInv, RefusedForCause, TrueCollision, InSource
<1> QED
  BY <1>13, <1>14, <1>15, <1>16, <1>17, <1>18, <1>19, <1>20, <1>21, <1>22 DEF GroupInv
-----------------------------------------------------------------------------
(* Requests.                                                                *)

LEMMA RequestStep ==
    ASSUME GroupInv, Request
    PROVE  GroupInv'
<1>1. /\ group' = group /\ src' = src /\ merged' = merged /\ sub' = sub
      /\ client' = client /\ placedBy' = placedBy /\ schemas' = schemas
      /\ owner' = owner /\ phase' = phase /\ reason' = reason /\ phase = "serving"
  BY DEF Request, tables, pipeline
<1>2. PICK t \in Types : RequestResource(t) \/ RequestData(t)
  BY DEF Request
<1> DEFINE o == owner["resource"][t]
           own == sub[o]["resource"][t]
<1>3. "resource" \in Roles /\ o \in SourceOrNone /\ owner = placedBy
  BY DEF GroupInv, TypeOK, TablesAgree, Roles
<1>4. ASSUME RequestResource(t), o # None
      PROVE  answer' \in Answers /\ RequestsGoHome'
  <2>1. o \in Sources /\ Added(o) /\ own # None
    BY <1>3, <1>4 DEF GroupInv, PlacedIsAdded, SourceOrNone
  <2>2. answer' = [role |-> "resource", type |-> t, outcome |-> "handled",
                   member |-> own, via |-> client[o][t]]
    BY <1>4, <2>1 DEF RequestResource
  <2>3. own \in Members /\ client[o][t] \in MemberOrNone
    BY <1>3, <2>1 DEF GroupInv, TypeOK, MemberOrNone
  <2>4. schemas["resource"][t] = own
    BY <1>3, <1>4 DEF GroupInv, TablesAgree
  <2>5. group.source[own] = o
    BY <1>3, <2>1 DEF GroupInv, KeptIsMerged
  <2>6. o # CloudFormation => client[o][t] \in {None, own}
    BY <2>1 DEF GroupInv, ClientsAgree
  <2>7. answer' \in Answers
    BY <1>3, <2>2, <2>3 DEF Answers, MemberOrNone
  <2>8. RequestsGoHome'
    BY <1>1, <2>1, <2>2, <2>4, <2>5, <2>6 DEF RequestsGoHome
  <2> QED
    BY <2>7, <2>8
<1>5. ASSUME RequestResource(t), o = None
      PROVE  answer' \in Answers /\ RequestsGoHome'
  <2>1. answer' = [role |-> "resource", type |-> t, outcome |-> "unknown",
                   member |-> None, via |-> None]
    BY <1>5 DEF RequestResource
  <2>2. schemas["resource"][t] = None
    BY <1>3, <1>5 DEF GroupInv, TablesAgree
  <2>3. answer' \in Answers
    BY <1>3, <2>1 DEF Answers, MemberOrNone
  <2>4. RequestsGoHome'
    BY <1>1, <2>1, <2>2 DEF RequestsGoHome
  <2> QED
    BY <2>3, <2>4
<1>6. ASSUME RequestData(t)
      PROVE  answer' \in Answers /\ RequestsGoHome'
  <2>1. answer'.role = "data" /\ answer' \in Answers
    BY <1>6 DEF RequestData, Answers, Roles, MemberOrNone
  <2> QED
    BY <2>1 DEF RequestsGoHome
<1>7. answer' \in Answers /\ RequestsGoHome'
  BY <1>2, <1>4, <1>5, <1>6
<1>8. TypeOK'
  BY <1>1, <1>7 DEF GroupInv, TypeOK, InSource
<1>9. (\A s : Added(s)' <=> Added(s)) /\ (\A n : IsMerged(n)' <=> IsMerged(n))
  BY <1>1 DEF Added, IsMerged
<1>10. KeptIsMerged' /\ MergedIsKept'
  BY <1>1, <1>9 DEF GroupInv, KeptIsMerged, MergedIsKept, Contributes
<1>11. PlacedIsAdded' /\ AddedIsPlaced' /\ TablesAgree' /\ ClientsAgree'
  BY <1>1, <1>9 DEF GroupInv, PlacedIsAdded, AddedIsPlaced, TablesAgree, ClientsAgree
<1>12. NoneSkipped'
  BY <1>1 DEF GroupInv, NoneSkipped, Present, InSource, Later
<1>13. RefusedForCause'
  BY <1>1 DEF GroupInv, RefusedForCause, TrueCollision, Present, InSource
<1> QED
  BY <1>7, <1>8, <1>10, <1>11, <1>12, <1>13 DEF GroupInv
-----------------------------------------------------------------------------
(* Theorems.                                                                *)

LEMMA StutterStep ==
    ASSUME GroupInv, UNCHANGED vars
    PROVE  GroupInv'
<1>1. /\ group' = group /\ src' = src /\ merged' = merged /\ sub' = sub
      /\ client' = client /\ placedBy' = placedBy /\ schemas' = schemas
      /\ owner' = owner /\ phase' = phase /\ reason' = reason /\ answer' = answer
  BY DEF vars, tables, pipeline
<1>2. TypeOK'
  BY <1>1 DEF GroupInv, TypeOK, InSource
<1>3. (\A s : Added(s)' <=> Added(s)) /\ (\A n : IsMerged(n)' <=> IsMerged(n))
  BY <1>1 DEF Added, IsMerged
<1>4. KeptIsMerged' /\ MergedIsKept'
  BY <1>1, <1>3 DEF GroupInv, KeptIsMerged, MergedIsKept, Contributes
<1>5. PlacedIsAdded' /\ AddedIsPlaced' /\ TablesAgree' /\ ClientsAgree'
  BY <1>1, <1>3 DEF GroupInv, PlacedIsAdded, AddedIsPlaced, TablesAgree, ClientsAgree
<1>6. NoneSkipped' /\ RequestsGoHome'
  BY <1>1 DEF GroupInv, NoneSkipped, RequestsGoHome, Present, InSource, Later
<1>7. RefusedForCause'
  BY <1>1 DEF GroupInv, RefusedForCause, TrueCollision, Present, InSource
<1> QED
  BY <1>2, <1>4, <1>5, <1>6, <1>7 DEF GroupInv

LEMMA GroupStep == GroupInv /\ [Next]_vars => GroupInv'
<1> SUFFICES ASSUME GroupInv, [Next]_vars PROVE GroupInv'
  OBVIOUS
<1>1. CASE MergeMember
  <2>1. PICK m \in InSource(src) \ merged :
            LET placed == sub[src][group.role[m]]
                undecided == Undecided(placed, group.types[m], m, group.loses)
            IN  \/ /\ undecided
                   /\ Refuse("collision")
                \/ /\ ~undecided
                   /\ sub' = [sub EXCEPT ![src][group.role[m]] =
                                 Merged(placed, group.types[m], m, group.loses)]
                   /\ merged' = merged \cup {m}
                   /\ UNCHANGED <<group, phase, reason, src, client, tables, answer>>
    BY <1>1 DEF MergeMember
  <2>2. phase = "merging"
    BY <1>1 DEF MergeMember
  <2>3. CASE Undecided(sub[src][group.role[m]], group.types[m], m, group.loses)
    BY <2>1, <2>2, <2>3, CollisionWithin, RefuseStep DEF Reasons
  <2>4. CASE ~Undecided(sub[src][group.role[m]], group.types[m], m, group.loses)
    BY <2>1, <2>2, <2>4, MergeStep
  <2> QED
    BY <2>3, <2>4
<1>2. CASE AddSource
  BY <1>2, AddStep
<1>3. CASE RefuseModels
  BY <1>3, RefuseStep DEF RefuseModels, Reasons
<1>4. CASE RefuseEmpty
  <2>1. phase = "merging" /\ src \in Present
    BY <1>4 DEF RefuseEmpty, AllMerged, GroupInv, NoneSkipped
  <2>2. \A m \in InSource(src) : group.types[m] = {}
    BY <1>4, EmptySource DEF RefuseEmpty
  <2> QED
    BY <1>4, <2>1, <2>2, RefuseStep DEF RefuseEmpty, Reasons
<1>5. CASE RefuseAcross
  BY <1>5, CollisionBetween, RefuseStep DEF RefuseAcross, AllMerged, Reasons
<1>6. CASE MemberFails
  BY <1>6, RefuseStep DEF MemberFails, Reasons
<1>7. CASE Request
  BY <1>7, RequestStep
<1>8. CASE UNCHANGED vars
  BY <1>8, StutterStep
<1> QED
  BY <1>1, <1>2, <1>3, <1>4, <1>5, <1>6, <1>7, <1>8 DEF Next, Launch

\* What has been merged, placed and routed agrees at every step of the launch.
THEOREM GroupInvariant == Spec => []GroupInv
BY InitInv, GroupStep, PTL DEF Spec

\* Types are kept.
THEOREM GroupTypeCorrect == Spec => []TypeOK
<1>1. GroupInv => TypeOK
  BY DEF GroupInv
<1> QED
  BY <1>1, GroupInvariant, PTL

\* Once the service runs, every member's contributions have been merged.
LEMMA ServingIsMerged ==
    ASSUME GroupInv, phase = "serving", NEW m \in Members
    PROVE  group.source[m] \in Sources /\ Added(group.source[m]) /\ IsMerged(m)
<1>1. group.source[m] \in Present /\ group.source[m] \in Sources
  BY DEF GroupInv, TypeOK, Groups, Present, InSource
<1>2. src \in Nat /\ group.source[m] \in Nat /\ ~(group.source[m] > src)
  BY <1>1, Names DEF GroupInv, TypeOK, NoneSkipped, Later
<1>3. Added(group.source[m])
  BY <1>2 DEF Added
<1> QED
  BY <1>1, <1>3 DEF IsMerged

\* Whatever the order of the members, a copy that the exclude table does not
\* name is the one offered.
THEOREM UnnamedCopiesAreOffered == Spec => []UnnamedCopyIsOffered
<1>1. GroupInv => UnnamedCopyIsOffered
  <2> SUFFICES ASSUME GroupInv, phase = "serving",
                      NEW m \in Members, NEW r \in Roles, NEW t \in Types,
                      Contributes(m, r, t), t \notin group.loses[m],
                      t \notin group.sourceLoses[group.source[m]]
               PROVE  schemas[r][t] = m
    BY DEF UnnamedCopyIsOffered
  <2> DEFINE s == group.source[m]
  <2>1. s \in Sources /\ Added(s) /\ sub[s][r][t] = m /\ sub[s][r][t] # None
    BY ServingIsMerged DEF GroupInv, MergedIsKept
  <2>2. placedBy[r][t] = s /\ placedBy[r][t] # None
    BY <2>1 DEF GroupInv, AddedIsPlaced
  <2> QED
    BY <2>1, <2>2 DEF GroupInv, TablesAgree
<1> QED
  BY <1>1, GroupInvariant, PTL

\* Excluding never drops a type, and every schema offered is a contributor's.
THEOREM TheUnionIsOffered == Spec => []OffersTheUnion
<1>1. GroupInv => OffersTheUnion
  <2> SUFFICES ASSUME GroupInv, phase = "serving", NEW r \in Roles, NEW t \in Types
               PROVE  IF \E m \in Members : Contributes(m, r, t)
                      THEN schemas[r][t] # None /\ Contributes(schemas[r][t], r, t)
                      ELSE schemas[r][t] = None
    BY DEF OffersTheUnion
  <2>1. placedBy[r][t] # None =>
            /\ schemas[r][t] # None
            /\ schemas[r][t] \in Members
            /\ Contributes(schemas[r][t], r, t)
    <3> SUFFICES ASSUME placedBy[r][t] # None
                 PROVE  /\ schemas[r][t] # None
                        /\ schemas[r][t] \in Members
                        /\ Contributes(schemas[r][t], r, t)
      OBVIOUS
    <3> DEFINE s == placedBy[r][t]
    <3>1. s \in Sources
      BY DEF GroupInv, TypeOK, SourceOrNone
    <3>2. sub[s][r][t] # None /\ schemas[r][t] = sub[s][r][t]
      BY DEF GroupInv, PlacedIsAdded, TablesAgree
    <3>3. sub[s][r][t] \in Members
      BY <3>1, <3>2 DEF GroupInv, TypeOK, MemberOrNone
    <3> QED
      BY <3>1, <3>2, <3>3 DEF GroupInv, KeptIsMerged
  <2>2. placedBy[r][t] = None => schemas[r][t] = None
    BY DEF GroupInv, TablesAgree
  <2>3. ASSUME NEW m \in Members, Contributes(m, r, t) PROVE placedBy[r][t] # None
    <3>1. /\ group.source[m] \in Sources /\ Added(group.source[m])
          /\ sub[group.source[m]][r][t] # None
      BY <2>3, ServingIsMerged DEF GroupInv, MergedIsKept
    <3> QED
      BY <3>1 DEF GroupInv, AddedIsPlaced
  <2> QED
    BY <2>1, <2>2, <2>3
<1> QED
  BY <1>1, GroupInvariant, PTL

\* A request is handled by the member whose schema core was given.
THEOREM RequestsAlwaysGoHome == Spec => []RequestsGoHome
<1>1. GroupInv => RequestsGoHome
  BY DEF GroupInv
<1> QED
  BY <1>1, GroupInvariant, PTL

\* A launch is refused for a collision only if the exclude table leaves one
\* open, and for being empty only if a source is.
THEOREM LaunchesAreRefusedForCause == Spec => []RefusedForCause
<1>1. GroupInv => RefusedForCause
  BY DEF GroupInv
<1> QED
  BY <1>1, GroupInvariant, PTL
=============================================================================

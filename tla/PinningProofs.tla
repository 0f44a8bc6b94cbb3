----------------------------- MODULE PinningProofs -----------------------------
(***************************************************************************)
(* What Bundle and Pinning promise, for every description and every table. *)
(***************************************************************************)
EXTENDS Pinning, FiniteSetTheorems, WellFoundedInduction, TLAPS

Places == {p \in [in : Defs \cup {Paths}, at : Nat] : p.at <= Len(text.inside[p.in])}

Calls == [place : Places, foreign : BOOLEAN]

Strings == {Spelling(p) : p \in collected}

\* Walked, or about to be.
Met(p) == p \in visited \/ \E c \in Range(stack) : c.place = p

\* Nothing that was met is forgotten: what is inside a walked place, what is
\* inside the paths, and the entries.
NothingForgotten ==
    /\ \A p \in visited : \A q \in Range(Inside(Value(p))) : Met(q)
    /\ \A q \in Range(Inside(Paths)) : Met(q)
    /\ \A d \in OwnEntries : Entry(d) \in entries \/ Met(Entry(d))

\* What stands in another file is known to, and what is left as it is can be
\* read where it stands.
ForeignIsKnown ==
    /\ \A c \in Range(stack) : c.place.in.file # Main => c.foreign
    /\ \A p \in visited \ collected :
          (HasRef(p) => p.in.file = Main /\ Reference(p).file = Here)

\* What was rewritten names an entry that was made for it.
RewrittenInv ==
    /\ DOMAIN refs \subseteq collected
    /\ \A p \in DOMAIN refs :
          /\ refs[p] = LocalRef(names[Spelling(p)])
          /\ names[Spelling(p)] \in DOMAIN components
    /\ \A n \in DOMAIN components :
          \E p \in DOMAIN refs : n = names[Spelling(p)] /\ components[n] = Value(p)

BundleTypes ==
    /\ IsText(text)
    /\ stack \in Seq(Calls)
    /\ visited \subseteq Places
    /\ collected \subseteq visited
    /\ IsFiniteSet(Strings)
    /\ \A p \in collected : HasRef(p)
    /\ entries \subseteq {Entry(d) : d \in OwnEntries}

\* Where Bundle has got to.
Progress ==
    /\ stage \in {"walk", "rewrite", "done"}
    /\ (stage = "walk" => refs = <<>> /\ components = <<>>)
    /\ (stage # "walk" => stack = <<>> /\ entries = {} /\ names = BundleNames(Strings))
    /\ (stage = "done" => DOMAIN refs = collected)

Bundling ==
    /\ BundleTypes
    /\ NothingForgotten
    /\ (NoBorrowedEntry => ForeignIsKnown)
    /\ RewrittenInv
    /\ Progress

BundleInv == IF stage = "idle" THEN BundleIdle ELSE Bundling

-----------------------------------------------------------------------------
(* What a text is made of *)

LEMMA NamesAndFiles ==
    /\ Main = 1 /\ Here = 0
    /\ Main \in Files /\ Here \notin Files
    /\ 0 \notin Names
    /\ \A f \in Files : f \in Nat
    /\ \A n \in Names : n \in Nat
BY BundleAssumption DEF Main, Here

LEMMA NoRefIsNone == \A r \in References : r # NoRef
BY NamesAndFiles DEF References, NoRef

LEMMA ReferenceParts ==
    \A r \in References : r.file \in Nat /\ r.name \in Nat /\ r.name \in Names
<1> SUFFICES ASSUME NEW r \in References
             PROVE  r.file \in Nat /\ r.name \in Nat /\ r.name \in Names
  OBVIOUS
<1>1. r.file \in Files \/ r.file = 0
  BY DEF References, Here
<1>2. r.name \in Names
  BY DEF References
<1>3. r.file \in Nat
  <2>1. CASE r.file \in Files
    <3>1. \A f \in Files : f \in Nat
      BY NamesAndFiles
    <3> QED
      BY <2>1, <3>1
  <2>2. CASE r.file = 0
    BY <2>2
  <2> QED
    BY <1>1, <2>1, <2>2
<1> QED
  BY <1>2, <1>3, NamesAndFiles

LEMMA TargetIsADef ==
    ASSUME NEW d \in Defs \cup {Paths}, NEW r \in References
    PROVE  Target(d, r) \in Defs
<1>1. d.file \in Files
  BY NamesAndFiles DEF Defs, Paths
<1>2. r.file \in Files \cup {Here} /\ r.name \in Names
  BY DEF References
<1>3. CASE r.file = Here
  BY <1>1, <1>2, <1>3 DEF Target, Defs
<1>4. CASE r.file # Here
  BY <1>1, <1>2, <1>4 DEF Target, Defs
<1> QED
  BY <1>3, <1>4

LEMMA ValueIsADef ==
    ASSUME IsText(text), NEW d \in Defs \cup {Paths}
    PROVE  Final(d) \in Defs \cup {Paths}
BY DEF IsText, Final

LEMMA PlaceParts ==
    ASSUME IsText(text), NEW p \in Places
    PROVE  /\ p.in \in Defs \cup {Paths}
           /\ p.at \in Nat
           /\ Reference(p) \in References \cup {NoRef}
           /\ (HasRef(p) => Reference(p) \in References)
           /\ Value(p) \in Defs \cup {Paths}
<1>1. p.in \in Defs \cup {Paths} /\ p.at \in Nat /\ p.at <= Len(text.inside[p.in])
  BY DEF Places
<1>2. /\ text.alias[p.in] \in References \cup {NoRef}
      /\ text.inside[p.in] \in Seq(References)
  BY <1>1 DEF IsText
<1>3. p.at # 0 => text.inside[p.in][p.at] \in References
  <2> SUFFICES ASSUME p.at # 0
               PROVE  text.inside[p.in][p.at] \in References
    OBVIOUS
  <2> DEFINE s == text.inside[p.in]
  <2>1. s \in Seq(References) /\ p.at \in 1..Len(s)
    BY <1>1, <1>2
  <2> QED
    BY <2>1
<1>4. Reference(p) \in References \cup {NoRef}
  BY <1>2, <1>3 DEF Reference
<1>5. HasRef(p) => Reference(p) \in References
  BY <1>4 DEF HasRef
<1>6. Value(p) \in Defs \cup {Paths}
  <2>1. CASE Reference(p) = NoRef
    BY <1>1, <2>1 DEF Value
  <2>2. CASE Reference(p) # NoRef
    <3>1. Target(p.in, Reference(p)) \in Defs
      BY <1>1, <1>4, <2>2, TargetIsADef
    <3> QED
      BY <3>1, <2>2, ValueIsADef DEF Value
  <2> QED
    BY <2>1, <2>2
<1> QED
  BY <1>1, <1>4, <1>5, <1>6

\* The places inside a value.
LEMMA InsideAreReferences ==
    ASSUME IsText(text), NEW d \in Defs \cup {Paths}
    PROVE  /\ Inside(d) \in Seq(Places)
           /\ Len(Inside(d)) = Len(text.inside[d])
           /\ \A i \in 1..Len(Inside(d)) : Inside(d)[i] = [in |-> d, at |-> i]
           /\ \A q \in Range(Inside(d)) : q \in Places /\ HasRef(q) /\ q.in = d
<1>1. text.inside[d] \in Seq(References)
  BY DEF IsText
<1> DEFINE n == Len(text.inside[d])
<1>2. n \in Nat
  BY <1>1
<1>3. Inside(d) = [i \in 1..n |-> [in |-> d, at |-> i]]
  BY DEF Inside
<1>4. ASSUME NEW i \in 1..n
      PROVE  /\ [in |-> d, at |-> i] \in Places
             /\ HasRef([in |-> d, at |-> i])
  <2>1. i \in Nat /\ i <= n /\ i # 0
    BY <1>2
  <2>2. [in |-> d, at |-> i] \in [in : Defs \cup {Paths}, at : Nat]
    BY <2>1
  <2>3. [in |-> d, at |-> i] \in Places
    BY <2>1, <2>2 DEF Places
  <2>4. text.inside[d][i] \in References
    BY <1>1
  <2>5. Reference([in |-> d, at |-> i]) = text.inside[d][i]
    BY <2>1 DEF Reference
  <2> QED
    BY <2>3, <2>4, <2>5, NoRefIsNone DEF HasRef
<1>5. Inside(d) \in Seq(Places) /\ Len(Inside(d)) = n
  BY <1>2, <1>3, <1>4
<1>6. \A q \in Range(Inside(d)) : q \in Places /\ HasRef(q) /\ q.in = d
  <2> SUFFICES ASSUME NEW q \in Range(Inside(d))
               PROVE  q \in Places /\ HasRef(q) /\ q.in = d
    OBVIOUS
  <2>1. PICK i \in DOMAIN Inside(d) : q = Inside(d)[i]
    BY DEF Range
  <2>2. i \in 1..n /\ q = [in |-> d, at |-> i]
    BY <1>3, <2>1
  <2> QED
    BY <1>4, <2>2
<1> QED
  BY <1>3, <1>5, <1>6

-----------------------------------------------------------------------------
(* Names for strings *)


IsString(s) == s \in Nat \X Nat \X Nat \X {1}

LEMMA SpellingIsString ==
    ASSUME IsText(text), NEW p \in Places, HasRef(p)
    PROVE  /\ IsString(Spelling(p))
           /\ Spelling(p)[3] = Reference(p).name
           /\ Spelling(p)[3] \in Names
           /\ Spelling(p)[1] = Reference(p).file
<1>1. Reference(p) \in References
  BY PlaceParts
<1>2. Reference(p).file \in Nat /\ Reference(p).name \in Nat /\ Reference(p).name \in Names
  BY <1>1, ReferenceParts
<1> DEFINE k == IF Reference(p).file = Here /\ p.in.file # Main /\ text.definitionsSection
                THEN 1 ELSE 0
<1>3. k \in Nat
  OBVIOUS
<1>4. Spelling(p) = <<Reference(p).file, k, Reference(p).name, 1>>
  BY DEF Spelling
<1> HIDE DEF k
<1> QED
  BY <1>2, <1>3, <1>4 DEF IsString

LEMMA SortsInTurn ==
    ASSUME NEW s, NEW u, IsString(s), IsString(u)
    PROVE  SortsBefore(s, u) <=>
              \/ s[1] < u[1]
              \/ s[1] = u[1] /\ s[2] < u[2]
              \/ s[1] = u[1] /\ s[2] = u[2] /\ s[3] < u[3]
<1>1. /\ 1..(1 - 1) = {} /\ 1..(2 - 1) = {1} /\ 1..(3 - 1) = {1, 2}
      /\ 1..3 = {1, 2, 3}
  OBVIOUS
<1>2. SortsBefore(s, u) <=>
         \/ s[1] < u[1] /\ \A j \in {} : s[j] = u[j]
         \/ s[2] < u[2] /\ \A j \in {1} : s[j] = u[j]
         \/ s[3] < u[3] /\ \A j \in {1, 2} : s[j] = u[j]
  BY <1>1, Zenon DEF SortsBefore
<1> QED
  BY <1>2

LEMMA SortsAsAnOrder ==
    ASSUME NEW s, NEW u, IsString(s), IsString(u)
    PROVE  /\ ~SortsBefore(s, s)
           /\ (s # u => SortsBefore(s, u) \/ SortsBefore(u, s))
           /\ \A v : IsString(v) /\ SortsBefore(v, s) /\ SortsBefore(s, u) => SortsBefore(v, u)
<1>1. s[1] \in Nat /\ s[2] \in Nat /\ s[3] \in Nat /\ s = <<s[1], s[2], s[3], 1>>
  BY DEF IsString
<1>2. u[1] \in Nat /\ u[2] \in Nat /\ u[3] \in Nat /\ u = <<u[1], u[2], u[3], 1>>
  BY DEF IsString
<1>3. ~SortsBefore(s, s)
  BY <1>1, SortsInTurn
<1>4. s # u => SortsBefore(s, u) \/ SortsBefore(u, s)
  BY <1>1, <1>2, SortsInTurn
<1>5. ASSUME NEW v, IsString(v), SortsBefore(v, s), SortsBefore(s, u)
      PROVE  SortsBefore(v, u)
  <2>1. v[1] \in Nat /\ v[2] \in Nat /\ v[3] \in Nat
    BY <1>5 DEF IsString
  <2> QED
    BY <1>1, <1>2, <1>5, <2>1, SortsInTurn
<1> QED
  BY <1>3, <1>4, <1>5

\* What stands in the way of a name without a suffix.
Taken(s, strings) == Rivals(s, strings) \cup ({<<s[3], 1>>} \cap ExistingNames)

LEMMA TakenIsFinite ==
    ASSUME NEW strings, IsFiniteSet(strings), NEW s
    PROVE  IsFiniteSet(Taken(s, strings)) /\ Cardinality(Taken(s, strings)) \in Nat
<1>1. Rivals(s, strings) \subseteq strings
  BY DEF Rivals
<1>2. IsFiniteSet(Rivals(s, strings))
  BY <1>1, FS_Subset
<1>3. IsFiniteSet({<<s[3], 1>>})
  BY FS_Singleton
<1>4. IsFiniteSet({<<s[3], 1>>} \cap ExistingNames)
  BY <1>3, FS_Subset
<1>5. IsFiniteSet(Taken(s, strings))
  BY <1>2, <1>4, FS_Union DEF Taken
<1> QED
  BY <1>5, FS_CardinalityType

LEMMA LaterHasMoreTaken ==
    ASSUME NEW strings, IsFiniteSet(strings), \A v \in strings : IsString(v),
           NEW s \in strings, NEW u \in strings, s[3] = u[3], SortsBefore(s, u)
    PROVE  Cardinality(Taken(s, strings)) < Cardinality(Taken(u, strings))
<1>1. IsString(s) /\ IsString(u)
  OBVIOUS
<1>2. Rivals(s, strings) \subseteq Rivals(u, strings)
  BY <1>1, SortsAsAnOrder DEF Rivals
<1>3. Taken(s, strings) \subseteq Taken(u, strings)
  BY <1>2 DEF Taken
<1>4. s \in Taken(u, strings)
  BY DEF Taken, Rivals
<1>5. s \notin Taken(s, strings)
  <2>1. s \notin Rivals(s, strings)
    BY <1>1, SortsAsAnOrder DEF Rivals
  <2>2. s # <<s[3], 1>>
    BY <1>1 DEF IsString
  <2> QED
    BY <2>1, <2>2 DEF Taken
<1>6. IsFiniteSet(Taken(u, strings))
  BY TakenIsFinite
<1> QED
  BY <1>3, <1>4, <1>5, <1>6, FS_Subset, TakenIsFinite

\* Each string has a name of its own, which is none of the document's own.
LEMMA NamesAreDistinct ==
    ASSUME NEW strings, IsFiniteSet(strings), \A v \in strings : IsString(v)
    PROVE  /\ DOMAIN BundleNames(strings) = strings
           /\ \A s \in strings :
                 /\ BundleNames(strings)[s] = <<s[3], Cardinality(Taken(s, strings)) + 1>>
                 /\ BundleNames(strings)[s][1] = s[3]
                 /\ BundleNames(strings)[s] = <<s[3], 1>> => <<s[3], 1>> \notin ExistingNames
           /\ \A s, u \in strings : BundleNames(strings)[s] = BundleNames(strings)[u] => s = u
<1> DEFINE B == BundleNames(strings)
<1>1. DOMAIN B = strings
  BY DEF BundleNames
<1>2. \A s \in strings : B[s] = <<s[3], Cardinality(Taken(s, strings)) + 1>>
  BY Zenon DEF BundleNames, Taken
<1>3. \A s \in strings : Cardinality(Taken(s, strings)) \in Nat
  BY TakenIsFinite
<1> HIDE DEF B
<1>4. ASSUME NEW s \in strings, B[s] = <<s[3], 1>>, <<s[3], 1>> \in ExistingNames
      PROVE  FALSE
  <2>1. Cardinality(Taken(s, strings)) + 1 = 1
    BY <1>2, <1>4
  <2>2. Cardinality(Taken(s, strings)) = 0
    BY <1>3, <2>1
  <2>3. Taken(s, strings) = {}
    BY <2>2, TakenIsFinite, FS_EmptySet
  <2> QED
    BY <1>4, <2>3 DEF Taken
<1>5. ASSUME NEW s \in strings, NEW u \in strings, B[s] = B[u], s # u
      PROVE  FALSE
  <2>1. s[3] = u[3] /\ Cardinality(Taken(s, strings)) + 1 = Cardinality(Taken(u, strings)) + 1
    BY <1>2, <1>5
  <2>2. Cardinality(Taken(s, strings)) = Cardinality(Taken(u, strings))
    BY <1>3, <2>1
  <2>3. SortsBefore(s, u) \/ SortsBefore(u, s)
    BY <1>5, SortsAsAnOrder
  <2>4. CASE SortsBefore(s, u)
    BY <1>3, <2>1, <2>2, <2>4, LaterHasMoreTaken
  <2>5. CASE SortsBefore(u, s)
    BY <1>3, <2>1, <2>2, <2>5, LaterHasMoreTaken
  <2> QED
    BY <2>3, <2>4, <2>5
<1> QED
  BY <1>1, <1>2, <1>4, <1>5 DEF B

-----------------------------------------------------------------------------
(* Calls *)

LEMMA HeadAndTail ==
    ASSUME NEW S, NEW s \in Seq(S), s # <<>>
    PROVE  /\ Head(s) \in S
           /\ Tail(s) \in Seq(S)
           /\ Range(s) = {Head(s)} \cup Range(Tail(s))
<1>1. Head(s) \in S /\ Tail(s) \in Seq(S)
  OBVIOUS
<1>2. Len(s) \in Nat /\ Len(s) >= 1 /\ DOMAIN s = 1..Len(s) /\ DOMAIN Tail(s) = 1..(Len(s) - 1)
  OBVIOUS
<1>3. Head(s) = s[1] /\ \A i \in 1..(Len(s) - 1) : Tail(s)[i] = s[i + 1]
  OBVIOUS
<1>4. Range(Tail(s)) \subseteq Range(s)
  <2> SUFFICES ASSUME NEW i \in DOMAIN Tail(s)
               PROVE  \E j \in DOMAIN s : Tail(s)[i] = s[j]
    BY DEF Range
  <2>1. i + 1 \in DOMAIN s
    BY <1>2
  <2> QED
    BY <1>2, <1>3, <2>1
<1>5. Head(s) \in Range(s)
  BY <1>2, <1>3 DEF Range
<1>6. \A v \in Range(s) : v = Head(s) \/ v \in Range(Tail(s))
  <2> SUFFICES ASSUME NEW j \in DOMAIN s
               PROVE  s[j] = Head(s) \/ \E i \in DOMAIN Tail(s) : s[j] = Tail(s)[i]
    BY DEF Range
  <2>1. CASE j = 1
    BY <1>3, <2>1
  <2>2. CASE j # 1
    <3>1. j - 1 \in 1..(Len(s) - 1) /\ (j - 1) + 1 = j
      BY <1>2, <2>2
    <3>2. Tail(s)[j - 1] = s[j]
      BY <1>3, <3>1
    <3> QED
      BY <1>2, <3>1, <3>2
  <2> QED
    BY <2>1, <2>2
<1> QED
  BY <1>1, <1>4, <1>5, <1>6

LEMMA OneCall ==
    ASSUME NEW S, NEW v \in S
    PROVE  <<v>> \in Seq(S) /\ Range(<<v>>) = {v}
<1>1. DOMAIN <<v>> = {1} /\ <<v>>[1] = v
  OBVIOUS
<1>2. Range(<<v>>) = {<<v>>[i] : i \in {1}}
  BY <1>1, Zenon DEF Range
<1> QED
  BY <1>1, <1>2

LEMMA RangeOfConcat ==
    ASSUME NEW S, NEW s \in Seq(S), NEW u \in Seq(S)
    PROVE  s \o u \in Seq(S) /\ Range(s \o u) = Range(s) \cup Range(u)
<1>1. /\ s \o u \in Seq(S)
      /\ Len(s) \in Nat /\ Len(u) \in Nat
      /\ DOMAIN s = 1..Len(s) /\ DOMAIN u = 1..Len(u)
      /\ DOMAIN (s \o u) = 1..(Len(s) + Len(u))
  OBVIOUS
<1>2. /\ \A i \in 1..Len(s) : (s \o u)[i] = s[i]
      /\ \A i \in 1..Len(u) : (s \o u)[Len(s) + i] = u[i]
  OBVIOUS
<1>3. Range(s) \subseteq Range(s \o u)
  <2> SUFFICES ASSUME NEW i \in DOMAIN s
               PROVE  \E j \in DOMAIN (s \o u) : s[i] = (s \o u)[j]
    BY DEF Range
  <2>1. i \in DOMAIN (s \o u)
    BY <1>1
  <2> QED
    BY <1>1, <1>2, <2>1
<1>4. Range(u) \subseteq Range(s \o u)
  <2> SUFFICES ASSUME NEW i \in DOMAIN u
               PROVE  \E j \in DOMAIN (s \o u) : u[i] = (s \o u)[j]
    BY DEF Range
  <2>1. Len(s) + i \in DOMAIN (s \o u)
    BY <1>1
  <2> QED
    BY <1>1, <1>2, <2>1
<1>5. Range(s \o u) \subseteq Range(s) \cup Range(u)
  <2> SUFFICES ASSUME NEW j \in DOMAIN (s \o u)
               PROVE  \/ \E i \in DOMAIN s : (s \o u)[j] = s[i]
                      \/ \E i \in DOMAIN u : (s \o u)[j] = u[i]
    BY DEF Range
  <2>1. CASE j <= Len(s)
    <3>1. j \in 1..Len(s)
      BY <1>1, <2>1
    <3> QED
      BY <1>1, <1>2, <3>1
  <2>2. CASE ~(j <= Len(s))
    <3>1. j - Len(s) \in 1..Len(u) /\ Len(s) + (j - Len(s)) = j
      BY <1>1, <2>2
    <3>2. (s \o u)[j] = u[j - Len(s)]
      BY <1>2, <3>1
    <3> QED
      BY <1>1, <3>1, <3>2
  <2> QED
    BY <2>1, <2>2
<1> QED
  BY <1>1, <1>3, <1>4, <1>5

\* The calls for the places inside a value.
CallsFor(d, foreign) ==
    [i \in DOMAIN Inside(d) |-> [place |-> Inside(d)[i], foreign |-> foreign]]

LEMMA CallsForInside ==
    ASSUME IsText(text), NEW d \in Defs \cup {Paths}, NEW foreign \in BOOLEAN
    PROVE  /\ CallsFor(d, foreign) \in Seq(Calls)
           /\ \A c \in Range(CallsFor(d, foreign)) : c.place.in = d /\ c.foreign = foreign
           /\ \A q \in Range(Inside(d)) : \E c \in Range(CallsFor(d, foreign)) : c.place = q
<1>1. Inside(d) \in Seq(Places) /\ \A q \in Range(Inside(d)) : q.in = d
  BY InsideAreReferences
<1> DEFINE s == Inside(d)
           n == Len(s)
<1>2. n \in Nat /\ DOMAIN s = 1..n /\ \A i \in 1..n : s[i] \in Places /\ s[i].in = d
  <2>1. n \in Nat /\ DOMAIN s = 1..n /\ \A i \in 1..n : s[i] \in Places
    BY <1>1
  <2> QED
    BY <1>1, <2>1 DEF Range
<1> HIDE DEF s, n
<1>3. CallsFor(d, foreign) = [i \in 1..n |-> [place |-> s[i], foreign |-> foreign]]
  BY <1>2 DEF CallsFor, s
<1>4. \A i \in 1..n : [place |-> s[i], foreign |-> foreign] \in Calls
  BY <1>2 DEF Calls
<1>5. CallsFor(d, foreign) \in Seq(Calls)
  BY <1>2, <1>3, <1>4
<1>6. ASSUME NEW c \in Range(CallsFor(d, foreign))
      PROVE  c.place.in = d /\ c.foreign = foreign
  <2>1. PICK i \in 1..n : c = [place |-> s[i], foreign |-> foreign]
    BY <1>3, <1>6 DEF Range
  <2> QED
    BY <1>2, <2>1
<1>7. ASSUME NEW q \in Range(Inside(d))
      PROVE  \E c \in Range(CallsFor(d, foreign)) : c.place = q
  <2>1. PICK i \in 1..n : q = s[i]
    BY <1>2, <1>7 DEF Range, s
  <2>2. [place |-> s[i], foreign |-> foreign] \in Range(CallsFor(d, foreign))
    BY <1>3 DEF Range
  <2> QED
    BY <2>1, <2>2
<1> QED
  BY <1>5, <1>6, <1>7

LEMMA CallsAreInside ==
    ASSUME NEW d, NEW foreign
    PROVE  \A c \in Range(CallsFor(d, foreign)) : c.place \in Range(Inside(d))
BY DEF CallsFor, Range

LEMMA SameText ==
    ASSUME text' = text
    PROVE  /\ (IsText(text) => IsText(text)')
           /\ Places' = Places /\ Calls' = Calls
           /\ (NoBorrowedEntry' <=> NoBorrowedEntry)
           /\ \A d : Inside(d)' = Inside(d) /\ Final(d)' = Final(d)
           /\ \A p : /\ Reference(p)' = Reference(p) /\ (HasRef(p)' <=> HasRef(p))
                     /\ Value(p)' = Value(p) /\ Spelling(p)' = Spelling(p)
<1>0. IsText(text) => IsText(text)'
  BY DEF IsText
<1>1. Places' = Places /\ Calls' = Calls /\ (NoBorrowedEntry' <=> NoBorrowedEntry)
  BY Zenon DEF Places, Calls, NoBorrowedEntry, Final
<1>2. \A d : Inside(d)' = Inside(d) /\ Final(d)' = Final(d)
  BY Zenon DEF Inside, Final
<1>3. \A p : Reference(p)' = Reference(p)
  BY Zenon DEF Reference
<1>4. \A p : HasRef(p)' <=> HasRef(p)
  BY <1>3, Zenon DEF HasRef
<1>5. \A p : Value(p)' = Value(p)
  BY <1>3, Zenon DEF Value, Final
<1>6. \A p : Spelling(p)' = Spelling(p)
  BY <1>3, Zenon DEF Spelling
<1> QED
  BY <1>0, <1>1, <1>2, <1>3, <1>4, <1>5, <1>6, Zenon

-----------------------------------------------------------------------------
(* Each step keeps the invariant *)

FirstCalls ==
    /\ CallsFor(Paths, FALSE) \in Seq(Calls)
    /\ \A c \in Range(CallsFor(Paths, FALSE)) : c.place.in = Paths /\ c.foreign = FALSE
    /\ \A q \in Range(Inside(Paths)) : \E c \in Range(CallsFor(Paths, FALSE)) : c.place = q

LEMMA FirstCallsAreMade == IsText(text) => FirstCalls
BY InsideAreReferences, CallsForInside DEF FirstCalls

LEMMA CallBegins ==
    ASSUME BundleInv, NEW u, IsText(u), BundleCall(u)
    PROVE  BundleInv'
<1>1. BundleIdle
  BY Zenon DEF BundleInv, BundleCall
<1>2. /\ text' = u /\ stage' = "walk"
      /\ stack' = [i \in 1..Len(u.inside[Paths]) |->
                     [place |-> [in |-> Paths, at |-> i], foreign |-> FALSE]]
      /\ entries' = {Entry(d) : d \in OwnEntries}
      /\ visited' = {} /\ collected' = {} /\ refs' = <<>> /\ components' = <<>>
  BY <1>1 DEF BundleCall, BundleIdle
<1>3. IsText(text)'
  BY <1>2 DEF IsText
<1>4. FirstCalls'
  BY <1>3, FirstCallsAreMade, PTL
<1>5. stack' = CallsFor(Paths, FALSE)'
  BY <1>2 DEF CallsFor, Inside
<1>6. BundleTypes'
  <2>1. Strings' = {}
    BY <1>2, Zenon DEF Strings
  <2>2. IsFiniteSet({})
    BY FS_EmptySet
  <2> QED
    BY <1>2, <1>3, <1>4, <1>5, <2>1, <2>2 DEF BundleTypes, FirstCalls
<1>7. NothingForgotten'
  BY <1>2, <1>4, <1>5 DEF NothingForgotten, Met, FirstCalls
<1>8. ForeignIsKnown'
  <2>1. Paths.file = Main
    BY DEF Paths
  <2> QED
    BY <1>2, <1>4, <1>5, <2>1 DEF ForeignIsKnown, FirstCalls
<1>9. RewrittenInv'
  BY <1>2 DEF RewrittenInv
<1>10. Progress'
  BY <1>2 DEF Progress
<1> QED
  BY <1>2, <1>6, <1>7, <1>8, <1>9, <1>10 DEF BundleInv, Bundling

LEMMA EntryIsAPlace ==
    ASSUME IsText(text), NEW d \in OwnEntries
    PROVE  Entry(d) \in Places /\ Entry(d).in = d /\ d.file = Main /\ d \in Defs
<1>1. d \in Defs /\ d.file = Main
  BY DEF OwnEntries
<1>2. text.inside[d] \in Seq(References)
  BY <1>1 DEF IsText
<1>3. 0 <= Len(text.inside[d])
  BY <1>2
<1>4. Entry(d) \in [in : Defs \cup {Paths}, at : Nat] /\ Entry(d).in = d /\ Entry(d).at = 0
  BY <1>1 DEF Entry
<1> QED
  BY <1>1, <1>3, <1>4 DEF Places

LEMMA NextEntryStep ==
    ASSUME Bundling, NextEntry
    PROVE  Bundling'
<1>1. PICK p \in entries :
         /\ stack' = <<[place |-> p, foreign |-> FALSE]>>
         /\ entries' = entries \ {p}
  BY DEF NextEntry
<1>2. /\ stage = "walk" /\ stage' = stage /\ stack = <<>> /\ text' = text
      /\ visited' = visited /\ collected' = collected
      /\ refs' = refs /\ components' = components /\ names' = names
  BY DEF NextEntry
<1>3. BundleTypes /\ NothingForgotten /\ (NoBorrowedEntry => ForeignIsKnown) /\ RewrittenInv
      /\ Progress
  BY DEF Bundling
<1>4. /\ Places' = Places /\ Calls' = Calls
      /\ (NoBorrowedEntry' <=> NoBorrowedEntry)
      /\ \A q : /\ Reference(q)' = Reference(q) /\ (HasRef(q)' <=> HasRef(q))
                /\ Value(q)' = Value(q) /\ Spelling(q)' = Spelling(q)
      /\ \A d : Inside(d)' = Inside(d)
  BY <1>2, SameText, Zenon
<1>5. PICK d \in OwnEntries : p = Entry(d)
  BY <1>3 DEF BundleTypes
<1>6. p \in Places /\ p.in = d /\ d.file = Main
  BY <1>3, <1>5, EntryIsAPlace DEF BundleTypes
<1> DEFINE c == [place |-> p, foreign |-> FALSE]
<1>7. c \in Calls /\ stack' \in Seq(Calls) /\ Range(stack') = {c}
  <2>1. c \in Calls
    BY <1>6 DEF Calls
  <2>2. stack' = <<c>>
    BY <1>1
  <2> HIDE DEF c
  <2> QED
    BY <2>1, <2>2, OneCall
<1>8. Strings' = Strings
  BY <1>2, <1>4, Zenon DEF Strings
<1>9. BundleTypes'
  <2>1. IsText(text)'
    BY <1>2, <1>3, SameText DEF BundleTypes
  <2>2. \A q \in collected' : HasRef(q)'
    BY <1>2, <1>3, <1>4, Zenon DEF BundleTypes
  <2>3. /\ stack' \in Seq(Calls)' /\ visited' \subseteq Places' /\ collected' \subseteq visited'
        /\ IsFiniteSet(Strings)'
    BY <1>2, <1>3, <1>4, <1>7, <1>8 DEF BundleTypes
  <2>4. entries' \subseteq {Entry(e) : e \in OwnEntries}
    BY <1>1, <1>3 DEF BundleTypes
  <2> QED
    BY <2>1, <2>2, <2>3, <2>4 DEF BundleTypes
<1>10. \A q : Met(q) => Met(q)'
  <2>1. Range(stack) = {}
    BY <1>2 DEF Range
  <2> QED
    BY <1>2, <2>1 DEF Met
<1>11. Met(p)'
  BY <1>7 DEF Met
<1>12. NothingForgotten'
  <2>1. \A q \in visited' : \A r \in Range(Inside(Value(q)))' : Met(r)'
    BY <1>2, <1>3, <1>4, <1>10, Zenon DEF NothingForgotten
  <2>2. \A r \in Range(Inside(Paths))' : Met(r)'
    BY <1>2, <1>3, <1>4, <1>10, Zenon DEF NothingForgotten
  <2>3. \A e \in OwnEntries : Entry(e) \in entries' \/ Met(Entry(e))'
    BY <1>1, <1>3, <1>10, <1>11, Zenon DEF NothingForgotten
  <2> QED
    BY <2>1, <2>2, <2>3, Zenon DEF NothingForgotten
<1>13. NoBorrowedEntry' => ForeignIsKnown'
  <2> SUFFICES ASSUME NoBorrowedEntry
               PROVE  ForeignIsKnown'
    BY <1>4
  <2>1. ForeignIsKnown
    BY <1>3
  <2>2. \A k \in Range(stack') : k.place.in.file # Main => k.foreign
    BY <1>6, <1>7
  <2>3. \A q \in visited' \ collected' :
           HasRef(q)' => q.in.file = Main /\ Reference(q)'.file = Here
    BY <1>2, <1>4, <2>1, Zenon DEF ForeignIsKnown
  <2> QED
    BY <2>2, <2>3, Zenon DEF ForeignIsKnown
<1>14. RewrittenInv'
  BY <1>2, <1>3 DEF RewrittenInv, Progress
<1>15. Progress'
  BY <1>2, <1>3 DEF Progress
<1> QED
  BY <1>9, <1>12, <1>13, <1>14, <1>15 DEF Bundling

\* What is met stays met.
LEMMA ForgottenByNone ==
    ASSUME text' = text, NothingForgotten, \A q : Met(q) => Met(q)',
           \A q \in visited' \ visited : \A r \in Range(Inside(Value(q))) : Met(r)',
           \A e \in entries \ entries' : Met(e)'
    PROVE  NothingForgotten'
<1>1. \A q : Value(q)' = Value(q) /\ \A d : Inside(d)' = Inside(d)
  BY SameText
<1>2. \A q \in visited' : \A r \in Range(Inside(Value(q)))' : Met(r)'
  <2> SUFFICES ASSUME NEW q \in visited'
               PROVE  \A r \in Range(Inside(Value(q))) : Met(r)'
    BY <1>1, Zenon
  <2>1. CASE q \in visited
    BY <2>1, Zenon DEF NothingForgotten
  <2>2. CASE q \notin visited
    BY <2>2
  <2> QED
    BY <2>1, <2>2
<1>3. \A r \in Range(Inside(Paths))' : Met(r)'
  BY <1>1, Zenon DEF NothingForgotten
<1>4. \A e \in OwnEntries : Entry(e) \in entries' \/ Met(Entry(e))'
  BY Zenon DEF NothingForgotten
<1> QED
  BY <1>2, <1>3, <1>4, Zenon DEF NothingForgotten

LEMMA WalkForgetsNothing ==
    ASSUME Bundling, Walk
    PROVE  NothingForgotten' /\ stack' \in Seq(Calls)
<1> DEFINE call == Head(stack)
<1>1. /\ BundleTypes /\ NothingForgotten
      /\ stack # <<>> /\ text' = text /\ entries' = entries
  BY DEF Bundling, Walk
<1>2. /\ stack \in Seq(Calls) /\ IsText(text)
  BY <1>1 DEF BundleTypes
<1>3. /\ call \in Calls /\ Tail(stack) \in Seq(Calls)
      /\ Range(stack) = {call} \cup Range(Tail(stack))
  BY <1>1, <1>2, HeadAndTail
<1>4. CASE call.place \in visited
  <2>1. stack' = Tail(stack) /\ visited' = visited
    BY <1>4 DEF Walk
  <2> HIDE DEF call
  <2>2. \A q : Met(q) => Met(q)'
    BY <1>3, <1>4, <2>1 DEF Met
  <2> QED
    BY <1>1, <1>3, <2>1, <2>2, ForgottenByNone
<1>5. CASE call.place \notin visited
  <2> DEFINE foreign == ChildForeign(call.place, call.foreign)
             d == Value(call.place)
  <2>1. visited' = visited \cup {call.place} /\ stack' = CallsFor(d, foreign) \o Tail(stack)
    BY <1>5 DEF Walk, CallsFor
  <2>2. call.place \in Places /\ call.foreign \in BOOLEAN
    BY <1>3 DEF Calls
  <2>3. d \in Defs \cup {Paths}
    BY <1>2, <2>2, PlaceParts
  <2>4. foreign \in BOOLEAN
    BY <2>2 DEF ChildForeign, Leaves, HasRef, IsExternalRef
  <2> HIDE DEF foreign, d
  <2>5. /\ CallsFor(d, foreign) \in Seq(Calls)
        /\ \A q \in Range(Inside(d)) : \E c \in Range(CallsFor(d, foreign)) : c.place = q
    BY <1>2, <2>3, <2>4, CallsForInside
  <2>6. stack' \in Seq(Calls) /\ Range(stack') = Range(CallsFor(d, foreign)) \cup Range(Tail(stack))
    BY <1>3, <2>1, <2>5, RangeOfConcat
  <2> HIDE DEF call
  <2>7. \A q : Met(q) => Met(q)'
    BY <1>3, <2>1, <2>6 DEF Met
  <2>8. \A q \in visited' \ visited : \A r \in Range(Inside(Value(q))) : Met(r)'
    BY <2>1, <2>5, <2>6 DEF Met, d
  <2> QED
    BY <1>1, <2>6, <2>7, <2>8, ForgottenByNone
<1> QED
  BY <1>4, <1>5

LEMMA WalkKnowsWhatIsForeign ==
    ASSUME Bundling, Walk, NoBorrowedEntry
    PROVE  ForeignIsKnown'
<1> DEFINE call == Head(stack)
<1>1. BundleTypes /\ ForeignIsKnown /\ stack # <<>> /\ text' = text
  BY DEF Bundling, Walk
<1>2. stack \in Seq(Calls) /\ IsText(text)
  BY <1>1 DEF BundleTypes
<1>3. /\ call \in Calls /\ Tail(stack) \in Seq(Calls)
      /\ Range(stack) = {call} \cup Range(Tail(stack))
  BY <1>1, <1>2, HeadAndTail
<1>4. call.place \in Places /\ call.foreign \in BOOLEAN
  BY <1>3 DEF Calls
<1>5. \A q : Reference(q)' = Reference(q) /\ (HasRef(q)' <=> HasRef(q))
  BY <1>1, SameText
<1>6. CASE call.place \in visited
  <2>1. stack' = Tail(stack) /\ visited' = visited /\ collected' = collected
    BY <1>6 DEF Walk
  <2> HIDE DEF call
  <2>2. \A k \in Range(stack') : k.place.in.file # Main => k.foreign
    BY <1>1, <1>3, <2>1 DEF ForeignIsKnown
  <2>3. \A q \in visited' \ collected' :
           HasRef(q)' => q.in.file = Main /\ Reference(q)'.file = Here
    BY <1>1, <1>5, <2>1, Zenon DEF ForeignIsKnown
  <2> QED
    BY <2>2, <2>3, Zenon DEF ForeignIsKnown
<1>7. CASE call.place \notin visited
  <2> DEFINE foreign == ChildForeign(call.place, call.foreign)
             d == Value(call.place)
             p == call.place
  <2>1. /\ visited' = visited \cup {p} /\ stack' = CallsFor(d, foreign) \o Tail(stack)
        /\ collected' = collected \cup {q \in {p} : NeedsBundle(q, call.foreign)}
    BY <1>7 DEF Walk, CallsFor
  <2>2. d \in Defs \cup {Paths} /\ (HasRef(p) => Reference(p) \in References)
        /\ p.in \in Defs \cup {Paths}
    BY <1>2, <1>4, PlaceParts
  <2>3. foreign \in BOOLEAN
    BY <1>4 DEF ChildForeign, Leaves, HasRef, IsExternalRef
  <2>4. p.in.file # Main => call.foreign
    BY <1>1, <1>3 DEF ForeignIsKnown
  <2>5. HasRef(p) => Spelling(p)[1] = Reference(p).file
    BY <1>2, <1>4, SpellingIsString
  <2> HIDE DEF foreign, d, call
  <2>6. d.file # Main => foreign
    <3> SUFFICES ASSUME d.file # Main, ~call.foreign, ~Leaves(p)
                 PROVE  FALSE
      BY <1>4 DEF foreign, ChildForeign
    <3>1. p.in.file = Main
      BY <2>4
    <3>2. HasRef(p)
      <4> SUFFICES ASSUME ~HasRef(p)
                   PROVE  FALSE
        OBVIOUS
      <4>1. d = p.in
        BY Zenon DEF HasRef, Value, d
      <4> QED
        BY <3>1, <4>1
    <3>3. Reference(p).file = Here /\ Reference(p) \in References
      BY <2>2, <2>5, <3>2 DEF Leaves, IsExternalRef
    <3>4. Target(p.in, Reference(p)) \in OwnEntries
      <4>1. Target(p.in, Reference(p)) \in Defs
        BY <2>2, <3>3, TargetIsADef
      <4>2. Target(p.in, Reference(p)).file = Main
        BY <3>1, <3>3 DEF Target
      <4> QED
        BY <4>1, <4>2 DEF OwnEntries
    <3>5. d = Final(Target(p.in, Reference(p)))
      BY <3>2, Zenon DEF Value, HasRef, d
    <3> QED
      BY <3>4, <3>5 DEF NoBorrowedEntry
  <2>7. /\ CallsFor(d, foreign) \in Seq(Calls)
        /\ \A c \in Range(CallsFor(d, foreign)) : c.place.in = d /\ c.foreign = foreign
    BY <1>2, <2>2, <2>3, CallsForInside
  <2>8. Range(stack') = Range(CallsFor(d, foreign)) \cup Range(Tail(stack))
    BY <1>3, <2>1, <2>7, RangeOfConcat
  <2>9. \A k \in Range(stack') : k.place.in.file # Main => k.foreign
    BY <1>1, <1>3, <2>6, <2>7, <2>8 DEF ForeignIsKnown
  <2>10. \A q \in visited' \ collected' :
            HasRef(q)' => q.in.file = Main /\ Reference(q)'.file = Here
    <3> SUFFICES ASSUME NEW q \in visited' \ collected', HasRef(q)
                 PROVE  q.in.file = Main /\ Reference(q).file = Here
      BY <1>5, Zenon
    <3>1. CASE q \in visited
      BY <1>1, <2>1, <3>1 DEF ForeignIsKnown
    <3>2. CASE q = p
      <4>1. ~call.foreign /\ ~Leaves(p)
        BY <2>1, <3>2 DEF NeedsBundle
      <4> QED
        BY <2>4, <2>5, <3>2, <4>1 DEF Leaves, IsExternalRef
    <3> QED
      BY <2>1, <3>1, <3>2
  <2> QED
    BY <2>9, <2>10, Zenon DEF ForeignIsKnown
<1> QED
  BY <1>6, <1>7

LEMMA WalkStep ==
    ASSUME Bundling, Walk
    PROVE  Bundling'
<1>1. /\ BundleTypes /\ RewrittenInv /\ Progress
      /\ stage = "walk" /\ stage' = stage /\ text' = text /\ entries' = entries
      /\ refs' = refs /\ components' = components /\ names' = names
      /\ stack # <<>>
  BY DEF Bundling, Walk
<1>2. NothingForgotten' /\ stack' \in Seq(Calls)
  BY WalkForgetsNothing
<1>3. /\ (IsText(text) => IsText(text)')
      /\ Places' = Places /\ Calls' = Calls /\ (NoBorrowedEntry' <=> NoBorrowedEntry)
      /\ \A q : /\ Reference(q)' = Reference(q) /\ (HasRef(q)' <=> HasRef(q))
                /\ Spelling(q)' = Spelling(q)
  BY <1>1, SameText, Zenon
<1>4. NoBorrowedEntry' => ForeignIsKnown'
  BY <1>3, WalkKnowsWhatIsForeign
<1>5. BundleTypes'
  <2> DEFINE p == Head(stack).place
  <2>1. p \in Places
    <3>1. Head(stack) \in Calls
      BY <1>1, HeadAndTail DEF BundleTypes
    <3> QED
      BY <3>1 DEF Calls
  <2>2. /\ visited' \subseteq visited \cup {p} /\ visited \subseteq visited'
        /\ \/ collected' = collected
           \/ collected' = collected \cup {p} /\ HasRef(p) /\ p \in visited'
    BY DEF Walk, NeedsBundle
  <2> HIDE DEF p
  <2>3. IsFiniteSet(Strings')
    <3>1. CASE collected' = collected
      <4>1. Strings' = Strings
        BY <1>3, <3>1, Zenon DEF Strings
      <4> QED
        BY <1>1, <4>1 DEF BundleTypes
    <3>2. CASE collected' = collected \cup {p}
      <4>1. Strings' = Strings \cup {Spelling(p)}
        BY <1>3, <3>2 DEF Strings
      <4> QED
        BY <1>1, <4>1, FS_AddElement DEF BundleTypes
    <3> QED
      BY <2>2, <3>1, <3>2
  <2>4. visited' \subseteq Places' /\ collected' \subseteq visited'
    BY <1>1, <1>3, <2>1, <2>2 DEF BundleTypes
  <2>5. \A q \in collected' : HasRef(q)'
    BY <1>1, <1>3, <2>2 DEF BundleTypes
  <2>6. entries' \subseteq {Entry(d) : d \in OwnEntries}
    BY <1>1 DEF BundleTypes
  <2> QED
    BY <1>1, <1>2, <1>3, <2>3, <2>4, <2>5, <2>6 DEF BundleTypes
<1>6. RewrittenInv' /\ Progress'
  BY <1>1 DEF RewrittenInv, Progress
<1> QED
  BY <1>2, <1>4, <1>5, <1>6 DEF Bundling

\* The steps after the walk change nothing that the walk has found.
LEMMA WalkIsOver ==
    ASSUME Bundling, UNCHANGED <<text, stack, entries, visited, collected>>
    PROVE  /\ BundleTypes' /\ NothingForgotten' /\ (NoBorrowedEntry' => ForeignIsKnown')
           /\ Strings' = Strings /\ BundleNames(Strings)' = BundleNames(Strings)
<1>1. /\ BundleTypes /\ NothingForgotten /\ (NoBorrowedEntry => ForeignIsKnown)
      /\ text' = text /\ stack' = stack /\ entries' = entries /\ visited' = visited
      /\ collected' = collected
  BY DEF Bundling
<1>2. /\ (IsText(text) => IsText(text)')
      /\ Places' = Places /\ Calls' = Calls /\ (NoBorrowedEntry' <=> NoBorrowedEntry)
      /\ \A q : /\ Reference(q)' = Reference(q) /\ (HasRef(q)' <=> HasRef(q))
                /\ Spelling(q)' = Spelling(q)
  BY <1>1, SameText, Zenon
<1>3. Strings' = Strings
  BY <1>1, <1>2, Zenon DEF Strings
<1>4. BundleNames(Strings)' = BundleNames(Strings)
  BY <1>3, Zenon DEF BundleNames, Rivals, ExistingNames
<1>5. BundleTypes'
  BY <1>1, <1>2, <1>3 DEF BundleTypes
<1>6. NothingForgotten'
  <2>1. \A q : Met(q) => Met(q)'
    BY <1>1, Zenon DEF Met
  <2> QED
    BY <1>1, <2>1, ForgottenByNone
<1>7. NoBorrowedEntry' => ForeignIsKnown'
  BY <1>1, <1>2, Zenon DEF ForeignIsKnown
<1> QED
  BY <1>3, <1>4, <1>5, <1>6, <1>7

LEMMA StartRewriteStep ==
    ASSUME Bundling, StartRewrite
    PROVE  Bundling'
<1>1. /\ stage = "walk" /\ stack = <<>> /\ entries = {} /\ stage' = "rewrite"
      /\ names' = BundleNames(Strings)
      /\ UNCHANGED <<text, stack, entries, visited, collected, refs, components>>
  BY Zenon DEF StartRewrite, Strings
<1>2. /\ BundleTypes' /\ NothingForgotten' /\ (NoBorrowedEntry' => ForeignIsKnown')
      /\ BundleNames(Strings)' = BundleNames(Strings)
  BY <1>1, WalkIsOver
<1>3. refs = <<>> /\ components = <<>>
  BY <1>1 DEF Bundling, Progress
<1>4. RewrittenInv'
  BY <1>1, <1>3 DEF RewrittenInv
<1>5. Progress'
  BY <1>1, <1>2 DEF Progress
<1> QED
  BY <1>2, <1>4, <1>5 DEF Bundling

LEMMA FinishStep ==
    ASSUME Bundling, Finish
    PROVE  Bundling'
<1>1. /\ stage = "rewrite" /\ stage' = "done" /\ collected = DOMAIN refs
      /\ UNCHANGED <<text, stack, entries, visited, collected, refs, components>>
      /\ names' = names
  BY Zenon DEF Finish
<1>2. /\ BundleTypes' /\ NothingForgotten' /\ (NoBorrowedEntry' => ForeignIsKnown')
      /\ BundleNames(Strings)' = BundleNames(Strings)
  BY <1>1, WalkIsOver
<1>3. RewrittenInv /\ Progress
  BY DEF Bundling
<1>4. \A p : Spelling(p)' = Spelling(p) /\ Value(p)' = Value(p)
  BY <1>1, SameText
<1>5. RewrittenInv'
  BY <1>1, <1>3, <1>4, Zenon DEF RewrittenInv
<1>6. Progress'
  BY <1>1, <1>2, <1>3 DEF Progress
<1> QED
  BY <1>2, <1>5, <1>6 DEF Bundling

LEMMA RewriteStep ==
    ASSUME Bundling, Rewrite
    PROVE  Bundling'
<1>1. PICK p \in collected \ DOMAIN refs :
         /\ components' = Put(components, names[Spelling(p)], Value(p))
         /\ refs' = Put(refs, p, LocalRef(names[Spelling(p)]))
  BY DEF Rewrite
<1>2. /\ stage = "rewrite" /\ stage' = stage /\ names' = names
      /\ UNCHANGED <<text, stack, entries, visited, collected>>
  BY DEF Rewrite
<1>3. /\ BundleTypes' /\ NothingForgotten' /\ (NoBorrowedEntry' => ForeignIsKnown')
      /\ BundleNames(Strings)' = BundleNames(Strings)
  BY <1>2, WalkIsOver
<1>4. RewrittenInv /\ Progress
  BY DEF Bundling
<1>5. \A q : Spelling(q)' = Spelling(q) /\ Value(q)' = Value(q)
  BY <1>2, SameText
<1> DEFINE n == names[Spelling(p)]
<1> HIDE DEF n
<1>6. /\ DOMAIN refs' = DOMAIN refs \cup {p} /\ refs'[p] = LocalRef(n)
      /\ \A q \in DOMAIN refs \ {p} : refs'[q] = refs[q]
      /\ DOMAIN components' = DOMAIN components \cup {n} /\ components'[n] = Value(p)
      /\ \A m \in DOMAIN components \ {n} : components'[m] = components[m]
  <2> DEFINE k == LocalRef(n)
             v == Value(p)
  <2>1. components' = Put(components, n, v) /\ refs' = Put(refs, p, k)
    BY <1>1, Zenon DEF n
  <2> HIDE DEF k, v
  <2>2. /\ DOMAIN refs' = DOMAIN refs \cup {p} /\ refs'[p] = k
        /\ \A q \in DOMAIN refs \ {p} : refs'[q] = refs[q]
    BY <2>1 DEF Put
  <2>3. /\ DOMAIN components' = DOMAIN components \cup {n} /\ components'[n] = v
        /\ \A m \in DOMAIN components \ {n} : components'[m] = components[m]
    BY <2>1 DEF Put
  <2> QED
    BY <2>2, <2>3, Zenon DEF k, v
<1>7. DOMAIN refs' \subseteq collected'
  BY <1>2, <1>4, <1>6 DEF RewrittenInv
<1>8. ASSUME NEW q \in DOMAIN refs'
      PROVE  refs'[q] = LocalRef(names[Spelling(q)]) /\ names[Spelling(q)] \in DOMAIN components'
  <2>1. CASE q = p
    BY <1>6, <2>1 DEF n
  <2>2. CASE q # p
    BY <1>4, <1>6, <2>2, Zenon DEF RewrittenInv
  <2> QED
    BY <2>1, <2>2
<1>9. ASSUME NEW m \in DOMAIN components'
      PROVE  \E q \in DOMAIN refs' : m = names[Spelling(q)] /\ components'[m] = Value(q)
  <2>1. CASE m = n
    BY <1>6, <2>1 DEF n
  <2>2. CASE m # n
    <3>1. PICK q \in DOMAIN refs : m = names[Spelling(q)] /\ components[m] = Value(q)
      BY <1>4, <1>6, <2>2, Zenon DEF RewrittenInv
    <3> QED
      BY <1>6, <2>2, <3>1, Zenon
  <2> QED
    BY <2>1, <2>2
<1>10. RewrittenInv'
  BY <1>2, <1>5, <1>7, <1>8, <1>9, Zenon DEF RewrittenInv, LocalRef
<1>11. Progress'
  BY <1>2, <1>3, <1>4 DEF Progress
<1> QED
  BY <1>3, <1>10, <1>11 DEF Bundling

LEMMA BundleStep ==
    ASSUME BundleInv, BundleNext
    PROVE  BundleInv'
<1>1. stage # "idle" /\ stage' # "idle"
  BY DEF BundleNext, NextEntry, Walk, StartRewrite, Rewrite, Finish
<1>2. Bundling
  BY <1>1 DEF BundleInv
<1>3. Bundling'
  BY <1>2, NextEntryStep, WalkStep, StartRewriteStep, RewriteStep, FinishStep DEF BundleNext
<1> QED
  BY <1>1, <1>3 DEF BundleInv

LEMMA DroppedIsIdle ==
    ASSUME BundleDropped
    PROVE  BundleInv'
BY DEF BundleDropped, BundleInv, BundleIdle

LEMMA BundleRests ==
    ASSUME BundleInv, UNCHANGED bundleVars
    PROVE  BundleInv'
<1>1. /\ text' = text /\ stage' = stage /\ stack' = stack /\ entries' = entries
      /\ visited' = visited /\ collected' = collected /\ names' = names
      /\ refs' = refs /\ components' = components
  BY DEF bundleVars
<1>2. CASE stage = "idle"
  BY <1>1, <1>2 DEF BundleInv, BundleIdle
<1>3. CASE stage # "idle"
  <2>1. Bundling
    BY <1>3 DEF BundleInv
  <2>2. /\ BundleTypes' /\ NothingForgotten' /\ (NoBorrowedEntry' => ForeignIsKnown')
        /\ BundleNames(Strings)' = BundleNames(Strings)
    BY <1>1, <2>1, WalkIsOver
  <2>3. \A p : Spelling(p)' = Spelling(p) /\ Value(p)' = Value(p)
    BY <1>1, SameText
  <2>4. RewrittenInv' /\ Progress'
    BY <1>1, <2>1, <2>2, <2>3, Zenon DEF Bundling, RewrittenInv, Progress
  <2> QED
    BY <1>1, <1>3, <2>2, <2>4 DEF BundleInv, Bundling
<1> QED
  BY <1>2, <1>3

-----------------------------------------------------------------------------
(* What is renamed, and to what, is decided by the text alone: by no order of *)
(* the walk or of the rewriting                                              *)

InsideIn(t, d) == [i \in 1..Len(t.inside[d]) |-> [in |-> d, at |-> i]]

ReferenceIn(t, p) == IF p.at = 0 THEN t.alias[p.in] ELSE t.inside[p.in][p.at]

ValueIn(t, p) ==
    IF ReferenceIn(t, p) = NoRef THEN p.in ELSE t.value[Target(p.in, ReferenceIn(t, p))]

SpellingIn(t, p) ==
    LET r == ReferenceIn(t, p)
    IN  << r.file,
           IF r.file = Here /\ p.in.file # Main /\ t.definitionsSection THEN 1 ELSE 0,
           r.name, 1 >>

PlacesIn(t) == {p \in [in : Defs \cup {Paths}, at : Nat] : p.at <= Len(t.inside[p.in])}

ClosedIn(t, S) ==
    /\ Range(InsideIn(t, Paths)) \subseteq S
    /\ \A d \in OwnEntries : Entry(d) \in S
    /\ \A p \in S : Range(InsideIn(t, ValueIn(t, p))) \subseteq S

\* The places that a walk comes to.
Reach(t) == {p \in PlacesIn(t) : \A S \in SUBSET PlacesIn(t) : ClosedIn(t, S) => p \in S}

IsRenamed(t, p) ==
    ReferenceIn(t, p) # NoRef /\ (p.in.file # Main \/ ReferenceIn(t, p).file # Here)

Renamed(t) == {p \in Reach(t) : IsRenamed(t, p)}

NamesIn(t) == BundleNames({SpellingIn(t, p) : p \in Renamed(t)})

RefsOf(t) == [p \in Renamed(t) |-> LocalRef(NamesIn(t)[SpellingIn(t, p)])]

LEMMA AsInTheText ==
    /\ Places = PlacesIn(text)
    /\ \A d : Inside(d) = InsideIn(text, d)
    /\ \A p : /\ Reference(p) = ReferenceIn(text, p) /\ Value(p) = ValueIn(text, p)
              /\ Spelling(p) = SpellingIn(text, p)
<1>1. Places = PlacesIn(text) /\ \A d : Inside(d) = InsideIn(text, d)
  BY Zenon DEF Places, PlacesIn, Inside, InsideIn
<1>2. \A p : Reference(p) = ReferenceIn(text, p)
  BY Zenon DEF Reference, ReferenceIn
<1>3. \A p : Value(p) = ValueIn(text, p)
  BY <1>2, Zenon DEF Value, ValueIn, Final
<1>4. \A p : Spelling(p) = SpellingIn(text, p)
  BY <1>2, Zenon DEF Spelling, SpellingIn
<1> QED
  BY <1>1, <1>2, <1>3, <1>4

\* The walk stays within what can be reached, and what it is to rename is told
\* by the place alone where no reference leads back.
WalkInv ==
    /\ visited \subseteq Reach(text)
    /\ \A c \in Range(stack) : c.place \in Reach(text)
    /\ refs = [p \in DOMAIN refs |-> refs[p]]
    /\ NoWayBack(text) =>
          /\ \A c \in Range(stack) : c.foreign <=> c.place.in.file # Main
          /\ collected = {p \in visited : IsRenamed(text, p)}

LEMMA ReachIsClosed ==
    ASSUME NEW t, IsText(t)
    PROVE  /\ Reach(t) \subseteq PlacesIn(t)
           /\ \A q \in PlacesIn(t) : q \in Range(InsideIn(t, Paths)) => q \in Reach(t)
           /\ \A d \in OwnEntries : Entry(d) \in PlacesIn(t) => Entry(d) \in Reach(t)
           /\ \A p \in Reach(t) : \A q \in PlacesIn(t) :
                 q \in Range(InsideIn(t, ValueIn(t, p))) => q \in Reach(t)
BY Zenon DEF Reach, ClosedIn

LEMMA WalkInvBegins ==
    ASSUME BundleInv, NEW u, IsText(u), BundleCall(u)
    PROVE  WalkInv'
<1>1. BundleIdle
  BY Zenon DEF BundleInv, BundleCall
<1>2. /\ text' = u
      /\ stack' = [i \in 1..Len(u.inside[Paths]) |->
                     [place |-> [in |-> Paths, at |-> i], foreign |-> FALSE]]
      /\ visited' = {} /\ collected' = {} /\ refs' = <<>>
  BY <1>1 DEF BundleCall, BundleIdle
<1>3. u.inside[Paths] \in Seq(References)
  BY DEF IsText
<1>4. ASSUME NEW c \in Range(stack')
      PROVE  c.place \in Reach(u) /\ c.place.in = Paths /\ c.foreign = FALSE
  <2> DEFINE n == Len(u.inside[Paths])
  <2>1. n \in Nat
    BY <1>3
  <2>2. PICK i \in 1..n : c = [place |-> [in |-> Paths, at |-> i], foreign |-> FALSE]
    BY <1>2 DEF Range
  <2>3. [in |-> Paths, at |-> i] \in PlacesIn(u)
    BY <2>1 DEF PlacesIn
  <2>4. [in |-> Paths, at |-> i] \in Range(InsideIn(u, Paths))
    BY DEF InsideIn, Range
  <2>5. [in |-> Paths, at |-> i] \in Reach(u)
    BY <2>3, <2>4, ReachIsClosed
  <2> QED
    BY <2>2, <2>5
<1>5. Paths.file = Main
  BY DEF Paths
<1>6. DOMAIN refs' = {} /\ refs' = [p \in DOMAIN refs' |-> refs'[p]]
  BY <1>2
<1> QED
  BY <1>2, <1>4, <1>5, <1>6 DEF WalkInv

LEMMA WalkInvNextEntry ==
    ASSUME Bundling, WalkInv, NextEntry
    PROVE  WalkInv'
<1>1. PICK p \in entries : stack' = <<[place |-> p, foreign |-> FALSE]>>
  BY DEF NextEntry
<1>2. UNCHANGED <<text, visited, collected, refs>>
  BY DEF NextEntry
<1>3. BundleTypes
  BY DEF Bundling
<1>4. PICK d \in OwnEntries : p = Entry(d)
  BY <1>3 DEF BundleTypes
<1>5. p \in PlacesIn(text) /\ p.in.file = Main
  BY <1>3, <1>4, EntryIsAPlace, AsInTheText DEF BundleTypes
<1>6. p \in Reach(text)
  BY <1>3, <1>4, <1>5, ReachIsClosed DEF BundleTypes
<1> DEFINE c == [place |-> p, foreign |-> FALSE]
<1>7. c.place = p /\ c.foreign = FALSE
  OBVIOUS
<1>8. stack' = <<c>>
  BY <1>1
<1> HIDE DEF c
<1>9. Range(stack') = {c}
  BY <1>8, OneCall
<1> QED
  BY <1>2, <1>5, <1>6, <1>7, <1>9 DEF WalkInv

\* What is inside another file's value is in that file, or beyond it.
LEMMA FileOfValue ==
    ASSUME IsText(text), NoWayBack(text), NEW p \in Places
    PROVE  Value(p).file # Main <=> (p.in.file # Main \/ Leaves(p))
<1>1. /\ p.in \in Defs \cup {Paths}
      /\ (HasRef(p) => Reference(p) \in References)
  BY PlaceParts
<1>2. HasRef(p) => Spelling(p)[1] = Reference(p).file
  BY SpellingIsString
<1>3. CASE ~HasRef(p)
  <2>1. Value(p) = p.in
    BY <1>3 DEF Value, HasRef
  <2> QED
    BY <1>3, <2>1 DEF Leaves
<1>4. CASE HasRef(p)
  <2> DEFINE r == Reference(p)
             e == Target(p.in, r)
  <2>1. r \in References /\ r # NoRef
    BY <1>1, <1>4 DEF HasRef
  <2>2. r.file # Main
    <3>1. r \in RefersTo(text, p.in)
      <4>1. CASE p.at = 0
        BY <2>1, <4>1 DEF RefersTo, Reference
      <4>2. CASE p.at # 0
        <5>1. /\ text.inside[p.in] \in Seq(References)
              /\ p.at \in Nat /\ p.at <= Len(text.inside[p.in])
          BY <1>1 DEF IsText, Places
        <5>2. p.at \in DOMAIN text.inside[p.in]
          BY <4>2, <5>1
        <5>3. r \in Range(text.inside[p.in])
          BY <4>2, <5>2 DEF Range, Reference
        <5> QED
          BY <2>1, <5>3 DEF RefersTo
      <4> QED
        BY <4>1, <4>2
    <3> HIDE DEF r
    <3> QED
      BY <1>1, <3>1 DEF NoWayBack
  <2>3. e \in Defs /\ Value(p) = text.value[e]
    BY <1>1, <2>1, TargetIsADef DEF Value, Final
  <2>4. text.value[e].file = Main <=> e.file = Main
    <3> HIDE DEF e
    <3> QED
      BY <2>3 DEF NoWayBack
  <2>5. e.file = IF r.file = Here THEN p.in.file ELSE r.file
    BY DEF Target
  <2>6. Leaves(p) <=> r.file # Here
    BY <1>2, <1>4 DEF Leaves, IsExternalRef
  <2> HIDE DEF r, e
  <2> QED
    BY <2>2, <2>3, <2>4, <2>5, <2>6
<1> QED
  BY <1>3, <1>4

LEMMA WalkInvWalk ==
    ASSUME Bundling, WalkInv, Walk
    PROVE  WalkInv'
<1> DEFINE call == Head(stack)
<1>1. BundleTypes /\ stack # <<>> /\ text' = text /\ refs' = refs
  BY DEF Bundling, Walk
<1>2. stack \in Seq(Calls) /\ IsText(text)
  BY <1>1 DEF BundleTypes
<1>3. /\ call \in Calls /\ Tail(stack) \in Seq(Calls)
      /\ Range(stack) = {call} \cup Range(Tail(stack))
  BY <1>1, <1>2, HeadAndTail
<1>4. call.place \in Places /\ call.foreign \in BOOLEAN /\ call.place \in Reach(text)
  BY <1>3 DEF Calls, WalkInv
<1>5. CASE call.place \in visited
  <2>1. stack' = Tail(stack) /\ visited' = visited /\ collected' = collected
    BY <1>5 DEF Walk
  <2> HIDE DEF call
  <2> QED
    BY <1>1, <1>3, <2>1 DEF WalkInv
<1>6. CASE call.place \notin visited
  <2> DEFINE foreign == ChildForeign(call.place, call.foreign)
             d == Value(call.place)
             p == call.place
  <2>1. /\ visited' = visited \cup {p} /\ stack' = CallsFor(d, foreign) \o Tail(stack)
        /\ collected' = collected \cup {q \in {p} : NeedsBundle(q, call.foreign)}
    BY <1>6 DEF Walk, CallsFor
  <2>2. d \in Defs \cup {Paths} /\ (HasRef(p) => Reference(p) \in References)
    BY <1>2, <1>4, PlaceParts
  <2>3. foreign \in BOOLEAN /\ (foreign <=> call.foreign \/ Leaves(p))
    BY <1>4 DEF ChildForeign, Leaves, HasRef, IsExternalRef
  <2>4. NoWayBack(text) => (d.file # Main <=> p.in.file # Main \/ Leaves(p))
    BY <1>2, <1>4, FileOfValue
  <2>5. NoWayBack(text) => (call.foreign <=> p.in.file # Main)
    BY <1>3 DEF WalkInv
  <2>6. HasRef(p) => Spelling(p)[1] = Reference(p).file
    BY <1>2, <1>4, SpellingIsString
  <2>7. NoWayBack(text) => (NeedsBundle(p, call.foreign) <=> IsRenamed(text, p))
    <3>1. Reference(p) = ReferenceIn(text, p)
      BY AsInTheText
    <3> HIDE DEF p, call
    <3> QED
      BY <2>5, <2>6, <3>1 DEF NeedsBundle, HasRef, Leaves, IsExternalRef, IsRenamed
  <2>8. InsideIn(text, ValueIn(text, p)) = Inside(d)
    BY AsInTheText
  <2> HIDE DEF foreign, d, call
  <2>9. /\ CallsFor(d, foreign) \in Seq(Calls)
        /\ \A c \in Range(CallsFor(d, foreign)) : c.place.in = d /\ c.foreign = foreign
    BY <1>2, <2>2, <2>3, CallsForInside
  <2>10. Range(stack') = Range(CallsFor(d, foreign)) \cup Range(Tail(stack))
    BY <1>3, <2>1, <2>9, RangeOfConcat
  <2>11. \A c \in Range(CallsFor(d, foreign)) : c.place \in Reach(text)
    <3> SUFFICES ASSUME NEW c \in Range(CallsFor(d, foreign))
                 PROVE  c.place \in Reach(text)
      OBVIOUS
    <3>1. c.place \in Range(InsideIn(text, ValueIn(text, p)))
      BY <2>8, CallsAreInside
    <3>2. c.place \in PlacesIn(text)
      BY <1>2, <2>2, CallsAreInside, InsideAreReferences, AsInTheText
    <3> QED
      BY <1>2, <1>4, <3>1, <3>2, ReachIsClosed
  <2>12. visited' \subseteq Reach(text) /\ \A c \in Range(stack') : c.place \in Reach(text)
    BY <1>3, <1>4, <2>1, <2>10, <2>11 DEF WalkInv
  <2>13. ASSUME NoWayBack(text)
         PROVE  /\ \A c \in Range(stack') : c.foreign <=> c.place.in.file # Main
                /\ collected' = {q \in visited' : IsRenamed(text, q)}
    <3>1. \A c \in Range(stack') : c.foreign <=> c.place.in.file # Main
      BY <1>3, <2>3, <2>4, <2>5, <2>9, <2>10, <2>13 DEF WalkInv
    <3>2. collected = {q \in visited : IsRenamed(text, q)}
      BY <2>13 DEF WalkInv
    <3>3. NeedsBundle(p, call.foreign) <=> IsRenamed(text, p)
      BY <2>7, <2>13
    <3> HIDE DEF p
    <3> QED
      BY <2>1, <3>1, <3>2, <3>3
  <2> QED
    BY <1>1, <2>12, <2>13 DEF WalkInv
<1> QED
  BY <1>5, <1>6

LEMMA WalkInvStep ==
    ASSUME Bundling, WalkInv, BundleNext
    PROVE  WalkInv'
<1>1. CASE NextEntry
  BY <1>1, WalkInvNextEntry
<1>2. CASE Walk
  BY <1>2, WalkInvWalk
<1>3. CASE StartRewrite \/ Finish
  BY <1>3 DEF StartRewrite, Finish, WalkInv
<1>4. CASE Rewrite
  <2>1. PICK p : refs' = Put(refs, p, LocalRef(names[Spelling(p)]))
    BY <1>4 DEF Rewrite
  <2>2. refs' = [q \in DOMAIN refs' |-> refs'[q]]
    BY <2>1 DEF Put
  <2>3. UNCHANGED <<text, stack, visited, collected>>
    BY <1>4 DEF Rewrite
  <2> QED
    BY <2>2, <2>3 DEF WalkInv
<1> QED
  BY <1>1, <1>2, <1>3, <1>4 DEF BundleNext

\* At the end, the references are what the text makes them.
LEMMA RenamedByTheText ==
    ASSUME Bundling, WalkInv, stage = "done", NoWayBack(text)
    PROVE  refs = RefsOf(text)
<1>1. /\ BundleTypes /\ IsText(text) /\ NothingForgotten /\ RewrittenInv
      /\ stack = <<>> /\ entries = {} /\ DOMAIN refs = collected /\ names = BundleNames(Strings)
  BY DEF Bundling, BundleTypes, Progress
<1>2. \A q : Met(q) => q \in visited
  <2>1. Range(stack) = {}
    BY <1>1 DEF Range
  <2> QED
    BY <2>1 DEF Met
<1>3. ClosedIn(text, visited)
  <2>1. /\ \A p \in visited : \A q \in Range(Inside(Value(p))) : q \in visited
        /\ \A q \in Range(Inside(Paths)) : q \in visited
        /\ \A d \in OwnEntries : Entry(d) \in visited
    BY <1>1, <1>2 DEF NothingForgotten
  <2>2. /\ \A p \in visited : \A q \in Range(InsideIn(text, ValueIn(text, p))) : q \in visited
        /\ \A q \in Range(InsideIn(text, Paths)) : q \in visited
    BY <2>1, AsInTheText
  <2> QED
    BY <2>1, <2>2 DEF ClosedIn
<1>4. visited \in SUBSET PlacesIn(text)
  BY <1>1, AsInTheText DEF BundleTypes
<1>5. visited = Reach(text)
  BY <1>3, <1>4, Zenon DEF WalkInv, Reach
<1>6. collected = Renamed(text)
  BY <1>5 DEF WalkInv, Renamed
<1>7. Strings = {SpellingIn(text, p) : p \in Renamed(text)}
  BY <1>6, AsInTheText DEF Strings
<1>8. names = NamesIn(text)
  BY <1>1, <1>7 DEF NamesIn
<1>9. \A p \in DOMAIN refs : refs[p] = LocalRef(NamesIn(text)[SpellingIn(text, p)])
  BY <1>1, <1>8, AsInTheText DEF RewrittenInv
<1>10. refs = [p \in DOMAIN refs |-> refs[p]] /\ DOMAIN refs = Renamed(text)
  BY <1>1, <1>6 DEF WalkInv
<1> QED
  BY <1>9, <1>10, Zenon DEF RefsOf

\* Nothing is renamed in a document that is in one file.
LEMMA OneFileIsKept ==
    ASSUME NEW t, IsText(t), SingleFile(t)
    PROVE  NoWayBack(t) /\ RefsOf(t) = <<>>
<1>1. NoWayBack(t)
  <2>1. \A r : r.file = Here => r.file # Main
    BY DEF Here, Main
  <2> QED
    BY <2>1 DEF SingleFile, NoWayBack
<1> DEFINE M == {p \in PlacesIn(t) : p.in.file = Main}
<1>2. ASSUME NEW p \in M
      PROVE  /\ ValueIn(t, p).file = Main /\ ValueIn(t, p) \in Defs \cup {Paths}
             /\ ~IsRenamed(t, p)
  <2> DEFINE r == ReferenceIn(t, p)
  <2>1. /\ p.in \in Defs \cup {Paths} /\ p.in.file = Main
        /\ p.at \in Nat /\ p.at <= Len(t.inside[p.in])
    BY DEF PlacesIn
  <2>2. r = NoRef \/ (r \in References /\ r \in RefersTo(t, p.in))
    <3>1. /\ t.alias[p.in] \in References \cup {NoRef}
          /\ t.inside[p.in] \in Seq(References)
      BY <2>1 DEF IsText
    <3>2. CASE p.at = 0
      BY <3>1, <3>2 DEF RefersTo, ReferenceIn
    <3>3. CASE p.at # 0
      <4>1. p.at \in DOMAIN t.inside[p.in]
        BY <2>1, <3>1, <3>3
      <4>2. r \in Range(t.inside[p.in]) /\ r \in References
        BY <3>1, <3>3, <4>1 DEF Range, ReferenceIn
      <4>3. r # NoRef
        BY <4>2, NoRefIsNone
      <4> QED
        BY <4>2, <4>3 DEF RefersTo
    <3> QED
      BY <3>2, <3>3
  <2>3. CASE r = NoRef
    BY <2>1, <2>3 DEF ValueIn, IsRenamed
  <2>4. CASE r # NoRef
    <3>1. r.file = Here /\ r \in References
      BY <2>1, <2>2, <2>4 DEF SingleFile
    <3>2. Target(p.in, r) \in Defs
      BY <2>1, <3>1, TargetIsADef
    <3>3. Target(p.in, r).file = Main
      BY <2>1, <3>1 DEF Target
    <3>4. t.value[Target(p.in, r)].file = Main /\ t.value[Target(p.in, r)] \in Defs \cup {Paths}
      <4> DEFINE e == Target(p.in, r)
      <4> HIDE DEF e
      <4>1. e \in Defs /\ e.file = Main
        BY <3>2, <3>3 DEF e
      <4>2. t.value[e].file = Main /\ t.value[e] \in Defs \cup {Paths}
        BY <4>1 DEF SingleFile, IsText
      <4> QED
        BY <4>2 DEF e
    <3>5. ValueIn(t, p) = t.value[Target(p.in, r)]
      BY <2>4 DEF ValueIn
    <3>6. ~IsRenamed(t, p)
      BY <2>1, <3>1 DEF IsRenamed
    <3> QED
      BY <3>4, <3>5, <3>6
  <2> QED
    BY <2>3, <2>4
<1>3. ASSUME NEW d \in Defs \cup {Paths}, d.file = Main
      PROVE  Range(InsideIn(t, d)) \subseteq M
  <2> DEFINE n == Len(t.inside[d])
  <2>1. n \in Nat
    <3>1. t.inside[d] \in Seq(References)
      BY DEF IsText
    <3> QED
      BY <3>1
  <2>2. \A i \in 1..n : [in |-> d, at |-> i] \in M
    BY <1>3, <2>1 DEF PlacesIn
  <2> QED
    BY <2>2 DEF InsideIn, Range
<1>4. ClosedIn(t, M)
  <2>1. Range(InsideIn(t, Paths)) \subseteq M
    <3>1. Paths.file = Main
      BY DEF Paths
    <3> HIDE DEF M
    <3> QED
      BY <1>3, <3>1
  <2>2. \A d \in OwnEntries : Entry(d) \in M
    <3> TAKE d \in OwnEntries
    <3>1. d \in Defs /\ d.file = Main
      BY DEF OwnEntries
    <3>2. t.inside[d] \in Seq(References)
      BY <3>1 DEF IsText
    <3>3. 0 <= Len(t.inside[d])
      BY <3>2
    <3> QED
      BY <3>1, <3>3 DEF Entry, PlacesIn
  <2>3. \A p \in M : Range(InsideIn(t, ValueIn(t, p))) \subseteq M
    <3> HIDE DEF M
    <3> QED
      BY <1>2, <1>3
  <2> HIDE DEF M
  <2> QED
    BY <2>1, <2>2, <2>3 DEF ClosedIn
<1>5. Reach(t) \subseteq M
  <2>1. M \in SUBSET PlacesIn(t)
    OBVIOUS
  <2> HIDE DEF M
  <2> QED
    BY <1>4, <2>1, Zenon DEF Reach
<1>6. Renamed(t) = {}
  <2> HIDE DEF M
  <2> QED
    BY <1>2, <1>5 DEF Renamed
<1>7. DOMAIN RefsOf(t) = {}
  BY <1>6 DEF RefsOf
<1>8. RefsOf(t) = [p \in {} |-> LocalRef(NamesIn(t)[SpellingIn(t, p)])]
  BY <1>6, Zenon DEF RefsOf
<1>9. RefsOf(t) = <<>>
  BY <1>8
<1> QED
  BY <1>1, <1>9

-----------------------------------------------------------------------------
(* What is read of the bundled document *)

\* Everything that is written has been walked, and is a reference.
LEMMA WrittenIsWalked ==
    ASSUME Bundling, stage = "done"
    PROVE  \A p \in Written : p \in visited /\ HasRef(p)
<1>1. /\ BundleTypes /\ IsText(text) /\ NothingForgotten /\ RewrittenInv
      /\ stack = <<>> /\ entries = {} /\ DOMAIN refs = collected
  BY DEF Bundling, BundleTypes, Progress
<1>2. \A q : Met(q) => q \in visited
  <2>1. Range(stack) = {}
    BY <1>1 DEF Range
  <2> QED
    BY <2>1 DEF Met
<1>3. ASSUME NEW d \in SpelledOut, NEW p \in Range(Inside(d))
      PROVE  p \in visited /\ HasRef(p)
  <2>1. CASE d \in Range(components)
    <3>1. PICK n \in DOMAIN components : d = components[n]
      BY <2>1 DEF Range
    <3>2. PICK q \in DOMAIN refs : components[n] = Value(q)
      BY <1>1, Zenon DEF RewrittenInv
    <3>3. q \in visited /\ q \in Places
      BY <1>1 DEF BundleTypes
    <3>4. d = Value(q) /\ d \in Defs \cup {Paths}
      BY <1>1, <3>1, <3>2, <3>3, PlaceParts
    <3> QED
      BY <1>1, <1>2, <1>3, <3>3, <3>4, InsideAreReferences DEF NothingForgotten
  <2>2. CASE d = Paths
    BY <1>1, <1>2, <1>3, <2>2, InsideAreReferences DEF NothingForgotten
  <2>3. CASE d \in {e \in OwnEntries : text.alias[e] = NoRef}
    <3>1. d \in OwnEntries /\ text.alias[d] = NoRef
      BY <2>3
    <3>2. Entry(d) \in visited
      BY <1>1, <1>2, <3>1 DEF NothingForgotten
    <3>3. Value(Entry(d)) = d
      BY <3>1 DEF Value, Reference, Entry
    <3>4. d \in Defs
      BY <3>1 DEF OwnEntries
    <3> QED
      BY <1>1, <1>2, <1>3, <3>2, <3>3, <3>4, InsideAreReferences DEF NothingForgotten
  <2> QED
    BY <1>3, <2>1, <2>2, <2>3 DEF SpelledOut
<1>4. ASSUME NEW d \in OwnEntries, text.alias[d] # NoRef
      PROVE  Entry(d) \in visited /\ HasRef(Entry(d))
  <2>1. Entry(d) \in visited
    BY <1>1, <1>2 DEF NothingForgotten
  <2> QED
    BY <1>4, <2>1 DEF HasRef, Reference, Entry
<1> SUFFICES ASSUME NEW p \in Written
             PROVE  p \in visited /\ HasRef(p)
  OBVIOUS
<1>5. CASE \E d \in SpelledOut : p \in Range(Inside(d))
  BY <1>3, <1>5
<1>6. CASE \E d \in OwnEntries : text.alias[d] # NoRef /\ p = Entry(d)
  BY <1>4, <1>6
<1>7. p \in WrittenInsides => \E d \in SpelledOut : p \in Range(Inside(d))
  BY DEF WrittenInsides
<1>8. p \in WrittenEntries => \E d \in OwnEntries : text.alias[d] # NoRef /\ p = Entry(d)
  BY DEF WrittenEntries
<1> QED
  BY <1>5, <1>6, <1>7, <1>8 DEF Written

LEMMA ReferringEntriesAreWritten ==
    \A d \in OwnEntries : text.alias[d] # NoRef => Entry(d) \in Written
BY DEF Written, WrittenEntries

\* Each place leads to its own value, or to the document's own entry for what
\* it refers to.
LEMMA PlaceIsRead ==
    ASSUME Bundling, stage = "done", Unambiguous, NoBorrowedEntry,
           NEW p \in visited, HasRef(p), NEW own
    PROVE  \/ Lookup(StringAt(p), own) = Value(p)
           \/ \E e \in OwnEntries : /\ Lookup(StringAt(p), own) = own[e]
                                    /\ e = Target(p.in, Reference(p))
                                    /\ Value(p) = Final(e)
<1>1. /\ BundleTypes /\ IsText(text) /\ RewrittenInv /\ ForeignIsKnown
      /\ names = BundleNames(Strings) /\ DOMAIN refs = collected
      /\ IsFiniteSet(Strings) /\ p \in Places
  BY DEF Bundling, BundleTypes, Progress
<1>2. ASSUME NEW q \in collected
      PROVE  IsString(Spelling(q)) /\ Spelling(q) \in Strings
  BY <1>1, SpellingIsString DEF BundleTypes, Strings
<1>3. \A s \in Strings : IsString(s)
  BY <1>2 DEF Strings
<1>4. /\ \A s \in Strings : /\ names[s] = <<s[3], Cardinality(Taken(s, Strings)) + 1>>
                            /\ names[s] = <<s[3], 1>> => <<s[3], 1>> \notin ExistingNames
      /\ \A s, u \in Strings : names[s] = names[u] => s = u
  BY <1>1, <1>3, NamesAreDistinct
<1>5. \A n \in DOMAIN components :
         \E q \in collected : n = names[Spelling(q)] /\ components[n] = Value(q)
  BY <1>1, Zenon DEF RewrittenInv
<1>6. CASE p \in collected
  <2> DEFINE n == names[Spelling(p)]
             m == Cardinality(Taken(Spelling(p), Strings)) + 1
  <2>1. n = <<Spelling(p)[3], m>>
    BY <1>2, <1>4, <1>6
  <2>2. n \in DOMAIN components /\ StringAt(p) = LocalRef(n)
    BY <1>1, <1>6, Zenon DEF RewrittenInv, StringAt
  <2>3. components[n] = Value(p)
    <3>1. PICK q \in collected : n = names[Spelling(q)] /\ components[n] = Value(q)
      BY <1>5, <2>2
    <3>2. Spelling(q) = Spelling(p)
      BY <1>2, <1>4, <1>6, <3>1
    <3> QED
      BY <1>6, <3>1, <3>2 DEF Unambiguous
  <2> HIDE DEF n, m
  <2>4. /\ StringAt(p) = <<Here, 0, Spelling(p)[3], m>>
        /\ <<StringAt(p)[3], StringAt(p)[4]>> = n
    BY <2>1, <2>2 DEF LocalRef
  <2>5. IsNewEntry(StringAt(p))
    BY <2>2, <2>4 DEF IsNewEntry
  <2>6. Lookup(StringAt(p), own) = Value(p)
    BY <2>3, <2>4, <2>5 DEF Lookup
  <2> QED
    BY <2>6
<1>7. CASE p \notin collected
  <2>1. p.in.file = Main /\ Reference(p).file = Here /\ Reference(p) \in References
    BY <1>1, <1>7, PlaceParts DEF ForeignIsKnown
  <2> DEFINE e == Target(p.in, Reference(p))
             x == Reference(p).name
  <2>2. e \in Defs /\ e.file = Main /\ e = [file |-> Main, name |-> x]
    <3>1. p.in \in Defs \cup {Paths}
      BY <1>1, PlaceParts
    <3> QED
      BY <2>1, <3>1, TargetIsADef DEF Target
  <2>3. e \in OwnEntries
    BY <2>2 DEF OwnEntries
  <2>4. StringAt(p) = Spelling(p) /\ Spelling(p) = <<Here, 0, x, 1>>
    BY <1>1, <1>7, <2>1 DEF StringAt, Spelling
  <2>5. Value(p) = Final(e)
    BY Zenon DEF Value, HasRef
  <2>6. e.name = x
    BY <2>2
  <2>7. <<x, 1>> \in ExistingNames
    BY <2>3, <2>6 DEF ExistingNames
  <2>8. <<x, 1>> \notin DOMAIN components
    <3> SUFFICES ASSUME <<x, 1>> \in DOMAIN components
                 PROVE  FALSE
      OBVIOUS
    <3> HIDE DEF e, x
    <3>1. PICK q \in collected : <<x, 1>> = names[Spelling(q)]
      BY <1>5
    <3> DEFINE s == Spelling(q)
    <3>2. s \in Strings /\ names[s] = <<s[3], Cardinality(Taken(s, Strings)) + 1>>
          /\ (names[s] = <<s[3], 1>> => <<s[3], 1>> \notin ExistingNames)
      BY <1>2, <1>4
    <3> HIDE DEF s
    <3>3. s[3] = x
      BY <3>1, <3>2 DEF s
    <3> QED
      BY <2>7, <3>1, <3>2, <3>3 DEF s
  <2>9. StringAt(p)[1] = Here /\ StringAt(p)[2] = 0 /\ StringAt(p)[3] = x /\ StringAt(p)[4] = 1
    BY <2>4
  <2> HIDE DEF e, x
  <2>10. ~IsNewEntry(StringAt(p)) /\ IsOwnEntry(StringAt(p)) /\ OwnEntry(StringAt(p)) = e
    BY <2>2, <2>7, <2>8, <2>9 DEF IsNewEntry, IsOwnEntry, OwnEntry
  <2>11. Lookup(StringAt(p), own) = own[e]
    BY <2>10 DEF Lookup
  <2> QED
    BY <2>3, <2>5, <2>11 DEF e
<1> QED
  BY <1>6, <1>7

\* What an own entry says, own being what the others do.
EntrySays(d, own) == IF text.alias[d] = NoRef THEN d ELSE Lookup(StringAt(Entry(d)), own)

LEMMA HasLeast ==
    ASSUME NEW S \in SUBSET Nat, S # {}
    PROVE  \E n \in S : \A m \in S : n <= m
<1>1. PICK n \in S : \A m \in S : <<m, n>> \notin OpToRel(<, Nat)
  BY NatLessThanWellFounded, WFMin
<1>2. \A m \in S : ~(m < n)
  BY <1>1 DEF OpToRel
<1> QED
  BY <1>2

LEMMA OwnEntriesAreRead ==
    ASSUME Bundling, stage = "done", Unambiguous, NoBorrowedEntry,
           NEW own, \A d \in OwnEntries : own[d] = EntrySays(d, own)
    PROVE  \A d \in OwnEntries : own[d] = Final(d)
<1>1. IsText(text) /\ \A d \in OwnEntries : d \in Defs /\ text.length[d] \in Nat
  BY DEF Bundling, BundleTypes, IsText, OwnEntries
<1> DEFINE Wrong == {d \in OwnEntries : own[d] # Final(d)}
           S == {text.length[d] : d \in Wrong}
<1> SUFFICES ASSUME Wrong # {}
             PROVE  FALSE
  OBVIOUS
<1>2. PICK n \in S : \A m \in S : n <= m
  <2>1. S \in SUBSET Nat /\ S # {}
    BY <1>1
  <2> QED
    BY <2>1, HasLeast
<1>3. PICK d \in Wrong : n = text.length[d]
  OBVIOUS
<1>4. d \in OwnEntries /\ own[d] # Final(d) /\ d \in Defs
  BY <1>1
<1>5. text.alias[d] # NoRef
  <2> SUFFICES ASSUME text.alias[d] = NoRef
               PROVE  FALSE
    OBVIOUS
  <2>1. own[d] = d
    BY <1>4 DEF EntrySays
  <2>2. Final(d) = d
    BY <1>1, <1>4 DEF IsText, Final
  <2> QED
    BY <1>4, <2>1, <2>2
<1>6. own[d] = Lookup(StringAt(Entry(d)), own)
  BY <1>4, <1>5 DEF EntrySays
<1>7. /\ Entry(d).in = d /\ Reference(Entry(d)) = text.alias[d]
      /\ Value(Entry(d)) = Final(d) /\ HasRef(Entry(d)) /\ Entry(d) \in visited
  <2>1. Entry(d).in = d /\ Entry(d).at = 0
    BY DEF Entry
  <2>2. Reference(Entry(d)) = text.alias[d]
    BY <2>1 DEF Reference
  <2>3. HasRef(Entry(d))
    BY <1>5, <2>2 DEF HasRef
  <2>4. Final(Target(d, text.alias[d])) = Final(d)
    BY <1>1, <1>4, <1>5 DEF IsText, Final
  <2>5. Entry(d) \in visited
    <3>1. Entry(d) \in Written
      BY <1>4, <1>5, ReferringEntriesAreWritten
    <3> QED
      BY <3>1, WrittenIsWalked
  <2> QED
    BY <1>5, <2>1, <2>2, <2>3, <2>4, <2>5 DEF Value
<1>8. PICK e \in OwnEntries : /\ Lookup(StringAt(Entry(d)), own) = own[e]
                              /\ e = Target(d, text.alias[d])
                              /\ Final(d) = Final(e)
  <2>1. \/ Lookup(StringAt(Entry(d)), own) = Value(Entry(d))
        \/ \E e \in OwnEntries : /\ Lookup(StringAt(Entry(d)), own) = own[e]
                                 /\ e = Target(Entry(d).in, Reference(Entry(d)))
                                 /\ Value(Entry(d)) = Final(e)
    BY <1>7, PlaceIsRead
  <2> QED
    BY <1>4, <1>6, <1>7, <2>1
<1>9. e \in Wrong
  BY <1>4, <1>6, <1>8
<1>10. text.length[d] = text.length[e] + 1
  BY <1>1, <1>4, <1>5, <1>8 DEF IsText
<1>11. text.length[e] \in Nat /\ text.length[d] \in Nat /\ n <= text.length[e]
  <2>1. text.length[e] \in S
    BY <1>9
  <2> QED
    BY <1>1, <1>2, <1>4, <1>8, <2>1
<1> HIDE DEF S, Wrong
<1> QED
  BY ONLY <1>3, <1>10, <1>11

LEMMA OwnValuesAreFinal ==
    ASSUME Bundling, stage = "done", Unambiguous, NoBorrowedEntry
    PROVE  \A d \in OwnEntries : OwnValues[d] = Final(d)
<1> DEFINE good == [d \in OwnEntries |-> Final(d)]
<1>1. \A d \in OwnEntries : EntrySays(d, good) = Final(d)
  <2> SUFFICES ASSUME NEW d \in OwnEntries
               PROVE  EntrySays(d, good) = Final(d)
    OBVIOUS
  <2>1. IsText(text) /\ d \in Defs
    BY DEF Bundling, BundleTypes, OwnEntries
  <2>2. CASE text.alias[d] = NoRef
    BY <2>1, <2>2 DEF IsText, Final, EntrySays
  <2>3. CASE text.alias[d] # NoRef
    <3>1. Entry(d) \in visited /\ HasRef(Entry(d))
      <4>1. Entry(d) \in Written
        BY <2>3, ReferringEntriesAreWritten
      <4> QED
        BY <4>1, WrittenIsWalked
    <3>2. Entry(d).in = d /\ Reference(Entry(d)) = text.alias[d]
      BY DEF Entry, Reference
    <3>3. Value(Entry(d)) = Final(d)
      <4>1. Final(Target(d, text.alias[d])) = Final(d)
        BY <2>1, <2>3 DEF IsText, Final
      <4> QED
        BY <2>3, <3>2, <4>1 DEF Value
    <3>4. \A e \in OwnEntries : good[e] = Final(e)
      OBVIOUS
    <3> HIDE DEF good
    <3>5. Lookup(StringAt(Entry(d)), good) = Final(d)
      BY <3>1, <3>3, <3>4, PlaceIsRead
    <3> QED
      BY <2>3, <3>5 DEF EntrySays
  <2> QED
    BY <2>2, <2>3
<1>2. good = [d \in OwnEntries |-> EntrySays(d, good)]
  <2>1. good = [d \in OwnEntries |-> Final(d)]
    OBVIOUS
  <2> HIDE DEF good
  <2> QED
    BY <1>1, <2>1
<1> HIDE DEF good
<1>3. OwnValues = CHOOSE own : own = [d \in OwnEntries |-> EntrySays(d, own)]
  BY DEF OwnValues, EntrySays
<1>4. OwnValues = [d \in OwnEntries |-> EntrySays(d, OwnValues)]
  BY <1>2, <1>3, Zenon
<1>5. \A d \in OwnEntries : OwnValues[d] = EntrySays(d, OwnValues)
  BY <1>4, Zenon
<1> QED
  BY <1>5, OwnEntriesAreRead

LEMMA BundleKeepsTheMeaning ==
    ASSUME BundleInv
    PROVE  SameMeaning
<1> SUFFICES ASSUME stage = "done", Unambiguous, NoBorrowedEntry, NEW p \in Written
             PROVE  ReadAs(StringAt(p)) = Value(p) /\ Value(p) # NoValue
  BY DEF SameMeaning, LoadsAlone, SaysTheSame
<1>1. Bundling
  BY DEF BundleInv
<1>2. p \in visited /\ HasRef(p)
  BY <1>1, WrittenIsWalked
<1>3. \A d \in OwnEntries : OwnValues[d] = Final(d)
  BY <1>1, OwnValuesAreFinal
<1>4. Lookup(StringAt(p), OwnValues) = Value(p)
  BY <1>1, <1>2, <1>3, PlaceIsRead
<1>5. Value(p) # NoValue
  <2>1. Value(p) \in Defs \cup {Paths}
    BY <1>1, <1>2, PlaceParts DEF Bundling, BundleTypes
  <2>2. Value(p).file \in Files
    BY <2>1, NamesAndFiles DEF Defs, Paths
  <2> QED
    BY <2>2, NamesAndFiles DEF NoValue
<1> QED
  BY <1>4, <1>5 DEF ReadAs

-----------------------------------------------------------------------------
(* Bundling as part of a generation *)

\* What is written and published is what it was, and there is some.
Published ==
    /\ scenario \in Scenarios
    /\ edition \in 1..Len(scenario.tables)
    /\ revision \in 1..Len(scenario.documents)

WalkedInv == stage # "idle" => WalkInv

LEMMA PublishedInit == PinInit => Published /\ BundleInv
<1> SUFFICES ASSUME PinInit
             PROVE  Published /\ BundleInv
  OBVIOUS
<1>1. /\ scenario \in Scenarios /\ edition = 1 /\ revision = 1 /\ BundleIdle
  BY DEF PinInit
<1>2. Len(scenario.tables) \in Nat \ {0}
  <2>1. scenario.tables \in Seq(ProviderTables) /\ scenario.tables # <<>>
    BY <1>1, PinningAssumption
  <2> QED
    BY <2>1
<1>3. Len(scenario.documents) \in Nat \ {0}
  BY <1>1, PinningAssumption
<1>4. Published
  BY <1>1, <1>2, <1>3 DEF Published
<1>5. BundleInv
  BY <1>1 DEF BundleInv, BundleIdle
<1> QED
  BY <1>4, <1>5

LEMMA UpstreamIsADocument ==
    ASSUME Published
    PROVE  /\ IsDocument(Upstream)
           /\ Table \in ProviderTables /\ Valid(Table)
<1>1. scenario \in Scenarios
  BY DEF Published
<1>2. DOMAIN scenario.documents = 1..Len(scenario.documents)
      /\ \A i \in DOMAIN scenario.documents : IsDocument(scenario.documents[i])
  BY <1>1, PinningAssumption
<1>3. scenario.tables \in Seq(ProviderTables)
      /\ \A i \in DOMAIN scenario.tables : Valid(scenario.tables[i])
  BY <1>1, PinningAssumption
<1>4. IsDocument(Upstream)
  BY <1>2 DEF Published, Upstream
<1>5. edition \in DOMAIN scenario.tables /\ scenario.tables[edition] \in ProviderTables
  BY <1>3 DEF Published
<1> QED
  BY <1>3, <1>4, <1>5 DEF Table

LEMMA PublishedStep == Published /\ [PinNext]_vars => Published'
<1> SUFFICES ASSUME Published, [PinNext]_vars
             PROVE  Published'
  OBVIOUS
<1>1. EditTable \/ Publish \/ UNCHANGED <<scenario, edition, revision>>
  <2>1. StartCut \/ StartRecut => UNCHANGED <<scenario, edition, revision>>
    BY DEF StartCut, StartRecut, Start
  <2>2. Generation => UNCHANGED <<scenario, edition, revision>>
    BY DEF Generation, MemberFails, GenerateCloudFormationMember, GenerateSmithyMember,
           GenerateDiscoveryDocMember, Generate, LoadAndBundle, WriteMember, FinishRun, pinVars
  <2>3. UNCHANGED vars => UNCHANGED <<scenario, edition, revision>>
    BY DEF vars, pinVars
  <2> QED
    BY <2>1, <2>2, <2>3 DEF PinNext
<1>2. EditTable => /\ edition < Len(scenario.tables) /\ edition' = edition + 1
                   /\ UNCHANGED <<scenario, revision>>
  BY DEF EditTable
<1>3. Publish => /\ revision < Len(scenario.documents) /\ revision' = revision + 1
                 /\ UNCHANGED <<scenario, edition>>
  BY DEF Publish
<1>4. Len(scenario.tables) \in Nat /\ Len(scenario.documents) \in Nat
  BY PinningAssumption DEF Published
<1> QED
  BY <1>1, <1>2, <1>3, <1>4 DEF Published

LEMMA BundleInvStep == Published /\ BundleInv /\ [PinNext]_vars => BundleInv'
<1> SUFFICES ASSUME Published, BundleInv, [PinNext]_vars
             PROVE  BundleInv'
  OBVIOUS
<1>1. CASE LoadAndBundle
  <2>1. IsText(Upstream.text) /\ BundleCall(Upstream.text)
    BY <1>1, UpstreamIsADocument DEF LoadAndBundle, IsDocument
  <2> QED
    BY <2>1, CallBegins
<1>2. CASE WriteMember
  BY <1>2, DroppedIsIdle DEF WriteMember
<1>3. CASE BundleNext
  BY <1>3, BundleStep
<1>4. CASE UNCHANGED bundleVars
  BY <1>4, BundleRests
<1>5. LoadAndBundle \/ WriteMember \/ BundleNext \/ UNCHANGED bundleVars
  BY DEF PinNext, Generation, EditTable, Publish, StartCut, StartRecut, Start, MemberFails,
         GenerateCloudFormationMember, GenerateSmithyMember, GenerateDiscoveryDocMember,
         Generate, FinishRun, vars
<1> QED
  BY <1>1, <1>2, <1>3, <1>4, <1>5

LEMMA WalkedInvStep == Published /\ BundleInv /\ WalkedInv /\ [PinNext]_vars => WalkedInv'
<1> SUFFICES ASSUME Published, BundleInv, WalkedInv, [PinNext]_vars
             PROVE  WalkedInv'
  OBVIOUS
<1>1. CASE LoadAndBundle
  <2>1. IsText(Upstream.text) /\ BundleCall(Upstream.text)
    BY <1>1, UpstreamIsADocument DEF LoadAndBundle, IsDocument
  <2> QED
    BY <2>1, WalkInvBegins DEF WalkedInv
<1>2. CASE WriteMember
  BY <1>2 DEF WriteMember, BundleDropped, WalkedInv
<1>3. CASE BundleNext
  <2>1. stage # "idle"
    BY <1>3 DEF BundleNext, NextEntry, Walk, StartRewrite, Rewrite, Finish
  <2> QED
    BY <1>3, <2>1, WalkInvStep DEF WalkedInv, BundleInv
<1>4. CASE UNCHANGED bundleVars
  BY <1>4 DEF bundleVars, WalkedInv, WalkInv
<1>5. LoadAndBundle \/ WriteMember \/ BundleNext \/ UNCHANGED bundleVars
  BY DEF PinNext, Generation, EditTable, Publish, StartCut, StartRecut, Start, MemberFails,
         GenerateCloudFormationMember, GenerateSmithyMember, GenerateDiscoveryDocMember,
         Generate, FinishRun, vars
<1> QED
  BY <1>1, <1>2, <1>3, <1>4, <1>5

\* What Bundle makes of any description, in whatever files and circles, says
\* without a network what the files said, unless one string stood for two
\* things or an entry of the document was a reference into another file.
THEOREM MeaningIsKept == PinSpec => []SameMeaning
<1>1. PinInit => Published /\ BundleInv
  BY PublishedInit
<1>2. Published /\ BundleInv /\ [PinNext]_vars => (Published /\ BundleInv)'
  BY PublishedStep, BundleInvStep
<1>3. BundleInv => SameMeaning
  BY BundleKeepsTheMeaning
<1> QED
  BY <1>1, <1>2, <1>3, PTL DEF PinSpec

-----------------------------------------------------------------------------
(* Cutting: what every member is, in terms of the table it was made of *)

\* A table, as it is handed to a member's generation.
Configs ==
    [ source : Sources,
      dataSources : BOOLEAN, redocly : BOOLEAN, namespaceFromTags : BOOLEAN,
      wireName : Nat \cup {TableName, DSName}, execution : Nat, timeouts : Nat, resources : Nat,
      targetPrefix : Nat, versionQualifier : Nat, namespace : Nat ]

Jobs ==
    [ name : {TableName, DSName}, mode : {"resource", "data_source"},
      config : Configs, table : ProviderTables ]

\* The member called n, of the given mode, is one of the table's.
IsMemberOf(table, n, mode) ==
    \/ n = TableName /\ mode = IF table.dataSources THEN "data_source" ELSE "resource"
    \/ /\ n = DSName /\ mode = "data_source"
       /\ ~table.dataSources /\ table.source # "cloudformation"

\* c, the table a member is made of, is the member's own table in everything
\* that its source has; how tells a cut from a recut.
ConfigFits(c, table, how) ==
    /\ Valid(table)
    /\ c.source = table.source
    /\ c.namespaceFromTags = table.namespaceFromTags
    /\ c.execution = table.execution
    /\ c.timeouts = table.timeouts
    /\ c.resources = table.resources
    /\ (table.source # "cloudformation" => c.wireName = WireName(TableName, table))
    /\ (table.source = "smithy" => /\ c.targetPrefix = table.targetPrefix
                                   /\ c.namespace = table.namespace)
    /\ (table.source = "discovery_docs" => c.versionQualifier = table.versionQualifier)
    /\ c.redocly = (how = "cut" /\ table.redocly)

JobFits(job, how) ==
    /\ IsMemberOf(job.table, job.name, job.mode)
    /\ ConfigFits(job.config, job.table, how)
    /\ (how = "recut" => /\ job.name \in DOMAIN snap
                         /\ job.mode = snap[job.name].mode
                         /\ job.table = origin[job.name].table)

\* d is what Bundle makes of a document that was fetched and loaded.
IsBundled(d, fetched, loaded) ==
    /\ NoWayBack(fetched.text) => d = [loaded EXCEPT !.renamed = RefsOf(fetched.text)]
    /\ SingleFile(fetched.text) => d = loaded

\* A member is its table, as far as its source goes, and its document.
MemberFits(n, m, table, fetched, how) ==
    /\ table \in ProviderTables /\ Valid(table)
    /\ IsMemberOf(table, n, m.mode)
    /\ m.source = table.source
    /\ m.namespaceFromTags = table.namespaceFromTags
    /\ m.execution = table.execution
    /\ m.timeouts = table.timeouts
    /\ m.resources = table.resources
    /\ m.wireName = Given(table.source # "cloudformation", WireName(TableName, table))
    /\ m.targetPrefix = Given(table.source = "smithy", table.targetPrefix)
    /\ m.namespace = Given(table.source = "smithy", table.namespace)
    /\ m.versionQualifier = Given(table.source = "discovery_docs", table.versionQualifier)
    /\ (table.source # "openapi" => m.document = fetched)
    /\ (table.source = "openapi" /\ (NoRedocly(table) \/ how = "cut") /\ ~m.document.misread
           => IsBundled(m.document, fetched, Loaded(fetched, table.redocly)))

SnapFits ==
    /\ DOMAIN origin = DOMAIN snap
    /\ DOMAIN snap \subseteq {TableName, DSName}
    /\ \A n, k \in DOMAIN snap : origin[n].table = origin[k].table
    /\ \A n \in DOMAIN snap :
          MemberFits(n, snap[n], origin[n].table, origin[n].fetched, outcome.run)

\* A member that was made again of what it had been made of.
MadeAgain(n) ==
    /\ made[n].fetched = origin[n].fetched
    /\ NoRedocly(made[n].table)
    /\ ~snap[n].document.misread
    /\ (made[n].table.source = "openapi" => NoWayBack(made[n].fetched.text))
    /\ (made[n].member.mode = "resource" => ~made[n].fetched.tied)

OneTable ==
    /\ \A j, k \in Range(jobs) : j.table = k.table
    /\ \A n, k \in DOMAIN made : made[n].table = made[k].table
    /\ \A j \in Range(jobs) : \A n \in DOMAIN made : j.table = made[n].table

RunFits ==
    /\ jobs \in Seq(Jobs)
    /\ \A j \in Range(jobs) : JobFits(j, run)
    /\ OneTable
    /\ \A n \in DOMAIN made :
          /\ n \in {TableName, DSName}
          /\ MemberFits(n, made[n].member, made[n].table, made[n].fetched, run)
    /\ (run = "recut" =>
           /\ (~failed => DOMAIN made \cup {j.name : j \in Range(jobs)} = DOMAIN snap)
           /\ \A n \in DOMAIN made :
                 /\ n \in DOMAIN snap
                 /\ made[n].table = origin[n].table
                 /\ (MadeAgain(n) => ~made[n].changed))

\* What the document that is being bundled is for.
BundledFor ==
    stage # "idle" =>
        /\ jobs # <<>>
        /\ Head(jobs).config.source = "openapi"
        /\ IsDocument(document)
        /\ text = document.text

PinInv ==
    /\ run \in {"idle", "cut", "recut"}
    /\ SnapFits
    /\ (run = "idle" => jobs = <<>>)
    /\ (run # "idle" => RunFits)
    /\ BundledFor
    /\ RecutIsQuiet

-----------------------------------------------------------------------------
(* What a member loads is what its table would have built *)

LEMMA Names2 ==
    /\ TableName # DSName /\ TableName # Unset /\ DSName # Unset
BY PinningAssumption

LEMMA SourceIsOne ==
    ASSUME NEW table \in ProviderTables
    PROVE  \/ table.source = "openapi" \/ table.source = "smithy"
           \/ table.source = "discovery_docs" \/ table.source = "cloudformation"
BY DEF ProviderTables, Sources

LEMMA WireNameIsSet ==
    ASSUME NEW table \in ProviderTables
    PROVE  /\ WireName(TableName, table) # Unset
           /\ WireName(TableName, table) \in Nat \cup {TableName, DSName}
<1>1. table.wireName \in Nat
  BY DEF ProviderTables
<1> QED
  BY <1>1, Names2 DEF WireName

\* The fields of what a live process serves.
LEMMA LiveOpenAPIServes ==
    ASSUME NEW table, NEW doc
    PROVE  LET wire == WireName(TableName, table)
               read == Loaded(doc, table.redocly)
               resources == LiveResources(table,
                               Resources(read, wire, Unset, table.timeouts, table.resources))
               live == LiveOpenAPI(table, doc)
           IN  /\ (live.refuses <=> ~table.dataSources /\ resources = {})
               /\ live.resources = resources
               /\ live.dataSources = DataSources(read, wire, Unset, Unset)
               /\ live.client = {Client(table, Unset) : r \in resources}
               /\ live.signals = resources
               /\ live.namespaces = IF table.namespaceFromTags /\ ~table.dataSources
                                    THEN resources \cup DataSources(read, wire, Unset, Unset)
                                    ELSE {}
BY Zenon DEF LiveOpenAPI

LEMMA LiveSmithyServes ==
    ASSUME NEW table, NEW doc
    PROVE  LET wire == WireName(TableName, table)
               resources == LiveResources(table, Resources(doc, wire, Unset, Unset, Unset))
               live == LiveSmithy(table, doc)
           IN  /\ (~live.refuses => table.dataSources \/ resources # {})
               /\ live.resources = resources
               /\ live.dataSources = DataSources(doc, wire, Unset, table.namespace)
               /\ live.client = {Client(table, table.targetPrefix) : r \in resources}
               /\ live.signals = {}
               /\ live.namespaces = {}
BY Zenon DEF LiveSmithy

LEMMA LiveDiscoveryDocServes ==
    ASSUME NEW table, NEW doc
    PROVE  LET resources == LiveResources(table,
                               Resources(doc, TableName, table.versionQualifier, Unset, Unset))
               live == LiveDiscoveryDoc(table, doc)
           IN  /\ (live.refuses <=> ~table.dataSources /\ resources = {})
               /\ live.resources = resources
               /\ live.dataSources = DataSources(doc, WireName(TableName, table),
                                                 table.versionQualifier, Unset)
               /\ live.client = {}
               /\ live.signals = resources
               /\ live.namespaces = {}
BY Zenon DEF LiveDiscoveryDoc

LEMMA LiveCloudFormationServes ==
    ASSUME NEW table, NEW doc
    PROVE  LET resources == Resources(doc, Unset, Unset, Unset, Unset)
               live == LiveCloudFormation(table, doc)
           IN  /\ (live.refuses <=> resources = {})
               /\ live.resources = resources
               /\ live.dataSources = {}
               /\ live.client = {Client(table, Unset)}
               /\ live.signals = {}
               /\ live.namespaces = {}
BY Zenon DEF LiveCloudFormation

LEMMA LiveBySource ==
    ASSUME NEW table, NEW doc
    PROVE  /\ (table.source = "openapi" => Live(table, doc) = LiveOpenAPI(table, doc))
           /\ (table.source = "smithy" => Live(table, doc) = LiveSmithy(table, doc))
           /\ (table.source = "discovery_docs" => Live(table, doc) = LiveDiscoveryDoc(table, doc))
           /\ (table.source = "cloudformation" => Live(table, doc) = LiveCloudFormation(table, doc))
BY DEF Live

LEMMA LoadBySource ==
    ASSUME NEW n, NEW m
    PROVE  /\ (m.source = "openapi" => LoadMember(n, m) = LoadOpenAPIMember(n, m))
           /\ (m.source = "smithy" => LoadMember(n, m) = LoadSmithyMember(n, m))
           /\ (m.source = "discovery_docs" => LoadMember(n, m) = LoadDiscoveryDocMember(n, m))
           /\ (m.source = "cloudformation" => LoadMember(n, m) = LoadCloudFormationMember(n, m))
BY DEF LoadMember

\* A member's mode and name.
LEMMA ModeOfMember ==
    ASSUME NEW table \in ProviderTables, Valid(table), NEW n, NEW mode, IsMemberOf(table, n, mode)
    PROVE  /\ n \in {TableName, DSName} /\ mode \in {"resource", "data_source"}
           /\ (mode = "resource" => n = TableName /\ ~table.dataSources)
           /\ (mode = "data_source" => n = IF table.dataSources THEN TableName ELSE DSName)
           /\ (table.source = "cloudformation" => mode = "resource" /\ ~table.dataSources)
<1>1. table.dataSources \in BOOLEAN
  BY DEF ProviderTables
<1>2. table.source = "cloudformation" => ~table.dataSources
  BY DEF Valid
<1> QED
  BY <1>1, <1>2 DEF IsMemberOf

\* What is asked of a member for it to serve what its table would have.
LoadsWell(m, table, fetched, how) ==
    /\ NoOverrides(table)
    /\ NoRedocly(table) \/ how = "cut"
    /\ ~m.document.misread
    /\ table.source = "openapi" => SingleFile(fetched.text)

LEMMA MemberServes ==
    ASSUME NEW n, NEW m, NEW table, NEW fetched, NEW how,
           MemberFits(n, m, table, fetched, how), LoadsWell(m, table, fetched, how)
    PROVE  /\ (m.mode = "resource" => LoadMember(n, m) = Live(table, fetched).resources)
           /\ (m.mode = "data_source" => LoadMember(n, m) = Live(table, fetched).dataSources)
<1>1. /\ table \in ProviderTables /\ Valid(table) /\ IsMemberOf(table, n, m.mode)
      /\ m.source = table.source
      /\ m.timeouts = table.timeouts
      /\ m.wireName = Given(table.source # "cloudformation", WireName(TableName, table))
      /\ m.namespace = Given(table.source = "smithy", table.namespace)
      /\ m.versionQualifier = Given(table.source = "discovery_docs", table.versionQualifier)
      /\ (table.source # "openapi" => m.document = fetched)
      /\ (table.source = "openapi" => m.document = Loaded(fetched, table.redocly))
  BY DEF MemberFits, LoadsWell, IsBundled
<1>2. /\ (m.mode = "resource" => n = TableName /\ ~table.dataSources)
      /\ m.mode \in {"resource", "data_source"}
      /\ (table.source = "cloudformation" => m.mode = "resource")
  BY <1>1, ModeOfMember
<1> DEFINE wire == WireName(TableName, table)
<1>3. table.source # "cloudformation" => WireName(n, m) = wire
  <2>1. wire # Unset
    BY <1>1, WireNameIsSet
  <2> HIDE DEF wire
  <2>2. table.source # "cloudformation" => m.wireName = wire
    BY <1>1 DEF Given, wire
  <2> QED
    BY <2>1, <2>2 DEF WireName
<1> HIDE DEF wire
<1>4. \A built : m.mode = "resource" => LiveResources(table, built) = built
  BY <1>2 DEF LiveResources
<1>5. CASE table.source = "openapi"
  <2>1. LoadMember(n, m) = LoadOpenAPIMember(n, m) /\ Live(table, fetched) = LiveOpenAPI(table, fetched)
    BY <1>1, <1>5, LoadBySource, LiveBySource
  <2>2. WireName(n, m) = wire /\ m.document = Loaded(fetched, table.redocly)
        /\ table.resources = Unset
    BY <1>1, <1>3, <1>5 DEF LoadsWell, NoOverrides
  <2>3. m.mode = "resource" =>
           LoadOpenAPIMember(n, m)
             = Resources(Loaded(fetched, table.redocly), wire, Unset, table.timeouts, table.resources)
    BY <1>1, <2>2 DEF LoadOpenAPIMember
  <2>4. m.mode = "data_source" =>
           LoadOpenAPIMember(n, m) = DataSources(Loaded(fetched, table.redocly), wire, Unset, Unset)
    BY <2>2 DEF LoadOpenAPIMember
  <2> QED
    BY <1>4, <2>1, <2>3, <2>4, LiveOpenAPIServes DEF wire
<1>6. CASE table.source = "smithy"
  <2>1. LoadMember(n, m) = LoadSmithyMember(n, m) /\ Live(table, fetched) = LiveSmithy(table, fetched)
    BY <1>1, <1>6, LoadBySource, LiveBySource
  <2>2. WireName(n, m) = wire /\ m.document = fetched /\ m.namespace = table.namespace
    BY <1>1, <1>3, <1>6 DEF Given
  <2>3. m.mode = "resource" =>
           LoadSmithyMember(n, m) = Resources(fetched, wire, Unset, Unset, Unset)
    BY <2>2 DEF LoadSmithyMember
  <2>4. m.mode = "data_source" =>
           LoadSmithyMember(n, m) = DataSources(fetched, wire, Unset, table.namespace)
    BY <2>2 DEF LoadSmithyMember
  <2> QED
    BY <1>4, <2>1, <2>3, <2>4, LiveSmithyServes DEF wire
<1>7. CASE table.source = "discovery_docs"
  <2>1. /\ LoadMember(n, m) = LoadDiscoveryDocMember(n, m)
        /\ Live(table, fetched) = LiveDiscoveryDoc(table, fetched)
    BY <1>1, <1>7, LoadBySource, LiveBySource
  <2>2. WireName(n, m) = wire /\ m.document = fetched
        /\ m.versionQualifier = table.versionQualifier
    BY <1>1, <1>3, <1>7 DEF Given
  <2>3. m.mode = "resource" =>
           LoadDiscoveryDocMember(n, m)
             = Resources(fetched, TableName, table.versionQualifier, Unset, Unset)
    BY <1>2, <2>2 DEF LoadDiscoveryDocMember
  <2>4. m.mode = "data_source" =>
           LoadDiscoveryDocMember(n, m)
             = DataSources(fetched, wire, table.versionQualifier, Unset)
    BY <2>2 DEF LoadDiscoveryDocMember
  <2> QED
    BY <1>4, <2>1, <2>3, <2>4, LiveDiscoveryDocServes DEF wire
<1>8. CASE table.source = "cloudformation"
  <2>1. /\ LoadMember(n, m) = LoadCloudFormationMember(n, m)
        /\ Live(table, fetched) = LiveCloudFormation(table, fetched)
    BY <1>1, <1>8, LoadBySource, LiveBySource
  <2>2. m.document = fetched /\ m.mode = "resource"
    BY <1>1, <1>2, <1>8
  <2> QED
    BY <2>1, <2>2, LiveCloudFormationServes DEF LoadCloudFormationMember
<1> QED
  BY <1>1, <1>5, <1>6, <1>7, <1>8, SourceIsOne

-----------------------------------------------------------------------------
(* A process on the snapshot serves what a process on the table would have *)

LEMMA PinnedServes ==
    /\ Pinned.refuses = Server.refuses
    /\ Pinned.resources = Merged("resource")
    /\ Pinned.dataSources = Merged("data_source")
    /\ Pinned.client = Server.client
    /\ Pinned.signals = DumpedSignals
    /\ Pinned.namespaces = DumpedNamespaces
BY Zenon DEF Pinned

\* The members of a snapshot are of one table.
LEMMA MembersOfOneTable ==
    ASSUME SnapFits, NEW n \in DOMAIN snap, NEW k \in DOMAIN snap
    PROVE  /\ MemberFits(k, snap[k], origin[n].table, origin[k].fetched, outcome.run)
           /\ snap[k].source = origin[n].table.source
           /\ snap[k].namespaceFromTags = origin[n].table.namespaceFromTags
           /\ snap[k].mode \in {"resource", "data_source"}
           /\ (snap[k].mode = "resource" => k = TableName /\ ~origin[n].table.dataSources)
           /\ (snap[k].mode = "data_source"
                 => k = IF origin[n].table.dataSources THEN TableName ELSE DSName)
<1>1. MemberFits(k, snap[k], origin[k].table, origin[k].fetched, outcome.run)
  BY Zenon DEF SnapFits
<1>2. origin[n].table = origin[k].table
  BY Zenon DEF SnapFits
<1>3. MemberFits(k, snap[k], origin[n].table, origin[k].fetched, outcome.run)
  BY <1>1, <1>2, Zenon
<1> QED
  BY <1>3, ModeOfMember DEF MemberFits

LEMMA ServerBySource ==
    ASSUME SnapFits, NEW n \in DOMAIN snap
    PROVE  LET source == origin[n].table.source
           IN  /\ (source = "openapi" => Server = OpenAPIServer)
               /\ (source = "smithy" => Server = SmithyServer)
               /\ (source = "discovery_docs" => Server = DiscoveryDocServer)
               /\ (source = "cloudformation" => Server = CloudFormationServer)
<1> DEFINE one == CHOOSE m \in Range(snap) : TRUE
           source == origin[n].table.source
<1>1. snap[n] \in Range(snap)
  BY DEF Range
<1>2. one \in Range(snap)
  BY <1>1, Zenon
<1> HIDE DEF one
<1>3. PICK k \in DOMAIN snap : one = snap[k]
  BY <1>2 DEF Range
<1>4. one.source = source
  BY <1>3, MembersOfOneTable
<1> HIDE DEF source
<1>5. Server = CASE one.source = "openapi" -> OpenAPIServer
                 [] one.source = "discovery_docs" -> DiscoveryDocServer
                 [] one.source = "cloudformation" -> CloudFormationServer
                 [] one.source = "smithy" -> SmithyServer
  BY Zenon DEF Server, one
<1> QED
  BY <1>4, <1>5 DEF source

LEMMA ServersServe ==
    /\ (OpenAPIServer.refuses <=> NothingToServe) /\ OpenAPIServer.client = MemberClient(FALSE)
    /\ (SmithyServer.refuses <=> NothingToServe) /\ SmithyServer.client = MemberClient(TRUE)
    /\ (DiscoveryDocServer.refuses <=> NothingToServe) /\ DiscoveryDocServer.client = {}
    /\ (CloudFormationServer.refuses <=> Merged("resource") = {})
    /\ CloudFormationServer.client = MemberClient(FALSE)
BY Zenon DEF OpenAPIServer, SmithyServer, DiscoveryDocServer, CloudFormationServer

\* The one resource member is all there is of resources.
LEMMA OneResourceMember ==
    ASSUME SnapFits, NEW n \in DOMAIN snap, snap[n].mode = "resource"
    PROVE  /\ Merged("resource") = LoadMember(n, snap[n])
           /\ \A prefixed : MemberClient(prefixed)
                 = {Client(snap[n], Given(prefixed, snap[n].targetPrefix)) : r \in LoadMember(n, snap[n])}
<1>1. n = TableName
  BY MembersOfOneTable
<1>2. \A k \in DOMAIN snap : snap[k].mode = "resource" => k = n
  BY <1>1, MembersOfOneTable
<1>3. OfMode("resource") = {n}
  BY <1>2 DEF OfMode
<1>4. Merged("resource") = LoadMember(n, snap[n])
  BY <1>3 DEF Merged
<1>5. ASSUME NEW prefixed
      PROVE  MemberClient(prefixed)
                = {Client(snap[n], Given(prefixed, snap[n].targetPrefix)) : r \in LoadMember(n, snap[n])}
  <2> DEFINE C(k) == {Client(snap[k], Given(prefixed, snap[k].targetPrefix)) :
                         r \in LoadMember(k, snap[k])}
  <2>1. MemberClient(prefixed) = UNION {C(k) : k \in {n}}
    BY <1>3, Zenon DEF MemberClient
  <2> HIDE DEF C
  <2>2. UNION {C(k) : k \in {n}} = C(n)
    OBVIOUS
  <2> QED
    BY <2>1, <2>2 DEF C
<1> QED
  BY <1>4, <1>5

\* ... and there is one member of data sources.
LEMMA OneDataSourceMember ==
    ASSUME SnapFits, NEW n \in DOMAIN snap, snap[n].mode = "data_source"
    PROVE  Merged("data_source") = LoadMember(n, snap[n])
<1>1. \A k \in DOMAIN snap : snap[k].mode = "data_source" => k = n
  BY MembersOfOneTable
<1>2. OfMode("data_source") = {n}
  BY <1>1 DEF OfMode
<1> QED
  BY <1>2 DEF Merged

\* What the member of resources gives a process on the snapshot.
LEMMA ResourcesArePinned ==
    ASSUME SnapFits, NEW n \in DOMAIN snap, snap[n].mode = "resource",
           LoadsWell(snap[n], origin[n].table, origin[n].fetched, outcome.run),
           ~Live(origin[n].table, origin[n].fetched).refuses
    PROVE  LET live == Live(origin[n].table, origin[n].fetched)
           IN  /\ ~Pinned.refuses
               /\ Pinned.resources = live.resources
               /\ Pinned.client = live.client
               /\ Pinned.signals = live.signals
<1> DEFINE table == origin[n].table
           fetched == origin[n].fetched
           live == Live(table, fetched)
           m == snap[n]
<1>1. /\ MemberFits(n, m, table, fetched, outcome.run)
      /\ m.source = table.source /\ ~table.dataSources
      /\ \A k \in DOMAIN snap : snap[k].source = table.source
  BY MembersOfOneTable
<1>2. /\ table \in ProviderTables
      /\ m.execution = table.execution
      /\ m.targetPrefix = Given(table.source = "smithy", table.targetPrefix)
  BY <1>1 DEF MemberFits
<1>3. LoadMember(n, m) = live.resources
  BY <1>1, MemberServes
<1>4. Merged("resource") = live.resources
  BY <1>3, OneResourceMember
<1>5. \A prefixed : MemberClient(prefixed)
         = {Client(m, Given(prefixed, m.targetPrefix)) : r \in live.resources}
  BY <1>3, OneResourceMember
<1>6. \A prefix : Client(m, prefix) = Client(table, prefix)
  BY <1>2 DEF Client
<1>7. n \in DOMAIN snap /\ \A k \in DOMAIN snap : snap[k].source = table.source
  BY <1>1
<1> HIDE DEF table, fetched, live, m
<1>8. \A prefixed : MemberClient(prefixed)
         = {Client(table, Given(prefixed, m.targetPrefix)) : r \in live.resources}
  BY <1>5, <1>6
<1>9. ~live.refuses
  BY DEF live, table, fetched
<1>10. \A built : LiveResources(table, built) = built
  BY <1>1 DEF LiveResources
<1>11. /\ Pinned.resources = live.resources /\ Pinned.client = Server.client
       /\ Pinned.signals = DumpedSignals /\ Pinned.refuses = Server.refuses
       /\ (live.resources # {} => ~NothingToServe)
  BY <1>4, PinnedServes DEF NothingToServe
<1>12. CASE table.source = "openapi"
  <2>1. live = LiveOpenAPI(table, fetched) /\ Server = OpenAPIServer
    BY <1>12, LiveBySource, ServerBySource DEF live, table
  <2>2. live.resources # {} /\ live.signals = live.resources
        /\ live.client = {Client(table, Unset) : r \in live.resources}
    BY <1>1, <1>9, <2>1, LiveOpenAPIServes
  <2>3. Pinned.client = {Client(table, Unset) : r \in live.resources}
    <3>1. Given(FALSE, m.targetPrefix) = Unset
      BY DEF Given
    <3>2. Server.client = MemberClient(FALSE)
      BY <2>1, ServersServe
    <3> QED
      BY <1>8, <1>11, <3>1, <3>2
  <2>4. ~Pinned.refuses
    BY <1>11, <2>1, <2>2, ServersServe
  <2>5. DumpedSignals = Merged("resource")
    BY <1>7, <1>12 DEF DumpedSignals
  <2> QED
    BY <1>4, <1>11, <2>2, <2>3, <2>4, <2>5 DEF live, table, fetched
<1>13. CASE table.source = "smithy"
  <2>1. live = LiveSmithy(table, fetched) /\ Server = SmithyServer
    BY <1>13, LiveBySource, ServerBySource DEF live, table
  <2>2. live.resources # {} /\ live.signals = {}
        /\ live.client = {Client(table, table.targetPrefix) : r \in live.resources}
    BY <1>1, <1>9, <2>1, LiveSmithyServes
  <2>3. Pinned.client = {Client(table, table.targetPrefix) : r \in live.resources}
    <3>1. Given(TRUE, m.targetPrefix) = table.targetPrefix
      BY <1>2, <1>13 DEF Given
    <3>2. Server.client = MemberClient(TRUE)
      BY <2>1, ServersServe
    <3> QED
      BY <1>8, <1>11, <3>1, <3>2
  <2>4. ~Pinned.refuses
    BY <1>11, <2>1, <2>2, ServersServe
  <2>5. DumpedSignals = {}
    BY <1>7, <1>13 DEF DumpedSignals
  <2> QED
    BY <1>11, <2>2, <2>3, <2>4, <2>5 DEF live, table, fetched
<1>14. CASE table.source = "discovery_docs"
  <2>1. live = LiveDiscoveryDoc(table, fetched) /\ Server = DiscoveryDocServer
    BY <1>14, LiveBySource, ServerBySource DEF live, table
  <2>2. live.resources # {} /\ live.signals = live.resources /\ live.client = {}
    BY <1>1, <1>9, <2>1, LiveDiscoveryDocServes
  <2>3. Pinned.client = {}
    BY <1>11, <2>1, ServersServe
  <2>4. ~Pinned.refuses
    BY <1>11, <2>1, <2>2, ServersServe
  <2>5. DumpedSignals = Merged("resource")
    BY <1>7, <1>14 DEF DumpedSignals
  <2> QED
    BY <1>4, <1>11, <2>2, <2>3, <2>4, <2>5 DEF live, table, fetched
<1>15. CASE table.source = "cloudformation"
  <2>1. live = LiveCloudFormation(table, fetched) /\ Server = CloudFormationServer
    BY <1>15, LiveBySource, ServerBySource DEF live, table
  <2>2. live.resources # {} /\ live.signals = {} /\ live.client = {Client(table, Unset)}
    BY <1>1, <1>9, <2>1, LiveCloudFormationServes
  <2>3. Pinned.client = {Client(table, Unset)}
    <3>1. Given(FALSE, m.targetPrefix) = Unset
      BY DEF Given
    <3>2. Server.client = MemberClient(FALSE)
      BY <2>1, ServersServe
    <3>3. Server.client = {Client(table, Unset) : r \in live.resources}
      BY <1>8, <3>1, <3>2
    <3>4. {Client(table, Unset) : r \in live.resources} = {Client(table, Unset)}
      BY <2>2
    <3> QED
      BY <1>11, <3>3, <3>4
  <2>4. ~Pinned.refuses
    BY <1>4, <1>11, <2>1, <2>2, ServersServe
  <2>5. DumpedSignals = {}
    BY <1>7, <1>15 DEF DumpedSignals
  <2> QED
    BY <1>11, <2>2, <2>3, <2>4, <2>5 DEF live, table, fetched
<1> QED
  BY <1>2, <1>12, <1>13, <1>14, <1>15, SourceIsOne

\* What a member lists is in the namespaces it would have been in.
LEMMA NamespacesArePinned ==
    ASSUME SnapFits, NEW n \in DOMAIN snap,
           LoadsWell(snap[n], origin[n].table, origin[n].fetched, outcome.run),
           NoLoneTags(origin[n].table)
    PROVE  LoadMember(n, snap[n]) \cap Pinned.namespaces
              = LoadMember(n, snap[n]) \cap Live(origin[n].table, origin[n].fetched).namespaces
<1> DEFINE table == origin[n].table
           fetched == origin[n].fetched
           live == Live(table, fetched)
           mine == LoadMember(n, snap[n])
<1>1. /\ MemberFits(n, snap[n], table, fetched, outcome.run)
      /\ \A k \in DOMAIN snap : snap[k].namespaceFromTags = table.namespaceFromTags
      /\ snap[n].mode \in {"resource", "data_source"}
  BY MembersOfOneTable
<1>2. table \in ProviderTables /\ Valid(table)
  BY <1>1 DEF MemberFits
<1>3. Pinned.namespaces = DumpedNamespaces
  BY PinnedServes
<1>4. /\ (snap[n].mode = "resource" => mine = live.resources)
      /\ (snap[n].mode = "data_source" => mine = live.dataSources)
  BY <1>1, MemberServes
<1> HIDE DEF table, fetched, live
<1>5. table.namespaceFromTags \in BOOLEAN
  BY <1>2 DEF ProviderTables
<1>6. CASE table.namespaceFromTags
  <2>1. mine \subseteq DumpedNamespaces
    BY <1>1, <1>6 DEF DumpedNamespaces
  <2>2. table.source = "openapi" /\ ~table.dataSources
    BY <1>2, <1>6 DEF Valid, NoLoneTags, table
  <2>3. live.namespaces = live.resources \cup live.dataSources
    <3>1. live = LiveOpenAPI(table, fetched)
      BY <2>2, LiveBySource DEF live
    <3> QED
      BY <1>6, <2>2, <3>1, LiveOpenAPIServes
  <2>4. mine \subseteq live.namespaces
    BY <1>1, <1>4, <2>3
  <2> QED
    BY <1>3, <2>1, <2>4 DEF live, table, fetched
<1>7. CASE ~table.namespaceFromTags
  <2>1. DumpedNamespaces = {}
    BY <1>1, <1>7 DEF DumpedNamespaces
  <2>2. live.namespaces = {}
    <3>1. CASE table.source = "openapi"
      <4>1. live = LiveOpenAPI(table, fetched)
        BY <3>1, LiveBySource DEF live
      <4> QED
        BY <1>7, <4>1, LiveOpenAPIServes
    <3>2. CASE table.source = "smithy"
      <4>1. live = LiveSmithy(table, fetched)
        BY <3>2, LiveBySource DEF live
      <4> QED
        BY <4>1, LiveSmithyServes
    <3>3. CASE table.source = "discovery_docs"
      <4>1. live = LiveDiscoveryDoc(table, fetched)
        BY <3>3, LiveBySource DEF live
      <4> QED
        BY <4>1, LiveDiscoveryDocServes
    <3>4. CASE table.source = "cloudformation"
      <4>1. live = LiveCloudFormation(table, fetched)
        BY <3>4, LiveBySource DEF live
      <4> QED
        BY <4>1, LiveCloudFormationServes
    <3> QED
      BY <1>2, <3>1, <3>2, <3>3, <3>4, SourceIsOne
  <2> QED
    BY <1>3, <2>1, <2>2 DEF live, table, fetched
<1> QED
  BY <1>5, <1>6, <1>7

LEMMA SnapIsTheTable == SnapFits => PinnedIsTheTable
<1> SUFFICES ASSUME SnapFits, NEW n \in DOMAIN snap,
                    NoOverrides(origin[n].table),
                    NoRedocly(origin[n].table) \/ outcome.run = "cut",
                    WellRead(n), InOneFile(n),
                    ~Live(origin[n].table, origin[n].fetched).refuses
             PROVE  LET table == origin[n].table
                        live == Live(table, origin[n].fetched)
                    IN  /\ snap[n].mode = "resource" =>
                              /\ ~Pinned.refuses
                              /\ Pinned.resources = live.resources
                              /\ Pinned.client = live.client
                              /\ Pinned.signals = live.signals
                        /\ snap[n].mode = "data_source" => Pinned.dataSources = live.dataSources
                        /\ NoLoneTags(table) =>
                              LoadMember(n, snap[n]) \cap Pinned.namespaces
                                 = LoadMember(n, snap[n]) \cap live.namespaces
  BY Zenon DEF PinnedIsTheTable
<1>1. LoadsWell(snap[n], origin[n].table, origin[n].fetched, outcome.run)
  BY DEF LoadsWell, WellRead, InOneFile
<1>2. ASSUME snap[n].mode = "resource"
      PROVE  /\ ~Pinned.refuses
             /\ Pinned.resources = Live(origin[n].table, origin[n].fetched).resources
             /\ Pinned.client = Live(origin[n].table, origin[n].fetched).client
             /\ Pinned.signals = Live(origin[n].table, origin[n].fetched).signals
  BY <1>1, <1>2, ResourcesArePinned
<1>3. ASSUME snap[n].mode = "data_source"
      PROVE  Pinned.dataSources = Live(origin[n].table, origin[n].fetched).dataSources
  <2>1. MemberFits(n, snap[n], origin[n].table, origin[n].fetched, outcome.run)
    BY MembersOfOneTable
  <2>2. Merged("data_source") = LoadMember(n, snap[n])
    BY <1>3, OneDataSourceMember
  <2> QED
    BY <1>1, <1>3, <2>1, <2>2, MemberServes, PinnedServes
<1>4. ASSUME NoLoneTags(origin[n].table)
      PROVE  LoadMember(n, snap[n]) \cap Pinned.namespaces
                = LoadMember(n, snap[n]) \cap Live(origin[n].table, origin[n].fetched).namespaces
  BY <1>1, <1>4, NamespacesArePinned
<1> QED
  BY <1>2, <1>3, <1>4, Zenon

-----------------------------------------------------------------------------
(* What a member is made of *)

LEMMA TableParts ==
    ASSUME NEW table \in ProviderTables
    PROVE  /\ table.source \in Sources
           /\ table.dataSources \in BOOLEAN /\ table.redocly \in BOOLEAN
           /\ table.namespaceFromTags \in BOOLEAN
           /\ table.wireName \in Nat /\ table.execution \in Nat /\ table.timeouts \in Nat
           /\ table.resources \in Nat /\ table.targetPrefix \in Nat
           /\ table.versionQualifier \in Nat /\ table.namespace \in Nat
           /\ table = [ source |-> table.source, dataSources |-> table.dataSources,
                        redocly |-> table.redocly,
                        namespaceFromTags |-> table.namespaceFromTags,
                        wireName |-> table.wireName, execution |-> table.execution,
                        timeouts |-> table.timeouts, resources |-> table.resources,
                        targetPrefix |-> table.targetPrefix,
                        versionQualifier |-> table.versionQualifier,
                        namespace |-> table.namespace ]
BY DEF ProviderTables

LEMMA TableAsConfig ==
    ASSUME NEW table \in ProviderTables, Valid(table),
           NEW c, c = [table EXCEPT !.wireName = WireName(TableName, table)]
    PROVE  c \in Configs /\ ConfigFits(c, table, "cut")
<1> DEFINE wire == WireName(TableName, table)
<1>1. wire \in Nat \cup {TableName, DSName}
  BY WireNameIsSet
<1> HIDE DEF wire
<1>2. c = [ source |-> table.source, dataSources |-> table.dataSources,
            redocly |-> table.redocly, namespaceFromTags |-> table.namespaceFromTags,
            wireName |-> wire, execution |-> table.execution, timeouts |-> table.timeouts,
            resources |-> table.resources, targetPrefix |-> table.targetPrefix,
            versionQualifier |-> table.versionQualifier, namespace |-> table.namespace ]
  BY TableParts DEF wire
<1>3. c \in Configs
  BY <1>1, <1>2, TableParts DEF Configs
<1>4. ConfigFits(c, table, "cut")
  BY <1>2, TableParts DEF ConfigFits, wire
<1> QED
  BY <1>3, <1>4

LEMMA MemberAsConfig ==
    ASSUME SnapFits, NEW n \in DOMAIN snap
    PROVE  /\ ConfigOf(n) \in Configs
           /\ ConfigFits(ConfigOf(n), origin[n].table, "recut")
<1> DEFINE table == origin[n].table
           m == snap[n]
           c == ConfigOf(n)
<1>1. MemberFits(n, m, table, origin[n].fetched, outcome.run) /\ n \in {TableName, DSName}
  BY Zenon DEF SnapFits
<1>2. /\ table \in ProviderTables /\ Valid(table)
      /\ m.source = table.source
      /\ m.namespaceFromTags = table.namespaceFromTags
      /\ m.execution = table.execution /\ m.timeouts = table.timeouts
      /\ m.resources = table.resources
      /\ m.wireName = Given(table.source # "cloudformation", WireName(TableName, table))
      /\ m.targetPrefix = Given(table.source = "smithy", table.targetPrefix)
      /\ m.namespace = Given(table.source = "smithy", table.namespace)
      /\ m.versionQualifier = Given(table.source = "discovery_docs", table.versionQualifier)
  BY <1>1 DEF MemberFits
<1>3. c = [ source |-> m.source, dataSources |-> FALSE, redocly |-> FALSE,
            namespaceFromTags |-> m.namespaceFromTags, wireName |-> WireName(n, m),
            execution |-> m.execution, timeouts |-> m.timeouts, resources |-> m.resources,
            targetPrefix |-> m.targetPrefix, versionQualifier |-> m.versionQualifier,
            namespace |-> m.namespace ]
  BY Zenon DEF ConfigOf
<1> HIDE DEF table, m, c
<1>4. /\ WireName(n, m) \in Nat \cup {TableName, DSName}
      /\ (table.source # "cloudformation" => WireName(n, m) = WireName(TableName, table))
  <2>1. WireName(TableName, table) # Unset
        /\ WireName(TableName, table) \in Nat \cup {TableName, DSName}
    BY <1>2, WireNameIsSet
  <2>2. CASE table.source # "cloudformation"
    <3>1. m.wireName = WireName(TableName, table)
      BY <1>2, <2>2 DEF Given
    <3>2. WireName(n, m) = m.wireName
      BY <2>1, <3>1 DEF WireName
    <3> QED
      BY <2>1, <3>1, <3>2
  <2>3. CASE table.source = "cloudformation"
    <3>1. m.wireName = Unset
      BY <1>2, <2>3 DEF Given
    <3>2. WireName(n, m) = n
      BY <3>1 DEF WireName
    <3> QED
      BY <1>1, <2>3, <3>2
  <2> QED
    BY <2>2, <2>3
<1>5. m.targetPrefix \in Nat /\ m.namespace \in Nat /\ m.versionQualifier \in Nat
  BY <1>2, TableParts DEF Given, Unset
<1>6. c \in Configs
  BY <1>2, <1>3, <1>4, <1>5, TableParts DEF Configs
<1>7. ConfigFits(c, table, "recut")
  BY <1>2, <1>3, <1>4 DEF ConfigFits, Given
<1> QED
  BY <1>6, <1>7 DEF c, table

\* The document a member keeps.
Keeps(source, table, fetched, how, written) ==
    /\ (source # "openapi" => written = fetched)
    /\ (source = "openapi" /\ (NoRedocly(table) \/ how = "cut") /\ ~written.misread
          => IsBundled(written, fetched, Loaded(fetched, table.redocly)))

LEMMA MemberOfJob ==
    ASSUME NEW job \in Jobs, NEW how, JobFits(job, how), NEW fetched, NEW written,
           Keeps(job.config.source, job.table, fetched, how, written)
    PROVE  MemberFits(job.name, Member(job, written), job.table, fetched, how)
<1> DEFINE table == job.table
           c == job.config
           m == Member(job, written)
           kept == MemberSettings(c.source)
<1>1. /\ table \in ProviderTables /\ IsMemberOf(table, job.name, job.mode)
      /\ ConfigFits(c, table, how)
  BY DEF Jobs, JobFits
<1>2. m = [ source |-> c.source, mode |-> job.mode, document |-> written,
            namespaceFromTags |-> c.namespaceFromTags,
            wireName |-> Given("wireName" \in kept, c.wireName),
            execution |-> Given("execution" \in kept, c.execution),
            timeouts |-> Given("timeouts" \in kept, c.timeouts),
            resources |-> Given("resources" \in kept, c.resources),
            targetPrefix |-> Given("targetPrefix" \in kept, c.targetPrefix),
            versionQualifier |-> Given("versionQualifier" \in kept, c.versionQualifier),
            namespace |-> Given("namespace" \in kept, c.namespace) ]
  BY Zenon DEF Member
<1> HIDE DEF table, c, m
<1>3. /\ "execution" \in kept /\ "timeouts" \in kept /\ "resources" \in kept
      /\ (("wireName" \in kept) <=> table.source # "cloudformation")
      /\ (("targetPrefix" \in kept) <=> table.source = "smithy")
      /\ (("namespace" \in kept) <=> table.source = "smithy")
      /\ (("versionQualifier" \in kept) <=> table.source = "discovery_docs")
  <2>1. c.source = table.source
    BY <1>1 DEF ConfigFits
  <2> QED
    BY <1>1, <2>1, SourceIsOne DEF MemberSettings, CloudFormationSettings, OpenAPISettings,
       SmithySettings, DiscoveryDocSettings
<1> HIDE DEF kept
<1>4. /\ m.source = table.source /\ m.mode = job.mode /\ m.document = written
      /\ m.namespaceFromTags = table.namespaceFromTags
      /\ m.execution = table.execution /\ m.timeouts = table.timeouts
      /\ m.resources = table.resources
  BY <1>1, <1>2, <1>3 DEF ConfigFits, Given
<1>5. /\ m.wireName = Given(table.source # "cloudformation", WireName(TableName, table))
      /\ m.targetPrefix = Given(table.source = "smithy", table.targetPrefix)
      /\ m.namespace = Given(table.source = "smithy", table.namespace)
      /\ m.versionQualifier = Given(table.source = "discovery_docs", table.versionQualifier)
  BY <1>1, <1>2, <1>3 DEF ConfigFits, Given
<1>6. /\ (table.source # "openapi" => m.document = fetched)
      /\ (table.source = "openapi" /\ (NoRedocly(table) \/ how = "cut") /\ ~m.document.misread
            => IsBundled(m.document, fetched, Loaded(fetched, table.redocly)))
  <2>1. c.source = table.source
    BY <1>1 DEF ConfigFits
  <2> QED
    BY <1>4, <2>1 DEF Keeps, c, table
<1>7. MemberFits(job.name, m, table, fetched, how)
  <2>1. Valid(table)
    BY <1>1 DEF ConfigFits
  <2> QED
    BY <1>1, <1>4, <1>5, <1>6, <2>1 DEF MemberFits
<1> QED
  BY <1>7 DEF m, table

-----------------------------------------------------------------------------
(* A member that is cut again of what it had been cut of has not changed *)

ResourceSchemas(doc, name, qualifier) ==
    {[document |-> doc, create |-> c, name |-> name, qualifier |-> qualifier] :
        c \in {x \in Creates(doc) : doc.resources}}

LEMMA SchemasOfResources ==
    ASSUME NEW doc, NEW name, NEW qualifier, NEW timeouts, NEW overrides
    PROVE  Schemas(Resources(doc, name, qualifier, timeouts, overrides))
             = ResourceSchemas(doc, name, qualifier)
<1> DEFINE S(c) == [document |-> doc, create |-> c, name |-> name, qualifier |-> qualifier]
           R(c) == [schema |-> S(c), timeouts |-> timeouts, overrides |-> overrides]
           C == {x \in Creates(doc) : doc.resources}
<1>1. Resources(doc, name, qualifier, timeouts, overrides) = {R(c) : c \in C}
  BY Zenon DEF Resources
<1>2. \A c : R(c).schema = S(c)
  OBVIOUS
<1>3. ResourceSchemas(doc, name, qualifier) = {S(c) : c \in C}
  BY Zenon DEF ResourceSchemas
<1> HIDE DEF R, S, C
<1>4. {x.schema : x \in {R(c) : c \in C}} = {S(c) : c \in C}
  BY <1>2
<1> QED
  BY <1>1, <1>3, <1>4 DEF Schemas

\* The schemas a member gives are those its table's member gave.
LEMMA SchemasAgain ==
    ASSUME NEW job \in Jobs, NEW m, NEW fetched, NEW read, NEW how,
           ConfigFits(job.config, job.table, "recut"),
           MemberFits(job.name, m, job.table, fetched, how),
           job.mode = m.mode,
           NoRedocly(job.table), ~m.document.misread,
           job.table.source = "openapi" => NoWayBack(fetched.text),
           read = IF job.table.source = "openapi"
                  THEN [Loaded(fetched, FALSE) EXCEPT !.renamed = RefsOf(fetched.text)]
                  ELSE fetched
    PROVE  Schemas(Built(job, read)) = Schemas(LoadMember(job.name, m))
<1> DEFINE table == job.table
           c == job.config
           n == job.name
           wire == WireName(TableName, table)
<1>1. /\ table \in ProviderTables /\ Valid(table) /\ IsMemberOf(table, n, m.mode)
      /\ m.source = table.source
      /\ m.timeouts = table.timeouts
      /\ m.wireName = Given(table.source # "cloudformation", wire)
      /\ m.namespace = Given(table.source = "smithy", table.namespace)
      /\ m.versionQualifier = Given(table.source = "discovery_docs", table.versionQualifier)
  BY DEF MemberFits
<1>2. m.document = read
  <2>1. /\ (table.source # "openapi" => m.document = fetched)
        /\ (table.source = "openapi" =>
               m.document = [Loaded(fetched, table.redocly) EXCEPT !.renamed = RefsOf(fetched.text)])
    BY DEF MemberFits, IsBundled
  <2>2. table.redocly = FALSE
    BY <1>1, TableParts DEF NoRedocly
  <2> QED
    BY <2>1, <2>2
<1>3. /\ c.source = table.source
      /\ (table.source # "cloudformation" => c.wireName = wire)
      /\ (table.source = "smithy" => c.namespace = table.namespace)
      /\ (table.source = "discovery_docs" => c.versionQualifier = table.versionQualifier)
  BY DEF ConfigFits
<1>4. /\ job.mode \in {"resource", "data_source"}
      /\ (m.mode = "resource" => n = TableName)
  BY <1>1, ModeOfMember
<1>5. wire # Unset
  BY <1>1, WireNameIsSet
<1> HIDE DEF table, c, n, wire
<1>6. table.source # "cloudformation" => WireName(n, m) = wire
  BY <1>1, <1>5 DEF WireName, Given
<1>7. CASE table.source = "openapi"
  <2>1. LoadMember(n, m) = LoadOpenAPIMember(n, m) /\ Built(job, read) = OpenAPISchemas(job, read)
    BY <1>1, <1>3, <1>7, LoadBySource DEF Built, c
  <2>2. CASE job.mode = "resource"
    <3>1. /\ LoadOpenAPIMember(n, m) = Resources(read, wire, Unset, m.timeouts, Unset)
          /\ OpenAPISchemas(job, read) = Resources(read, wire, Unset, c.timeouts, c.resources)
      BY <1>2, <1>3, <1>6, <1>7, <2>2 DEF LoadOpenAPIMember, OpenAPISchemas, c
    <3>2. Schemas(Resources(read, wire, Unset, m.timeouts, Unset))
            = Schemas(Resources(read, wire, Unset, c.timeouts, c.resources))
      BY SchemasOfResources, Zenon
    <3> QED
      BY <2>1, <3>1, <3>2 DEF n
  <2>3. CASE job.mode = "data_source"
    <3>1. /\ LoadOpenAPIMember(n, m) = DataSources(read, wire, Unset, Unset)
          /\ OpenAPISchemas(job, read) = DataSources(read, wire, Unset, Unset)
      BY <1>2, <1>3, <1>6, <1>7, <2>3 DEF LoadOpenAPIMember, OpenAPISchemas, c
    <3> QED
      BY <2>1, <3>1 DEF n
  <2> QED
    BY <1>4, <2>2, <2>3
<1>8. CASE table.source = "smithy"
  <2>1. LoadMember(n, m) = LoadSmithyMember(n, m) /\ Built(job, read) = SmithySchemas(job, read)
    BY <1>1, <1>3, <1>8, LoadBySource DEF Built, c
  <2>2. CASE job.mode = "resource"
    <3>1. /\ LoadSmithyMember(n, m) = Resources(read, wire, Unset, Unset, Unset)
          /\ SmithySchemas(job, read) = Resources(read, wire, Unset, Unset, Unset)
      BY <1>2, <1>3, <1>6, <1>8, <2>2 DEF LoadSmithyMember, SmithySchemas, c
    <3> QED
      BY <2>1, <3>1 DEF n
  <2>3. CASE job.mode = "data_source"
    <3>0. m.namespace = c.namespace
      BY <1>1, <1>3, <1>8 DEF Given
    <3>1. /\ LoadSmithyMember(n, m) = DataSources(read, wire, Unset, m.namespace)
          /\ SmithySchemas(job, read) = DataSources(read, wire, Unset, c.namespace)
      BY <1>2, <1>3, <1>6, <1>8, <2>3 DEF LoadSmithyMember, SmithySchemas, c
    <3> QED
      BY <2>1, <3>0, <3>1 DEF n
  <2> QED
    BY <1>4, <2>2, <2>3
<1>9. CASE table.source = "discovery_docs"
  <2>1. /\ LoadMember(n, m) = LoadDiscoveryDocMember(n, m)
        /\ Built(job, read) = DiscoveryDocSchemas(job, read)
    BY <1>1, <1>3, <1>9, LoadBySource DEF Built, c
  <2>2. m.versionQualifier = c.versionQualifier
    BY <1>1, <1>3, <1>9 DEF Given
  <2>3. CASE job.mode = "resource"
    <3>1. /\ LoadDiscoveryDocMember(n, m) = Resources(read, n, m.versionQualifier, Unset, Unset)
          /\ DiscoveryDocSchemas(job, read) = Resources(read, n, c.versionQualifier, Unset, Unset)
      BY <1>2, <2>3 DEF LoadDiscoveryDocMember, DiscoveryDocSchemas, c, n
    <3> QED
      BY <2>1, <2>2, <3>1 DEF n
  <2>4. CASE job.mode = "data_source"
    <3>1. /\ LoadDiscoveryDocMember(n, m) = DataSources(read, wire, m.versionQualifier, Unset)
          /\ DiscoveryDocSchemas(job, read) = DataSources(read, wire, c.versionQualifier, Unset)
      BY <1>2, <1>3, <1>6, <1>9, <2>4 DEF LoadDiscoveryDocMember, DiscoveryDocSchemas, c
    <3> QED
      BY <2>1, <2>2, <3>1 DEF n
  <2> QED
    BY <1>4, <2>3, <2>4
<1>10. CASE table.source = "cloudformation"
  <2>1. /\ LoadMember(n, m) = LoadCloudFormationMember(n, m)
        /\ Built(job, read) = Resources(read, Unset, Unset, Unset, Unset)
    BY <1>1, <1>3, <1>10, LoadBySource DEF Built, c
  <2> QED
    BY <1>2, <2>1 DEF LoadCloudFormationMember, n
<1> QED
  BY <1>1, <1>7, <1>8, <1>9, <1>10, SourceIsOne

\* Where no creates tie there is one build, and so it is the same again.
AtMostOne(S) == \A s, u \in S : s = u

LEMMA OneResourceSchema ==
    ASSUME NEW doc, ~doc.tied, NEW name, NEW qualifier, NEW timeouts, NEW overrides
    PROVE  AtMostOne(Schemas(Resources(doc, name, qualifier, timeouts, overrides)))
<1> DEFINE S(c) == [document |-> doc, create |-> c, name |-> name, qualifier |-> qualifier]
<1>1. Creates(doc) = {"POST"}
  BY DEF Creates
<1>2. ResourceSchemas(doc, name, qualifier) = {S(c) : c \in {x \in {"POST"} : doc.resources}}
  BY <1>1, Zenon DEF ResourceSchemas
<1> HIDE DEF S
<1>3. AtMostOne(ResourceSchemas(doc, name, qualifier))
  BY <1>2 DEF AtMostOne
<1> QED
  BY <1>3, SchemasOfResources, Zenon

LEMMA OneDataSourceSchema ==
    ASSUME NEW doc, NEW name, NEW qualifier, NEW namespace
    PROVE  AtMostOne(Schemas(DataSources(doc, name, qualifier, namespace)))
<1> DEFINE d == [ schema |-> [ document |-> doc, name |-> name, qualifier |-> qualifier,
                              namespace |-> namespace ] ]
<1>1. DataSources(doc, name, qualifier, namespace) = {x \in {d} : doc.reads}
  BY Zenon DEF DataSources
<1> HIDE DEF d
<1>2. \A s \in Schemas({x \in {d} : doc.reads}) : s = d.schema
  BY DEF Schemas
<1> QED
  BY <1>1, <1>2 DEF AtMostOne

LEMMA OneSchema ==
    ASSUME NEW job \in Jobs, NEW read, job.mode = "resource" => ~read.tied,
           job.config.source = "cloudformation" => job.mode = "resource"
    PROVE  AtMostOne(Schemas(Built(job, read)))
<1>1. /\ job.config.source \in Sources
      /\ job.mode \in {"resource", "data_source"}
  BY DEF Jobs, Configs
<1>2. CASE job.config.source = "openapi"
  <2>1. Built(job, read) = OpenAPISchemas(job, read)
    BY <1>2 DEF Built
  <2> QED
    BY <2>1, OneResourceSchema, OneDataSourceSchema DEF OpenAPISchemas
<1>3. CASE job.config.source = "smithy"
  <2>1. Built(job, read) = SmithySchemas(job, read)
    BY <1>3 DEF Built
  <2> QED
    BY <2>1, OneResourceSchema, OneDataSourceSchema DEF SmithySchemas
<1>4. CASE job.config.source = "discovery_docs"
  <2>1. Built(job, read) = DiscoveryDocSchemas(job, read)
    BY <1>4 DEF Built
  <2> QED
    BY <2>1, OneResourceSchema, OneDataSourceSchema DEF DiscoveryDocSchemas
<1>5. CASE job.config.source = "cloudformation"
  <2>1. Built(job, read) = Resources(read, Unset, Unset, Unset, Unset)
    BY <1>5 DEF Built
  <2> QED
    BY <1>5, <2>1, OneResourceSchema
<1> QED
  BY <1>1, <1>2, <1>3, <1>4, <1>5 DEF Sources

LEMMA BuildsAgree ==
    ASSUME NEW A, NEW B, Schemas(A) = Schemas(B), AtMostOne(Schemas(A)),
           NEW a \in Builds(A), NEW b \in Builds(B)
    PROVE  Schemas(a) = Schemas(b)
<1>1. CASE A = {}
  <2>1. Schemas(A) = {}
    BY <1>1 DEF Schemas
  <2>2. B = {}
    BY <2>1 DEF Schemas
  <2> QED
    BY <1>1, <2>2 DEF Builds
<1>2. CASE A # {}
  <2>1. B # {}
    <3>1. Schemas(A) # {}
      BY <1>2 DEF Schemas
    <3> QED
      BY <3>1 DEF Schemas
  <2>2. PICK x \in A : a = {x}
    BY <1>2 DEF Builds
  <2>3. PICK y \in B : b = {y}
    BY <2>1 DEF Builds
  <2>4. x.schema \in Schemas(A) /\ y.schema \in Schemas(A)
    BY DEF Schemas
  <2>5. x.schema = y.schema
    BY <2>4 DEF AtMostOne
  <2>6. Schemas(a) = {x.schema} /\ Schemas(b) = {y.schema}
    BY <2>2, <2>3 DEF Schemas
  <2> QED
    BY <2>5, <2>6
<1> QED
  BY <1>1, <1>2

-----------------------------------------------------------------------------
(* The members a generation is to make *)

LEMMA ModesAreMembers ==
    ASSUME NEW table \in ProviderTables, Valid(table)
    PROVE  /\ Len(MemberModes(table)) \in Nat
           /\ DOMAIN MemberModes(table) = 1..Len(MemberModes(table))
           /\ \A i \in DOMAIN MemberModes(table) :
                 /\ MemberModes(table)[i].name \in {TableName, DSName}
                 /\ MemberModes(table)[i].mode \in {"resource", "data_source"}
                 /\ IsMemberOf(table, MemberModes(table)[i].name, MemberModes(table)[i].mode)
<1>1. table.dataSources \in BOOLEAN
  BY TableParts
<1>2. CASE table.dataSources
  <2>1. MemberModes(table) = <<[name |-> TableName, mode |-> "data_source"]>>
    BY <1>2 DEF MemberModes
  <2> QED
    BY <1>2, <2>1 DEF IsMemberOf
<1>3. CASE ~table.dataSources /\ table.source = "cloudformation"
  <2>1. MemberModes(table) = <<[name |-> TableName, mode |-> "resource"]>>
    BY <1>3 DEF MemberModes
  <2> QED
    BY <1>3, <2>1 DEF IsMemberOf
<1>4. CASE ~table.dataSources /\ table.source # "cloudformation"
  <2>1. MemberModes(table) = << [name |-> TableName, mode |-> "resource"],
                                [name |-> DSName, mode |-> "data_source"] >>
    BY <1>4 DEF MemberModes
  <2>2. /\ Len(MemberModes(table)) = 2 /\ DOMAIN MemberModes(table) = 1..2
        /\ MemberModes(table)[1] = [name |-> TableName, mode |-> "resource"]
        /\ MemberModes(table)[2] = [name |-> DSName, mode |-> "data_source"]
    BY <2>1
  <2>3. \A i \in 1..2 : i = 1 \/ i = 2
    OBVIOUS
  <2> QED
    BY <1>4, <2>2, <2>3 DEF IsMemberOf
<1> QED
  BY <1>1, <1>2, <1>3, <1>4

LEMMA JobsOfTableFit ==
    ASSUME Published
    PROVE  /\ JobsOfTable \in Seq(Jobs)
           /\ \A j \in Range(JobsOfTable) : JobFits(j, "cut") /\ j.table = Table
<1> DEFINE config == [Table EXCEPT !.wireName = WireName(TableName, Table)]
           modes == MemberModes(Table)
           J(i) == [ name |-> modes[i].name, mode |-> modes[i].mode,
                     config |-> config, table |-> Table ]
<1>1. Table \in ProviderTables /\ Valid(Table)
  <2>1. /\ scenario.tables \in Seq(ProviderTables)
        /\ \A i \in DOMAIN scenario.tables : Valid(scenario.tables[i])
        /\ edition \in DOMAIN scenario.tables
    BY PinningAssumption DEF Published
  <2>2. \A t \in Seq(ProviderTables) : \A i \in DOMAIN t : t[i] \in ProviderTables
    OBVIOUS
  <2> QED
    BY <2>1, <2>2 DEF Table
<1>2. config \in Configs /\ ConfigFits(config, Table, "cut")
  BY <1>1, TableAsConfig
<1>3. /\ Len(modes) \in Nat /\ DOMAIN modes = 1..Len(modes)
      /\ \A i \in DOMAIN modes : /\ modes[i].name \in {TableName, DSName}
                                 /\ modes[i].mode \in {"resource", "data_source"}
                                 /\ IsMemberOf(Table, modes[i].name, modes[i].mode)
  BY <1>1, ModesAreMembers
<1>4. JobsOfTable = [i \in DOMAIN modes |-> J(i)]
  BY Zenon DEF JobsOfTable
<1> HIDE DEF config, modes
<1>5. \A i \in DOMAIN modes : J(i) \in Jobs /\ JobFits(J(i), "cut") /\ J(i).table = Table
  BY <1>1, <1>2, <1>3 DEF Jobs, JobFits
<1> HIDE DEF J
<1>6. JobsOfTable \in Seq(Jobs) /\ \A i \in DOMAIN JobsOfTable : JobsOfTable[i] = J(i)
  BY <1>3, <1>4, <1>5
<1>7. DOMAIN JobsOfTable = DOMAIN modes
  BY <1>4
<1> QED
  BY <1>5, <1>6, <1>7 DEF Range

\* A snapshot's members, in order.
LEMMA JobsOfSnapshotFit ==
    ASSUME SnapFits
    PROVE  /\ JobsOfSnapshot \in Seq(Jobs)
           /\ \A j \in Range(JobsOfSnapshot) : JobFits(j, "recut")
           /\ {j.name : j \in Range(JobsOfSnapshot)} = DOMAIN snap
<1> DEFINE N(i) == IF i = 1 /\ TableName \in DOMAIN snap THEN TableName ELSE DSName
           J(n) == [ name |-> n, mode |-> snap[n].mode,
                     config |-> ConfigOf(n), table |-> origin[n].table ]
           count == Cardinality(DOMAIN snap)
<1>1. JobsOfSnapshot = [i \in 1..count |-> J(N(i))]
  BY Zenon DEF JobsOfSnapshot
<1>2. DOMAIN snap \subseteq {TableName, DSName}
  BY DEF SnapFits
<1>3. /\ count \in Nat
      /\ \A i \in 1..count : N(i) \in DOMAIN snap
      /\ \A n \in DOMAIN snap : \E i \in 1..count : N(i) = n
  <2>1. \/ DOMAIN snap = {} \/ DOMAIN snap = {TableName} \/ DOMAIN snap = {DSName}
        \/ DOMAIN snap = {TableName, DSName}
    BY <1>2
  <2>2. CASE DOMAIN snap = {}
    BY <2>2, FS_EmptySet
  <2>3. CASE DOMAIN snap = {TableName}
    <3>1. count = 1
      BY <2>3, FS_Singleton
    <3> QED
      BY <2>3, <3>1
  <2>4. CASE DOMAIN snap = {DSName}
    <3>1. count = 1
      BY <2>4, FS_Singleton
    <3> QED
      BY <2>4, <3>1, Names2
  <2>5. CASE DOMAIN snap = {TableName, DSName}
    <3>1. count = 2
      <4>1. {TableName, DSName} = {TableName} \cup {DSName}
        OBVIOUS
      <4>2. IsFiniteSet({TableName}) /\ Cardinality({TableName}) = 1
        BY FS_Singleton
      <4>3. Cardinality({TableName} \cup {DSName}) = Cardinality({TableName}) + 1
        BY <4>2, Names2, FS_AddElement
      <4> QED
        BY <2>5, <4>1, <4>2, <4>3
    <3>2. N(1) = TableName /\ N(2) = DSName /\ 1 \in 1..2 /\ 2 \in 1..2
      BY <2>5
    <3>3. \A i \in 1..2 : i = 1 \/ i = 2
      OBVIOUS
    <3> HIDE DEF N, count
    <3> QED
      BY <2>5, <3>1, <3>2, <3>3
  <2> QED
    BY <2>1, <2>2, <2>3, <2>4, <2>5
<1> HIDE DEF N, count
<1>4. \A n \in DOMAIN snap : J(n) \in Jobs /\ JobFits(J(n), "recut") /\ J(n).name = n
  <2> TAKE n \in DOMAIN snap
  <2>1. MemberFits(n, snap[n], origin[n].table, origin[n].fetched, outcome.run)
    BY DEF SnapFits
  <2>2. ConfigOf(n) \in Configs /\ ConfigFits(ConfigOf(n), origin[n].table, "recut")
    BY MemberAsConfig
  <2>3. /\ origin[n].table \in ProviderTables /\ Valid(origin[n].table)
        /\ IsMemberOf(origin[n].table, n, snap[n].mode)
    BY <2>1 DEF MemberFits
  <2>4. n \in {TableName, DSName} /\ snap[n].mode \in {"resource", "data_source"}
    BY <2>3, ModeOfMember
  <2> QED
    BY <2>2, <2>3, <2>4 DEF Jobs, JobFits
<1> HIDE DEF J
<1>5. JobsOfSnapshot \in Seq(Jobs)
  BY <1>1, <1>3, <1>4
<1>6. /\ DOMAIN JobsOfSnapshot = 1..count
      /\ \A i \in 1..count : JobsOfSnapshot[i] = J(N(i))
  BY <1>1
<1>7. Range(JobsOfSnapshot) = {J(n) : n \in DOMAIN snap}
  BY <1>3, <1>6 DEF Range
<1>8. \A j \in Range(JobsOfSnapshot) : \E n \in DOMAIN snap : j = J(n)
  BY <1>7
<1>9. \A j \in Range(JobsOfSnapshot) : JobFits(j, "recut") /\ j.name \in DOMAIN snap
  BY <1>4, <1>8
<1>10. \A n \in DOMAIN snap : \E j \in Range(JobsOfSnapshot) : j.name = n
  BY <1>4, <1>7
<1> QED
  BY <1>5, <1>9, <1>10

-----------------------------------------------------------------------------
(* A generation, step by step *)

LEMMA SnapRests ==
    ASSUME SnapFits, RecutIsQuiet, UNCHANGED <<snap, origin, outcome>>
    PROVE  SnapFits' /\ RecutIsQuiet'
<1>1. snap' = snap /\ origin' = origin /\ outcome' = outcome
  OBVIOUS
<1>2. SnapFits'
  BY <1>1 DEF SnapFits
<1>3. RecutIsQuiet'
  BY <1>1 DEF RecutIsQuiet, WellRead, NamedAgain, OneCreate
<1> QED
  BY <1>2, <1>3

LEMMA JobStillFits ==
    ASSUME UNCHANGED <<snap, origin>>, NEW job, NEW how, JobFits(job, how)
    PROVE  JobFits(job, how)'
BY DEF JobFits

LEMMA RunRests ==
    ASSUME RunFits, UNCHANGED <<jobs, made, failed, run, snap, origin>>
    PROVE  RunFits'
<1>1. \A j \in Range(jobs)' : JobFits(j, run)'
  BY JobStillFits DEF RunFits
<1>2. OneTable'
  BY DEF RunFits, OneTable
<1>3. \A n \in DOMAIN made' :
        /\ n \in {TableName, DSName}
        /\ MemberFits(n, made'[n].member, made'[n].table, made'[n].fetched, run')
  BY DEF RunFits
<1>4. run' = "recut" =>
         /\ (~failed' => DOMAIN made' \cup {j.name : j \in Range(jobs')} = DOMAIN snap')
         /\ \A n \in DOMAIN made' :
               /\ n \in DOMAIN snap'
               /\ made'[n].table = origin'[n].table
               /\ (MadeAgain(n)' => ~made'[n].changed)
  BY DEF RunFits, MadeAgain
<1> QED
  BY <1>1, <1>2, <1>3, <1>4 DEF RunFits

LEMMA PinRests ==
    ASSUME PinInv, UNCHANGED <<jobs, made, failed, run, document, snap, origin, outcome>>,
           stage' # "idle" => stage # "idle" /\ text' = text
    PROVE  PinInv'
<1>1. SnapFits' /\ RecutIsQuiet'
  BY SnapRests DEF PinInv
<1>2. run # "idle" => RunFits'
  BY RunRests DEF PinInv
<1>3. BundledFor'
  BY DEF PinInv, BundledFor
<1> QED
  BY <1>1, <1>2, <1>3 DEF PinInv

LEMMA StartStep ==
    ASSUME PinInv, NEW kind \in {"cut", "recut"}, NEW members \in Seq(Jobs),
           Start(kind, members),
           \A j \in Range(members) : JobFits(j, kind),
           \A j, k \in Range(members) : j.table = k.table,
           kind = "recut" => {j.name : j \in Range(members)} = DOMAIN snap
    PROVE  PinInv'
<1>1. /\ run = "idle" /\ run' = kind /\ jobs' = members /\ made' = <<>> /\ failed' = FALSE
      /\ stage' = stage /\ text' = text /\ snap' = snap /\ origin' = origin /\ outcome' = outcome
  BY DEF Start, bundleVars
<1>2. SnapFits' /\ RecutIsQuiet'
  BY <1>1, SnapRests DEF PinInv
<1>3. stage = "idle"
  BY <1>1 DEF PinInv, BundledFor
<1>4. DOMAIN made' = {}
  BY <1>1
<1>5. \A j \in Range(jobs)' : JobFits(j, run)'
  <2>1. \A j \in Range(members) : JobFits(j, kind)'
    BY <1>1, JobStillFits
  <2> QED
    BY <1>1, <2>1
<1>6. OneTable'
  BY <1>1, <1>4 DEF OneTable
<1>7. RunFits'
  BY <1>1, <1>4, <1>5, <1>6 DEF RunFits
<1>8. BundledFor'
  BY <1>1, <1>3 DEF BundledFor
<1> QED
  BY <1>1, <1>2, <1>7, <1>8 DEF PinInv

LEMMA StartCutStep ==
    ASSUME Published, PinInv, StartCut
    PROVE  PinInv'
BY JobsOfTableFit, StartStep DEF StartCut

LEMMA StartRecutStep ==
    ASSUME PinInv, StartRecut
    PROVE  PinInv'
<1>1. SnapFits /\ Start("recut", JobsOfSnapshot)
  BY DEF PinInv, StartRecut
<1>2. /\ JobsOfSnapshot \in Seq(Jobs)
      /\ \A j \in Range(JobsOfSnapshot) : JobFits(j, "recut")
      /\ {j.name : j \in Range(JobsOfSnapshot)} = DOMAIN snap
  BY <1>1, JobsOfSnapshotFit
<1>3. \A j, k \in Range(JobsOfSnapshot) : j.table = k.table
  <2> TAKE j, k \in Range(JobsOfSnapshot)
  <2>1. /\ j.name \in DOMAIN snap /\ j.table = origin[j.name].table
        /\ k.name \in DOMAIN snap /\ k.table = origin[k.name].table
    BY <1>2 DEF JobFits
  <2> QED
    BY <1>1, <2>1 DEF SnapFits
<1> QED
  BY <1>1, <1>2, <1>3, StartStep

\* A member that could not be made.
LEMMA JobDropped ==
    ASSUME PinInv, jobs # <<>>, jobs' = Tail(jobs), failed' = TRUE, stage' = "idle",
           UNCHANGED <<made, run, snap, origin, outcome>>
    PROVE  PinInv'
<1>1. run # "idle" /\ RunFits
  BY DEF PinInv
<1>2. SnapFits' /\ RecutIsQuiet'
  BY SnapRests DEF PinInv
<1>3. Tail(jobs) \in Seq(Jobs) /\ Range(Tail(jobs)) \subseteq Range(jobs)
  BY <1>1, HeadAndTail DEF RunFits
<1>4. \A j \in Range(jobs)' : JobFits(j, run)'
  BY <1>1, <1>3, JobStillFits DEF RunFits
<1>5. OneTable'
  BY <1>1, <1>3 DEF RunFits, OneTable
<1>6. \A n \in DOMAIN made' :
          /\ n \in {TableName, DSName}
          /\ MemberFits(n, made'[n].member, made'[n].table, made'[n].fetched, run')
  BY <1>1 DEF RunFits
<1>7. run' = "recut" =>
         \A n \in DOMAIN made' :
            /\ n \in DOMAIN snap'
            /\ made'[n].table = origin'[n].table
            /\ (MadeAgain(n)' => ~made'[n].changed)
  BY <1>1 DEF RunFits, MadeAgain
<1>8. RunFits'
  BY <1>3, <1>4, <1>5, <1>6, <1>7 DEF RunFits
<1>9. BundledFor'
  BY DEF BundledFor
<1> QED
  BY <1>1, <1>2, <1>8, <1>9 DEF PinInv

\* read is what is built of a document, to be compared with what there was.
ReadFits(job, fetched, read) ==
    /\ (job.config.source # "openapi" => read = fetched)
    /\ (~fetched.tied => ~read.tied)
    /\ (job.config.source = "openapi" /\ NoWayBack(fetched.text) =>
           read = [Loaded(fetched, job.config.redocly) EXCEPT !.renamed = RefsOf(fetched.text)])

LEMMA MemberMade ==
    ASSUME PinInv, jobs # <<>>, stage' = "idle", UNCHANGED <<run, snap, origin, outcome>>,
           NEW fetched, NEW read, NEW written, MakeMember(fetched, read, written),
           ReadFits(Head(jobs), fetched, read),
           Keeps(Head(jobs).config.source, Head(jobs).table, fetched, run, written)
    PROVE  PinInv'
<1> DEFINE job == Head(jobs)
<1>1. run # "idle" /\ RunFits /\ SnapFits
  BY DEF PinInv
<1>0. PICK new \in Builds(Built(job, read)), before \in Builds(Before(job)) :
         made' = IF Comparable(job)
                 THEN Put(made, job.name,
                          [ member |-> Member(job, written),
                            changed |-> HasChanged(job, new, before),
                            table |-> job.table, fetched |-> fetched ])
                 ELSE made
  BY Zenon DEF MakeMember
<1> DEFINE entry == [ member |-> Member(job, written), changed |-> HasChanged(job, new, before),
                      table |-> job.table, fetched |-> fetched ]
<1>2. /\ jobs' = Tail(jobs)
      /\ made' = IF Comparable(job) THEN Put(made, job.name, entry) ELSE made
      /\ failed' = (failed \/ ~Comparable(job))
  BY <1>0, Zenon DEF MakeMember
<1>3. CASE ~Comparable(job)
  BY <1>2, <1>3, JobDropped
<1>4. CASE Comparable(job)
  <2>1. /\ job \in Jobs /\ Tail(jobs) \in Seq(Jobs)
        /\ Range(jobs) = {job} \cup Range(Tail(jobs))
    BY <1>1, HeadAndTail DEF RunFits
  <2>2. JobFits(job, run)
    BY <1>1, <2>1 DEF RunFits
  <2>3. MemberFits(job.name, Member(job, written), job.table, fetched, run)
    BY <2>1, <2>2, MemberOfJob
  <2>4. /\ entry.member = Member(job, written) /\ entry.changed = HasChanged(job, new, before)
        /\ entry.table = job.table /\ entry.fetched = fetched
        /\ entry.member.mode = job.mode
    BY DEF Member
  <2>5. /\ DOMAIN made' = DOMAIN made \cup {job.name}
        /\ made'[job.name] = entry
        /\ \A n \in DOMAIN made \ {job.name} : made'[n] = made[n]
    BY <1>2, <1>4, Zenon DEF Put
  <2>6. job.name \in {TableName, DSName}
    BY <2>1 DEF Jobs
  <2> HIDE DEF entry, job
  <2>7. SnapFits' /\ RecutIsQuiet'
    BY SnapRests DEF PinInv
  <2>8. \A j \in Range(jobs)' : JobFits(j, run)'
    BY <1>1, <1>2, <2>1, JobStillFits DEF RunFits
  <2>9. OneTable'
    <3>1. /\ \A j, k \in Range(Tail(jobs)) : j.table = k.table
          /\ \A j \in Range(Tail(jobs)) : j.table = job.table
          /\ \A n \in DOMAIN made : made[n].table = job.table
      BY <1>1, <2>1 DEF RunFits, OneTable
    <3>2. \A n \in DOMAIN made' : made'[n].table = job.table
      BY <2>4, <2>5, <3>1
    <3> QED
      BY <1>2, <3>1, <3>2 DEF OneTable
  <2>10. \A n \in DOMAIN made' :
          /\ n \in {TableName, DSName}
          /\ MemberFits(n, made'[n].member, made'[n].table, made'[n].fetched, run')
    <3>1. \A n \in DOMAIN made :
             /\ n \in {TableName, DSName}
             /\ MemberFits(n, made[n].member, made[n].table, made[n].fetched, run)
      BY <1>1 DEF RunFits
    <3> QED
      BY <2>3, <2>4, <2>5, <2>6, <3>1
  <2>11. ASSUME run = "recut"
         PROVE  /\ (~failed' => DOMAIN made' \cup {j.name : j \in Range(jobs')} = DOMAIN snap')
                /\ \A n \in DOMAIN made' :
                      /\ n \in DOMAIN snap'
                      /\ made'[n].table = origin'[n].table
                      /\ (MadeAgain(n)' => ~made'[n].changed)
    <3>1. /\ job.name \in DOMAIN snap /\ job.mode = snap[job.name].mode
          /\ job.table = origin[job.name].table
      BY <2>2, <2>11 DEF JobFits
    <3>2. ~failed' => DOMAIN made' \cup {j.name : j \in Range(jobs')} = DOMAIN snap'
      <4> SUFFICES ASSUME ~failed'
                   PROVE  DOMAIN made' \cup {j.name : j \in Range(jobs')} = DOMAIN snap'
        OBVIOUS
      <4>1. DOMAIN made \cup {j.name : j \in Range(jobs)} = DOMAIN snap
        BY <1>1, <1>2, <2>11 DEF RunFits
      <4>2. {j.name : j \in Range(jobs)} = {job.name} \cup {j.name : j \in Range(jobs')}
        BY <1>2, <2>1
      <4> QED
        BY <2>5, <4>1, <4>2
    <3>3. ASSUME NEW n \in DOMAIN made, n # job.name
          PROVE  /\ n \in DOMAIN snap'
                 /\ made'[n].table = origin'[n].table
                 /\ (MadeAgain(n)' => ~made'[n].changed)
      <4>1. made'[n] = made[n]
        BY <2>5, <3>3
      <4>2. /\ n \in DOMAIN snap /\ made[n].table = origin[n].table
            /\ (MadeAgain(n) => ~made[n].changed)
        BY <1>1, <2>11 DEF RunFits
      <4>3. MadeAgain(n)' => MadeAgain(n)
        BY <4>1 DEF MadeAgain
      <4> QED
        BY <4>1, <4>2, <4>3
    <3>4. ASSUME NEW n, n = job.name
          PROVE  MadeAgain(n)' => ~made'[n].changed
      <4> SUFFICES ASSUME MadeAgain(n)'
                   PROVE  Schemas(new) = Schemas(before)
        BY <2>4, <2>5, <3>1, <3>4 DEF HasChanged
      <4>0. /\ made'[n].fetched = origin'[n].fetched /\ NoRedocly(made'[n].table)
            /\ ~snap'[n].document.misread
            /\ (made'[n].table.source = "openapi" => NoWayBack(made'[n].fetched.text))
            /\ (made'[n].member.mode = "resource" => ~made'[n].fetched.tied)
        BY DEF MadeAgain
      <4>1. /\ fetched = origin[job.name].fetched /\ NoRedocly(job.table)
            /\ ~snap[job.name].document.misread
            /\ (job.table.source = "openapi" => NoWayBack(fetched.text))
            /\ (job.mode = "resource" => ~fetched.tied)
        BY <2>4, <2>5, <3>4, <4>0
      <4>2. MemberFits(job.name, snap[job.name], job.table, fetched, outcome.run)
        BY <1>1, <3>1, <4>1 DEF SnapFits
      <4>3. ConfigFits(job.config, job.table, "recut")
        BY <2>2, <2>11 DEF JobFits
      <4>4. read = IF job.table.source = "openapi"
                   THEN [Loaded(fetched, FALSE) EXCEPT !.renamed = RefsOf(fetched.text)]
                   ELSE fetched
        <5>1. job.config.source = job.table.source /\ job.config.redocly = FALSE
          BY <4>3 DEF ConfigFits
        <5> QED
          BY <4>1, <5>1 DEF ReadFits, job
      <4>5. Schemas(Built(job, read)) = Schemas(LoadMember(job.name, snap[job.name]))
        BY <2>1, <3>1, <4>1, <4>2, <4>3, <4>4, SchemasAgain
      <4>6. Before(job) = LoadMember(job.name, snap[job.name])
        BY <1>4, <3>1 DEF Before, job
      <4>7. AtMostOne(Schemas(Built(job, read)))
        <5>1. job.mode = "resource" => ~read.tied
          BY <4>1 DEF ReadFits, job
        <5>2. job.config.source = "cloudformation" => job.mode = "resource"
          <6>1. IsMemberOf(job.table, job.name, job.mode) /\ Valid(job.table)
            BY <2>2, <4>3 DEF JobFits, ConfigFits
          <6>2. job.table \in ProviderTables /\ job.config.source = job.table.source
            BY <2>1, <4>3 DEF Jobs, ConfigFits
          <6> QED
            BY <6>1, <6>2, ModeOfMember
        <5> QED
          BY <2>1, <5>1, <5>2, OneSchema
      <4>8. new \in Builds(Built(job, read)) /\ before \in Builds(Before(job))
        BY DEF job
      <4> QED
        BY <4>5, <4>6, <4>7, <4>8, BuildsAgree
    <3> QED
      BY <2>4, <2>5, <3>1, <3>2, <3>3, <3>4
  <2>12. RunFits'
    BY <1>2, <2>1, <2>8, <2>9, <2>10, <2>11 DEF RunFits
  <2>13. BundledFor'
    BY DEF BundledFor
  <2> QED
    BY <1>1, <2>7, <2>12, <2>13 DEF PinInv
<1> QED
  BY <1>3, <1>4

LEMMA GenerateStep ==
    ASSUME PinInv, NEW source, source # "openapi", Generate(source)
    PROVE  PinInv'
<1> DEFINE job == Head(jobs)
<1>1. /\ jobs # <<>> /\ job.config.source = source
      /\ MakeMember(Upstream, Upstream, Upstream)
      /\ UNCHANGED <<stage, run, snap, origin, outcome>>
  BY DEF Generate, bundleVars
<1>2. stage = "idle"
  BY <1>1 DEF PinInv, BundledFor
<1>3. ReadFits(job, Upstream, Upstream)
  BY <1>1 DEF ReadFits
<1>4. Keeps(job.config.source, job.table, Upstream, run, Upstream)
  BY <1>1 DEF Keeps
<1> HIDE DEF job
<1> QED
  BY <1>1, <1>2, <1>3, <1>4, MemberMade DEF job

LEMMA LoadAndBundleStep ==
    ASSUME Published, PinInv, LoadAndBundle
    PROVE  PinInv'
<1>1. /\ jobs # <<>> /\ Head(jobs).config.source = "openapi" /\ document' = Upstream
      /\ UNCHANGED <<jobs, made, failed, run, snap, origin, outcome>>
  BY DEF LoadAndBundle
<1>2. IsDocument(Upstream)
  BY UpstreamIsADocument
<1>3. BundledFor'
  <2>1. text' = Upstream.text
    BY DEF LoadAndBundle, BundleCall
  <2>2. document'.text = text' /\ IsDocument(document') /\ jobs' = jobs
    BY <1>1, <1>2, <2>1
  <2> QED
    BY <1>1, <2>2 DEF BundledFor
<1>4. SnapFits' /\ RecutIsQuiet' /\ (run' # "idle" => RunFits')
  <2> DEFINE Same == UNCHANGED <<jobs, made, failed, run, snap, origin, outcome>>
  <2>1. SnapFits' /\ RecutIsQuiet'
    BY <1>1, SnapRests DEF PinInv
  <2>2. run # "idle" => RunFits'
    BY <1>1, RunRests DEF PinInv
  <2> QED
    BY <1>1, <2>1, <2>2
<1> QED
  BY <1>1, <1>3, <1>4 DEF PinInv

\* Documents of given names, texts and new references, whatever else is said
\* of them.
Readings(ids, texts, renamings) ==
    [ id : ids, text : texts, resources : BOOLEAN, reads : BOOLEAN, tied : BOOLEAN,
      redoclyOnly : BOOLEAN, awsJson : BOOLEAN, renamed : renamings, misread : BOOLEAN ]

LEMMA ReadingAsWritten ==
    ASSUME NEW ids, NEW texts, NEW renamings, NEW l \in Readings(ids, texts, renamings),
           ~l.misread, NEW b \in BOOLEAN, NEW f, f = [l EXCEPT !.misread = b]
    PROVE  (~b => f = l) /\ (b => f.misread)
BY DEF Readings

\* What is read of a published document has not been misread yet, and none of
\* its references has been renamed.
LEMMA LoadedAsPublished ==
    ASSUME NEW d, IsDocument(d), NEW redocly
    PROVE  /\ Loaded(d, redocly) \in Readings({d.id}, {d.text}, {<<>>})
           /\ ~Loaded(d, redocly).misread
           /\ Loaded(d, redocly).tied = d.tied
<1>1. d = [ id |-> d.id, text |-> d.text, resources |-> d.resources, reads |-> d.reads,
            tied |-> d.tied, redoclyOnly |-> d.redoclyOnly, awsJson |-> d.awsJson,
            renamed |-> <<>>, misread |-> FALSE ]
  BY Zenon DEF IsDocument
<1>2. {d.resources, d.reads, d.tied, d.redoclyOnly, d.awsJson} \subseteq BOOLEAN
  BY DEF IsDocument
<1>3. d \in Readings({d.id}, {d.text}, {<<>>})
  <2>1. [ id |-> d.id, text |-> d.text, resources |-> d.resources, reads |-> d.reads,
          tied |-> d.tied, redoclyOnly |-> d.redoclyOnly, awsJson |-> d.awsJson,
          renamed |-> <<>>, misread |-> FALSE ] \in Readings({d.id}, {d.text}, {<<>>})
    <3>1. /\ d.resources \in BOOLEAN /\ d.reads \in BOOLEAN /\ d.tied \in BOOLEAN
          /\ d.redoclyOnly \in BOOLEAN /\ d.awsJson \in BOOLEAN
      BY <1>2
    <3> QED
      BY <3>1 DEF Readings
  <2> QED
    BY <1>1, <2>1, Zenon
<1>4. ~d.misread
  <2>1. ASSUME NEW r, NEW s, NEW t, NEW o, NEW a, NEW id, NEW text_
        PROVE  [ id |-> id, text |-> text_, resources |-> r, reads |-> s, tied |-> t,
                 redoclyOnly |-> o, awsJson |-> a, renamed |-> <<>>, misread |-> FALSE ].misread
                  = FALSE
    OBVIOUS
  <2>2. [ id |-> d.id, text |-> d.text, resources |-> d.resources, reads |-> d.reads,
          tied |-> d.tied, redoclyOnly |-> d.redoclyOnly, awsJson |-> d.awsJson,
          renamed |-> <<>>, misread |-> FALSE ].misread = FALSE
    BY <2>1
  <2> QED
    BY <1>1, <2>2, Zenon
<1> DEFINE empty == [d EXCEPT !.resources = FALSE, !.reads = FALSE]
<1>5. Loaded(d, redocly) = d \/ Loaded(d, redocly) = empty
  BY DEF Loaded
<1>6. empty \in Readings({d.id}, {d.text}, {<<>>}) /\ ~empty.misread /\ empty.tied = d.tied
  BY <1>3, <1>4 DEF Readings
<1> HIDE DEF empty
<1> QED
  BY <1>3, <1>4, <1>5, <1>6

LEMMA WriteMemberStep ==
    ASSUME PinInv, BundleInv, WalkedInv, WriteMember
    PROVE  PinInv'
<1> DEFINE job == Head(jobs)
           loaded == Loaded(document, job.config.redocly)
           bundled == [loaded EXCEPT !.renamed = refs]
           written == [bundled EXCEPT !.misread = ~SaysTheSame]
<1>1. /\ stage = "done" /\ stage' = "idle"
      /\ UNCHANGED <<run, snap, origin, outcome>>
  BY DEF WriteMember, BundleDropped
<1>2. jobs # <<>> /\ job.config.source = "openapi" /\ IsDocument(document) /\ text = document.text
  BY <1>1 DEF PinInv, BundledFor
<1>3. /\ NoWayBack(document.text) => refs = RefsOf(document.text)
      /\ SingleFile(document.text) => refs = <<>>
  <2>1. NoWayBack(document.text) => refs = RefsOf(document.text)
    BY <1>1, <1>2, RenamedByTheText DEF BundleInv, WalkedInv
  <2>2. IsText(document.text)
    BY <1>2 DEF IsDocument
  <2> QED
    BY <2>1, <2>2, OneFileIsKept
<1>4. /\ loaded \in Readings({document.id}, {document.text}, {<<>>}) /\ ~loaded.misread
      /\ loaded.tied = document.tied
  BY <1>2, LoadedAsPublished
<1>5. /\ bundled \in Readings({document.id}, {document.text}, {refs}) /\ ~bundled.misread
      /\ bundled.tied = document.tied
      /\ (SingleFile(document.text) => bundled = loaded)
  <2>1. bundled = [loaded EXCEPT !.renamed = refs]
    OBVIOUS
  <2> HIDE DEF loaded, bundled
  <2>2. /\ bundled \in Readings({document.id}, {document.text}, {refs}) /\ ~bundled.misread
        /\ bundled.tied = loaded.tied
        /\ (refs = <<>> => bundled = loaded)
    BY <1>4, <2>1 DEF Readings
  <2> QED
    BY <1>3, <1>4, <2>2
<1>6. /\ (SaysTheSame => written = bundled)
      /\ (~SaysTheSame => written.misread)
  <2>1. (~SaysTheSame) \in BOOLEAN /\ written = [bundled EXCEPT !.misread = ~SaysTheSame]
    BY DEF SaysTheSame
  <2> HIDE DEF written, bundled
  <2> QED
    BY <1>5, <2>1, ReadingAsWritten
<1>7. IsBundled(bundled, document, loaded)
  BY <1>3, <1>5 DEF IsBundled
<1>8. ReadFits(job, document, bundled)
  <2>1. NoWayBack(document.text) => bundled = [loaded EXCEPT !.renamed = RefsOf(document.text)]
    BY <1>3
  <2> QED
    BY <1>2, <1>5, <2>1 DEF ReadFits
<1>9. NoRedocly(job.table) \/ run = "cut" => loaded = Loaded(document, job.table.redocly)
  <2>1. /\ job.config.redocly = (run = "cut" /\ job.table.redocly)
        /\ job.table.redocly \in BOOLEAN
    <3>1. run # "idle" /\ RunFits
      BY <1>2 DEF PinInv
    <3>2. job \in Jobs /\ job \in Range(jobs)
      BY <1>2, <3>1, HeadAndTail DEF RunFits
    <3>3. JobFits(job, run)
      BY <3>1, <3>2 DEF RunFits
    <3> HIDE DEF job
    <3>4. job.table \in ProviderTables
      BY <3>2 DEF Jobs
    <3> QED
      BY <3>3, <3>4, TableParts DEF JobFits, ConfigFits
  <2> QED
    BY <2>1 DEF NoRedocly
<1>10. CASE LoadsAlone
  <2>1. MakeMember(document, bundled, written)
    BY <1>10, Zenon DEF WriteMember
  <2>2. Keeps(job.config.source, job.table, document, run, written)
    <3>1. SaysTheSame \/ written.misread
      BY <1>6
    <3> HIDE DEF written, bundled, loaded
    <3> QED
      BY <1>2, <1>6, <1>7, <1>9, <3>1 DEF Keeps
  <2> HIDE DEF written, bundled, loaded
  <2> QED
    BY <1>1, <1>2, <1>8, <2>1, <2>2, MemberMade
<1>11. CASE ~LoadsAlone
  <2>1. jobs' = Tail(jobs) /\ failed' = TRUE /\ made' = made
    BY <1>11, Zenon DEF WriteMember
  <2> QED
    BY <1>1, <1>2, <2>1, JobDropped
<1> QED
  BY <1>10, <1>11

LEMMA FinishRunStep ==
    ASSUME PinInv, FinishRun
    PROVE  PinInv'
<1>1. /\ run # "idle" /\ jobs = <<>> /\ run' = "idle" /\ jobs' = <<>>
      /\ RunFits /\ SnapFits /\ stage' = stage
  BY DEF FinishRun, PinInv, bundleVars
<1>2. stage = "idle"
  BY <1>1 DEF PinInv, BundledFor
<1>3. CASE failed
  <2>1. UNCHANGED <<snap, origin, outcome>>
    BY <1>3 DEF FinishRun
  <2>2. SnapFits' /\ RecutIsQuiet'
    BY <2>1, SnapRests DEF PinInv
  <2> QED
    BY <1>1, <1>2, <2>2 DEF PinInv, BundledFor
<1>4. CASE ~failed
  <2>1. /\ snap' = [n \in DOMAIN made |-> made[n].member]
        /\ origin' = [n \in DOMAIN made |-> [ table |-> made[n].table,
                                              fetched |-> made[n].fetched ]]
        /\ outcome' = [ run |-> run,
                        moved |-> {n \in DOMAIN made \cap DOMAIN origin :
                                      made[n].fetched # origin[n].fetched},
                        misread |-> {n \in DOMAIN snap : snap[n].document.misread},
                        changed |-> Changed ]
    BY <1>4, Zenon DEF FinishRun
  <2>2. /\ DOMAIN snap' = DOMAIN made /\ DOMAIN origin' = DOMAIN made
        /\ \A n \in DOMAIN made : /\ snap'[n] = made[n].member
                                  /\ origin'[n].table = made[n].table
                                  /\ origin'[n].fetched = made[n].fetched
    BY <2>1
  <2>3. /\ outcome'.run = run /\ outcome'.changed = Changed
        /\ outcome'.moved = {n \in DOMAIN made \cap DOMAIN origin :
                                made[n].fetched # origin[n].fetched}
        /\ outcome'.misread = {n \in DOMAIN snap : snap[n].document.misread}
    BY <2>1
  <2>4. SnapFits'
    <3>1. \A n, k \in DOMAIN made : made[n].table = made[k].table
      BY <1>1 DEF RunFits, OneTable
    <3>2. \A n \in DOMAIN made :
             /\ n \in {TableName, DSName}
             /\ MemberFits(n, made[n].member, made[n].table, made[n].fetched, run)
      BY <1>1 DEF RunFits
    <3> QED
      BY <2>2, <2>3, <3>1, <3>2 DEF SnapFits
  <2>5. RecutIsQuiet'
    <3> SUFFICES ASSUME outcome'.run = "recut", outcome'.moved = {}, outcome'.misread = {},
                        \A n \in DOMAIN snap' :
                           /\ NoRedocly(origin'[n].table)
                           /\ (origin'[n].table.source = "openapi" =>
                                  NoWayBack(origin'[n].fetched.text))
                           /\ (snap'[n].mode = "resource" => ~origin'[n].fetched.tied)
                 PROVE  outcome'.changed = {}
      BY DEF RecutIsQuiet, NamedAgain, OneCreate
    <3>1. run = "recut"
      BY <2>3
    <3>2. /\ DOMAIN made = DOMAIN snap
          /\ \A n \in DOMAIN made :
                MadeAgain(n) => ~made[n].changed
      <4>1. Range(jobs) = {}
        BY <1>1 DEF Range
      <4> QED
        BY <1>1, <1>4, <3>1, <4>1 DEF RunFits
    <3>3. \A n \in DOMAIN made : MadeAgain(n)
      <4> TAKE n \in DOMAIN made
      <4>1. n \in DOMAIN snap /\ n \in DOMAIN origin
        BY <1>1, <3>2 DEF SnapFits
      <4>2. made[n].fetched = origin[n].fetched
        BY <2>3, <4>1
      <4>3. ~snap[n].document.misread
        BY <2>3, <4>1
      <4>4. /\ NoRedocly(made[n].table)
            /\ (made[n].table.source = "openapi" => NoWayBack(made[n].fetched.text))
            /\ (made[n].member.mode = "resource" => ~made[n].fetched.tied)
        BY <2>2
      <4> QED
        BY <4>2, <4>3, <4>4 DEF MadeAgain
    <3>4. Changed = {}
      BY <3>2, <3>3 DEF Changed
    <3> QED
      BY <2>3, <3>4
  <2> QED
    BY <1>1, <1>2, <2>4, <2>5 DEF PinInv, BundledFor
<1> QED
  BY <1>3, <1>4

LEMMA PinInvInit == PinInit => PinInv
<1> SUFFICES ASSUME PinInit PROVE PinInv
  OBVIOUS
<1>1. /\ run = "idle" /\ jobs = <<>> /\ snap = <<>> /\ origin = <<>> /\ stage = "idle"
      /\ outcome.run = "none"
  BY DEF PinInit, BundleIdle
<1>2. DOMAIN snap = {} /\ DOMAIN origin = {}
  BY <1>1
<1>3. SnapFits
  BY <1>2 DEF SnapFits
<1>4. RecutIsQuiet
  BY <1>1 DEF RecutIsQuiet
<1> QED
  BY <1>1, <1>3, <1>4 DEF PinInv, BundledFor

LEMMA PinInvStep ==
    Published /\ BundleInv /\ WalkedInv /\ PinInv /\ [PinNext]_vars => PinInv'
<1> SUFFICES ASSUME Published, BundleInv, WalkedInv, PinInv, [PinNext]_vars
             PROVE  PinInv'
  OBVIOUS
<1>1. CASE EditTable
  BY <1>1, PinRests DEF EditTable, bundleVars
<1>2. CASE Publish
  BY <1>2, PinRests DEF Publish, bundleVars
<1>3. CASE StartCut
  BY <1>3, StartCutStep
<1>4. CASE StartRecut
  BY <1>4, StartRecutStep
<1>5. CASE MemberFails
  BY <1>5, JobDropped DEF MemberFails, bundleVars
<1>6. CASE GenerateCloudFormationMember
  BY <1>6, GenerateStep DEF GenerateCloudFormationMember
<1>7. CASE GenerateSmithyMember
  BY <1>7, GenerateStep DEF GenerateSmithyMember
<1>8. CASE GenerateDiscoveryDocMember
  BY <1>8, GenerateStep DEF GenerateDiscoveryDocMember
<1>9. CASE LoadAndBundle
  BY <1>9, LoadAndBundleStep
<1>10. CASE WriteMember
  BY <1>10, WriteMemberStep
<1>11. CASE BundleNext /\ UNCHANGED pinVars
  <2>1. UNCHANGED <<jobs, made, failed, run, document, snap, origin, outcome>>
    BY <1>11 DEF pinVars
  <2>2. stage # "idle" /\ text' = text
    BY <1>11 DEF BundleNext, NextEntry, Walk, StartRewrite, Rewrite, Finish
  <2> QED
    BY <2>1, <2>2, PinRests
<1>12. CASE FinishRun
  BY <1>12, FinishRunStep
<1>13. CASE UNCHANGED vars
  BY <1>13, PinRests DEF vars, bundleVars, pinVars
<1> QED
  BY <1>1, <1>2, <1>3, <1>4, <1>5, <1>6, <1>7, <1>8, <1>9, <1>10, <1>11, <1>12, <1>13
     DEF PinNext, Generation

\* What all the steps keep, together.
PinnedInv == Published /\ BundleInv /\ WalkedInv /\ PinInv

LEMMA PinnedInvInit == PinInit => PinnedInv
BY PublishedInit, PinInvInit DEF PinnedInv, WalkedInv, PinInit, BundleIdle

LEMMA PinnedInvStep == PinnedInv /\ [PinNext]_vars => PinnedInv'
BY PublishedStep, BundleInvStep, WalkedInvStep, PinInvStep DEF PinnedInv

\* A process that is launched on the snapshot serves what one launched on the
\* table would have served of the documents the members were fetched from, an
\* OpenAPI description in several files apart; of two creates that tie, each
\* may take the other.
THEOREM SnapshotsServeTheTable == PinSpec => []PinnedIsTheTable
<1>1. PinnedInv => PinnedIsTheTable
  BY SnapIsTheTable DEF PinnedInv, PinInv
<1> QED
  BY <1>1, PinnedInvInit, PinnedInvStep, PTL DEF PinSpec

\* Cutting a snapshot again from itself announces no change when none of its
\* documents has, in whatever order they are walked and their references are
\* rewritten: unless a reference leads back into the document, or two creates
\* tie.
THEOREM RecutsAreQuiet == PinSpec => []RecutIsQuiet
<1>1. PinnedInv => RecutIsQuiet
  BY DEF PinnedInv, PinInv
<1> QED
  BY <1>1, PinnedInvInit, PinnedInvStep, PTL DEF PinSpec
=============================================================================

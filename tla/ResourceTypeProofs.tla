------------------------- MODULE ResourceTypeProofs -------------------------
(***************************************************************************)
(* Proofs about resource types.  First about where they come from (Mapping *)
(* and DynBuild): the types made of a document leave no read out, keep     *)
(* their names and can be addressed, for every document and every          *)
(* translation of its schemas.  Then about the states they describe        *)
(* (CarryForward), for every resource type and every choice of paths,      *)
(* normalisers and ignored attributes, as long as the configuration gives  *)
(* every value that is carried forward.                                    *)
(***************************************************************************)
EXTENDS CarryForward, DynBuild, FiniteSetTheorems, TLAPS
(***************************************************************************)
(* From a document to types                                                *)
(***************************************************************************)

(* Least and first elements.                                                *)

\* Every set of numbers that has a member has a least one.
LEMMA HasLeast ==
    ASSUME NEW S \in SUBSET Nat, S # {}
    PROVE  \E n \in S : \A m \in S : n <= m
  <1>1. PICK n \in S : \A m \in S : <<m, n>> \notin OpToRel(<, Nat)
    BY NatLessThanWellFounded, WFMin
  <1>2. \A m \in S : ~(m < n)
    BY <1>1 DEF OpToRel
  <1> QED BY <1>2

\* And a greatest one, when it is bounded.
LEMMA HasGreatest ==
    ASSUME NEW b \in Nat, NEW S \in SUBSET (0..b), S # {}
    PROVE  \E n \in S : \A m \in S : m <= n
  <1> DEFINE T == {b - m : m \in S}
  <1>0. \A m \in 0..b : b - m \in Nat
    OBVIOUS
  <1>1. T \in SUBSET Nat /\ T # {}
    BY <1>0
  <1>2. PICK k \in T : \A m \in T : k <= m
    <2> HIDE DEF T
    <2> QED BY <1>1, HasLeast
  <1>3. PICK n \in S : k = b - n
    BY <1>2
  <1>4. \A m \in S : b - n <= b - m
    BY <1>2, <1>3
  <1>5. n \in 0..b /\ \A m \in S : m \in 0..b
    OBVIOUS
  <1> QED BY <1>4, <1>5

\* lt orders S, strictly and completely.
Orders(lt, S) ==
    /\ \A x \in S : <<x, x>> \notin lt
    /\ \A x, y \in S : x = y \/ <<x, y>> \in lt \/ <<y, x>> \in lt
    /\ \A x, y, z \in S : <<x, y>> \in lt /\ <<y, z>> \in lt => <<x, z>> \in lt

Above(lt, S, x) == {y \in S : <<x, y>> \in lt}

LEMMA HasFirst ==
    ASSUME NEW lt, NEW S, IsFiniteSet(S), S # {}, Orders(lt, S)
    PROVE  \E x \in S : \A y \in S \ {x} : <<x, y>> \in lt
  <1> DEFINE sizes == {Cardinality(Above(lt, S, x)) : x \in S}
  <1>1. Cardinality(S) \in Nat
    BY FS_CardinalityType
  <1>2. ASSUME NEW x \in S
        PROVE  /\ Above(lt, S, x) \in SUBSET S /\ IsFiniteSet(Above(lt, S, x))
               /\ Cardinality(Above(lt, S, x)) \in 0..Cardinality(S)
    <2>1. Above(lt, S, x) \in SUBSET S
      BY DEF Above
    <2>2. IsFiniteSet(Above(lt, S, x)) /\ Cardinality(Above(lt, S, x)) <= Cardinality(S)
      BY <2>1, FS_Subset
    <2>3. Cardinality(Above(lt, S, x)) \in Nat
      BY <2>2, FS_CardinalityType
    <2> QED BY <1>1, <2>1, <2>2, <2>3
  <1>3. sizes \in SUBSET (0..Cardinality(S)) /\ sizes # {}
    BY <1>2
  <1>4. PICK n \in sizes : \A m \in sizes : m <= n
    <2> HIDE DEF sizes
    <2> QED BY <1>1, <1>3, HasGreatest
  <1>5. PICK x \in S : n = Cardinality(Above(lt, S, x))
    BY <1>4
  <1>6. ASSUME NEW y \in S \ {x}, <<x, y>> \notin lt
        PROVE  FALSE
    <2>1. <<y, x>> \in lt
      BY <1>6 DEF Orders
    <2>2. Above(lt, S, x) \cup {x} \in SUBSET Above(lt, S, y)
      BY <2>1 DEF Orders, Above
    <2>3. x \notin Above(lt, S, x)
      BY DEF Orders, Above
    <2>4. /\ IsFiniteSet(Above(lt, S, x) \cup {x})
          /\ Cardinality(Above(lt, S, x) \cup {x}) = n + 1
      BY <1>2, <1>5, <2>3, FS_AddElement
    <2>5. n + 1 <= Cardinality(Above(lt, S, y))
      BY <1>2, <2>2, <2>4, FS_Subset
    <2>6. Cardinality(Above(lt, S, y)) <= n
      BY <1>4
    <2>7. n \in Int /\ Cardinality(Above(lt, S, y)) \in Int
      BY <1>2, <1>5
    <2> QED BY <2>5, <2>6, <2>7
  <1> QED BY <1>6
-----------------------------------------------------------------------------
(* The order of words.                                                      *)

LEMMA SortsBeforeTotal ==
    ASSUME NEW s \in Seq(Nat), NEW t \in Seq(Nat), s # t
    PROVE  SortsBefore(s, t) \/ SortsBefore(t, s)
  <1> DEFINE D == {i \in Nat : i \in DOMAIN s /\ i \in DOMAIN t /\ s[i] # t[i]}
  <1>0. /\ DOMAIN s = 1..Len(s) /\ DOMAIN t = 1..Len(t) /\ Len(s) \in Nat /\ Len(t) \in Nat
        /\ \A i \in 1..Len(s) : s[i] \in Nat
        /\ \A i \in 1..Len(t) : t[i] \in Nat
    OBVIOUS
  <1>1. CASE D # {}
    <2>1. PICK i \in D : \A k \in D : i <= k
      <3>1. D \in SUBSET Nat
        OBVIOUS
      <3> HIDE DEF D
      <3> QED BY <1>1, <3>1, HasLeast
    <2>2. \A j \in 1..(i - 1) : s[j] = t[j]
      <3> SUFFICES ASSUME NEW j \in 1..(i - 1) PROVE s[j] = t[j]
        OBVIOUS
      <3>1. j \in DOMAIN s /\ j \in DOMAIN t /\ j \in Nat /\ ~(i <= j)
        BY <1>0, <2>1
      <3> QED BY <2>1, <3>1
    <2>3. s[i] < t[i] \/ t[i] < s[i]
      BY <1>0, <2>1
    <2> QED BY <2>1, <2>2, <2>3 DEF SortsBefore
  <1>2. CASE D = {}
    <2>1. \A i \in Nat : i \in DOMAIN s /\ i \in DOMAIN t => s[i] = t[i]
      BY <1>2
    <2>2. CASE Len(s) = Len(t)
      <3>1. \A i \in 1..Len(s) : s[i] = t[i]
        BY <1>0, <2>1, <2>2
      <3> QED BY <2>2, <3>1, <1>0
    <2>3. CASE Len(s) < Len(t)
      <3>1. \A i \in DOMAIN s : s[i] = t[i]
        BY <1>0, <2>1, <2>3
      <3> QED BY <2>3, <3>1 DEF SortsBefore
    <2>4. CASE Len(t) < Len(s)
      <3>1. \A i \in DOMAIN t : t[i] = s[i]
        BY <1>0, <2>1, <2>4
      <3> QED BY <2>4, <3>1 DEF SortsBefore
    <2>5. Len(s) = Len(t) \/ Len(s) < Len(t) \/ Len(t) < Len(s)
      <3>1. Len(s) \in Int /\ Len(t) \in Int
        OBVIOUS
      <3> QED BY <3>1
    <2> QED BY <2>2, <2>3, <2>4, <2>5
  <1> QED BY <1>1, <1>2

LEMMA SortsBeforeIrreflexive ==
    ASSUME NEW s \in Seq(Nat)
    PROVE  ~SortsBefore(s, s)
BY DEF SortsBefore

LEMMA SortsBeforeTransitive ==
    ASSUME NEW s \in Seq(Nat), NEW t \in Seq(Nat), NEW u \in Seq(Nat),
           SortsBefore(s, t), SortsBefore(t, u)
    PROVE  SortsBefore(s, u)
  <1> DEFINE At(a, b, i) == /\ i \in DOMAIN a /\ i \in DOMAIN b /\ a[i] < b[i]
                            /\ \A j \in 1..(i - 1) : a[j] = b[j]
             Prefix(a, b) == Len(a) < Len(b) /\ \A i \in DOMAIN a : a[i] = b[i]
  <1>0. /\ DOMAIN s = 1..Len(s) /\ DOMAIN t = 1..Len(t) /\ DOMAIN u = 1..Len(u)
        /\ Len(s) \in Nat /\ Len(t) \in Nat /\ Len(u) \in Nat
        /\ \A i \in 1..Len(s) : s[i] \in Nat
        /\ \A i \in 1..Len(t) : t[i] \in Nat
        /\ \A i \in 1..Len(u) : u[i] \in Nat
    OBVIOUS
  <1>1. /\ Prefix(s, t) \/ \E i \in Nat : At(s, t, i)
        /\ Prefix(t, u) \/ \E i \in Nat : At(t, u, i)
    <2>1. \A i : i \in DOMAIN s \/ i \in DOMAIN t => i \in Nat
      BY <1>0
    <2> QED BY <2>1 DEF SortsBefore
  <1>2. (\E i \in Nat : At(s, u, i)) => SortsBefore(s, u)
    BY DEF SortsBefore
  <1>3. ASSUME NEW i \in Nat, At(s, t, i), NEW k \in Nat, At(t, u, k)
        PROVE  SortsBefore(s, u)
    <2>1. CASE i < k
      <3>1. At(s, u, i)
        BY <1>0, <1>3, <2>1
      <3> HIDE DEF At
      <3> QED BY <1>2, <3>1
    <2>2. CASE i = k
      <3>1. s[i] < u[i]
        BY <1>0, <1>3, <2>2
      <3>2. At(s, u, i)
        BY <1>0, <1>3, <2>2, <3>1
      <3> HIDE DEF At
      <3> QED BY <1>2, <3>2
    <2>3. CASE k < i
      <3>1. At(s, u, k)
        BY <1>0, <1>3, <2>3
      <3> HIDE DEF At
      <3> QED BY <1>2, <3>1
    <2> QED BY <2>1, <2>2, <2>3
  <1>4. ASSUME NEW i \in Nat, At(s, t, i), Prefix(t, u)
        PROVE  SortsBefore(s, u)
    <2>0. i \in 1..Len(t) /\ Len(t) < Len(u) /\ \A j \in 1..Len(t) : t[j] = u[j]
      BY <1>0, <1>4
    <2>1. i \in DOMAIN u /\ \A j \in 1..i : j \in DOMAIN t /\ t[j] = u[j]
      <3>1. \A j \in 1..i : j \in 1..Len(t)
        BY <2>0, <1>0
      <3>2. i \in 1..Len(u)
        BY <2>0, <1>0
      <3> QED BY <1>0, <2>0, <3>1, <3>2
    <2>2. i \in 1..i /\ \A j \in 1..(i - 1) : j \in 1..i
      BY <1>0, <1>4
    <2>3. At(s, u, i)
      BY <1>4, <2>1, <2>2
    <2> QED BY <1>2, <2>3
  <1>5. ASSUME Prefix(s, t), NEW k \in Nat, At(t, u, k)
        PROVE  SortsBefore(s, u)
    <2>1. CASE k \in DOMAIN s
      <3>0. k \in 1..Len(s) /\ Len(s) < Len(t) /\ \A j \in 1..Len(s) : s[j] = t[j]
        BY <1>0, <1>5, <2>1
      <3>1. k \in DOMAIN u /\ \A j \in 1..k : j \in DOMAIN s /\ s[j] = t[j]
        <4>1. \A j \in 1..k : j \in 1..Len(s)
          BY <3>0, <1>0
        <4> QED BY <1>0, <1>5, <3>0, <4>1
      <3>2. k \in 1..k /\ \A j \in 1..(k - 1) : j \in 1..k
        BY <1>0, <2>1
      <3>3. At(s, u, k)
        BY <1>5, <2>1, <3>1, <3>2
      <3> QED BY <1>2, <3>3
    <2>2. CASE k \notin DOMAIN s
      <3>1. Len(s) < Len(u) /\ \A i \in DOMAIN s : s[i] = u[i]
        BY <1>0, <1>5, <2>2
      <3> QED BY <3>1 DEF SortsBefore
    <2> QED BY <2>1, <2>2
  <1>6. ASSUME Prefix(s, t), Prefix(t, u)
        PROVE  SortsBefore(s, u)
    <2>1. Len(s) < Len(u) /\ \A i \in DOMAIN s : s[i] = u[i]
      BY <1>0, <1>6
    <2> QED BY <2>1 DEF SortsBefore
  <1> QED BY <1>1, <1>3, <1>4, <1>5, <1>6

LEMMA SortsBeforeAsymmetric ==
    ASSUME NEW s \in Seq(Nat), NEW t \in Seq(Nat), SortsBefore(s, t)
    PROVE  ~SortsBefore(t, s)
BY SortsBeforeTransitive, SortsBeforeIrreflexive
-----------------------------------------------------------------------------
(* Operations, and the one that makes a resource.                           *)

LEMMA OperationFields ==
    ASSUME NEW ops, IsOperations(ops), NEW o \in ops
    PROVE  /\ o.method \in {"GET", "POST", "PUT", "PATCH", "DELETE"}
           /\ o.path \in Seq(Nat) /\ o.path # <<>>
           /\ o.ref \in RefNames /\ o.items \in RefNames
BY DEF IsOperations

LEMMA SameOperation ==
    ASSUME NEW ops, IsOperations(ops), NEW o \in ops, NEW p \in ops,
           o.path = p.path, o.method = p.method
    PROVE  o = p
BY DEF IsOperations

LEMMA CountedParams ==
    ASSUME NEW path \in Seq(Nat)
    PROVE  Cardinality(PathParams(path)) \in Nat
  <1>1. PathParams(path) \in SUBSET (1..Len(path))
    BY DEF PathParams
  <1>2. IsFiniteSet(1..Len(path))
    BY FS_Interval
  <1> QED BY <1>1, <1>2, FS_Subset, FS_CardinalityType

\* The orders of paths.
MatchingOrder(paths) == {e \in paths \X paths : MatchesBefore(e[1], e[2])}

ShortestFirst(p, q) ==
    \/ Cardinality(PathParams(p)) < Cardinality(PathParams(q))
    \/ Cardinality(PathParams(p)) = Cardinality(PathParams(q)) /\ SortsBefore(p, q)

PreferredOrder(paths) == {e \in paths \X paths : ShortestFirst(e[1], e[2])}

LEMMA MatchingOrders ==
    ASSUME NEW paths \in SUBSET Seq(Nat)
    PROVE  Orders(MatchingOrder(paths), paths)
  <1>1. \A p, q \in paths : <<p, q>> \in MatchingOrder(paths) <=> MatchesBefore(p, q)
    BY DEF MatchingOrder
  <1>2. ASSUME NEW p \in paths
        PROVE  ~MatchesBefore(p, p)
    BY CountedParams, SortsBeforeIrreflexive DEF MatchesBefore
  <1>3. ASSUME NEW p \in paths, NEW q \in paths, p # q
        PROVE  MatchesBefore(p, q) \/ MatchesBefore(q, p)
    <2>1. SortsBefore(p, q) \/ SortsBefore(q, p)
      BY <1>3, SortsBeforeTotal
    <2>2. Cardinality(PathParams(p)) \in Nat /\ Cardinality(PathParams(q)) \in Nat
      BY CountedParams
    <2> QED BY <2>1, <2>2 DEF MatchesBefore
  <1>4. ASSUME NEW p \in paths, NEW q \in paths, NEW t \in paths,
               MatchesBefore(p, q), MatchesBefore(q, t)
        PROVE  MatchesBefore(p, t)
    <2>1. SortsBefore(q, p) /\ SortsBefore(t, q) => SortsBefore(t, p)
      BY SortsBeforeTransitive
    <2>2. /\ Cardinality(PathParams(p)) \in Nat /\ Cardinality(PathParams(q)) \in Nat
          /\ Cardinality(PathParams(t)) \in Nat
      BY CountedParams
    <2> QED BY <1>4, <2>1, <2>2 DEF MatchesBefore
  <1> QED BY <1>1, <1>2, <1>3, <1>4 DEF Orders

LEMMA PreferredOrders ==
    ASSUME NEW paths \in SUBSET Seq(Nat)
    PROVE  Orders(PreferredOrder(paths), paths)
  <1>1. \A p, q \in paths : <<p, q>> \in PreferredOrder(paths) <=> ShortestFirst(p, q)
    BY DEF PreferredOrder
  <1>2. ASSUME NEW p \in paths
        PROVE  ~ShortestFirst(p, p)
    BY CountedParams, SortsBeforeIrreflexive DEF ShortestFirst
  <1>3. ASSUME NEW p \in paths, NEW q \in paths, p # q
        PROVE  ShortestFirst(p, q) \/ ShortestFirst(q, p)
    <2>1. SortsBefore(p, q) \/ SortsBefore(q, p)
      BY <1>3, SortsBeforeTotal
    <2>2. Cardinality(PathParams(p)) \in Nat /\ Cardinality(PathParams(q)) \in Nat
      BY CountedParams
    <2> QED BY <2>1, <2>2 DEF ShortestFirst
  <1>4. ASSUME NEW p \in paths, NEW q \in paths, NEW t \in paths,
               ShortestFirst(p, q), ShortestFirst(q, t)
        PROVE  ShortestFirst(p, t)
    <2>1. SortsBefore(p, q) /\ SortsBefore(q, t) => SortsBefore(p, t)
      BY SortsBeforeTransitive
    <2>2. /\ Cardinality(PathParams(p)) \in Nat /\ Cardinality(PathParams(q)) \in Nat
          /\ Cardinality(PathParams(t)) \in Nat
      BY CountedParams
    <2> QED BY <1>4, <2>1, <2>2 DEF ShortestFirst
  <1> QED BY <1>1, <1>2, <1>3, <1>4 DEF Orders

PathsOf(ops) == {o.path : o \in ops}

LEMMA FinitelyManyPaths ==
    ASSUME NEW ops, IsFiniteSet(ops)
    PROVE  IsFiniteSet(PathsOf(ops))
  <1> DEFINE f == [o \in ops |-> o.path]
  <1>1. f \in Surjection(ops, PathsOf(ops))
    BY DEF Surjection, PathsOf
  <1> HIDE DEF f
  <1> QED BY <1>1, FS_Surjection

\* However paths are ordered, some operation of a set of creates comes first.
LEMMA FirstOperation ==
    ASSUME NEW ops, IsOperations(ops), NEW S \in SUBSET Creates(ops), S # {},
           NEW lt, Orders(lt, PathsOf(S)), NEW method \in [PathsOf(S) -> {"POST", "PUT"}]
    PROVE  \E o \in S : \A p \in S \ {o} :
              \/ <<o.path, p.path>> \in lt
              \/ o.path = p.path /\ o.method = method[o.path]
  <1>1. S \in SUBSET ops /\ IsFiniteSet(ops) /\ \A o \in S : o.method \in {"POST", "PUT"}
    BY DEF Creates, IsOperations
  <1>2. IsFiniteSet(PathsOf(S)) /\ PathsOf(S) # {}
    <2>1. IsFiniteSet(S)
      BY <1>1, FS_Subset
    <2> QED BY <2>1, FinitelyManyPaths DEF PathsOf
  <1>3. PICK path \in PathsOf(S) : \A q \in PathsOf(S) \ {path} : <<path, q>> \in lt
    BY <1>2, HasFirst
  <1>4. PICK o \in S : o.path = path /\ (\A p \in S : p.path = path => p = o \/ o.method = method[path])
    <2>1. PICK o \in S : o.path = path
      BY DEF PathsOf
    <2>2. CASE \E p \in S : p.path = path /\ p.method = method[path]
      BY <2>2
    <2>3. CASE \A p \in S : p.path = path => p.method # method[path]
      <3>1. ASSUME NEW p \in S, p.path = path
            PROVE  p = o
        <4>1. p.method = o.method
          BY <1>1, <2>1, <2>3, <3>1
        <4> QED BY <1>1, <2>1, <3>1, <4>1, SameOperation
      <3> QED BY <2>1, <3>1
    <2> QED BY <2>2, <2>3
  <1>5. ASSUME NEW p \in S \ {o}
        PROVE  \/ <<o.path, p.path>> \in lt
               \/ o.path = p.path /\ o.method = method[o.path]
    <2>1. p.path \in PathsOf(S)
      BY DEF PathsOf
    <2> QED BY <1>3, <1>4, <2>1
  <1> QED BY <1>5

LEMMA CreateIsOperation ==
    ASSUME NEW ops, IsOperations(ops), NEW r \in ops, NEW first
    PROVE  /\ CreateOf(ops, r, first) \subseteq ops
           /\ \A c \in CreateOf(ops, r, first) : c.method \in {"POST", "PUT"}
  <1> DEFINE m(S) == [path \in PathsOf(S) |-> IF path \in first THEN "PUT" ELSE "POST"]
  <1>0. /\ Creates(ops) \subseteq ops
        /\ \A c \in Creates(ops) : c.method \in {"POST", "PUT"}
        /\ Matches(ops, r) \subseteq Creates(ops) /\ Allowlisted(ops, r) \subseteq Creates(ops)
        /\ OnParent(ops, r) \subseteq Creates(ops)
    BY DEF Creates, Matches, Allowlisted, OnParent
  <1>1. ASSUME NEW S \in SUBSET Creates(ops)
        PROVE  PathsOf(S) \in SUBSET Seq(Nat) /\ m(S) \in [PathsOf(S) -> {"POST", "PUT"}]
    BY <1>0, OperationFields DEF PathsOf
  <1>2. CASE Matches(ops, r) # {}
    <2> DEFINE S == Matches(ops, r)
    <2> HIDE DEF S
    <2>0. S \in SUBSET Creates(ops) /\ S # {}
      BY <1>0, <1>2 DEF S
    <2>1. Orders(PreferredOrder(PathsOf(S)), PathsOf(S))
      BY <1>1, <2>0, PreferredOrders
    <2>2. m(S) \in [PathsOf(S) -> {"POST", "PUT"}]
      BY <1>1, <2>0
    <2> HIDE DEF m
    <2>3. PICK o \in S : \A p \in S \ {o} :
              \/ <<o.path, p.path>> \in PreferredOrder(PathsOf(S))
              \/ o.path = p.path /\ o.method = m(S)[o.path]
      BY <2>0, <2>1, <2>2, FirstOperation
    <2>4. m(S)[o.path] = (IF o.path \in first THEN "PUT" ELSE "POST")
      BY DEF m, PathsOf
    <2>5. \A p \in S \ {o} : Preferred(o, p, first)
      BY <2>3, <2>4 DEF Preferred, PreferredOrder, ShortestFirst, RangedBefore
    <2>6. (CHOOSE c \in S : \A p \in S \ {c} : Preferred(c, p, first)) \in S
      BY <2>5
    <2>7. CreateOf(ops, r, first) \subseteq S
      BY <1>2, <2>6 DEF CreateOf, S
    <2> QED BY <1>0, <2>0, <2>7
  <1>3. CASE Matches(ops, r) = {} /\ OnParent(ops, r) # {}
    BY <1>0, <1>3 DEF CreateOf
  <1>4. CASE /\ Matches(ops, r) = {} /\ OnParent(ops, r) = {}
             /\ Allowlisted(ops, r) # {}
    <2> DEFINE S == Allowlisted(ops, r)
    <2> HIDE DEF S
    <2>0. S \in SUBSET Creates(ops) /\ S # {}
      BY <1>0, <1>4 DEF S
    <2>1. Orders(MatchingOrder(PathsOf(S)), PathsOf(S))
      BY <1>1, <2>0, MatchingOrders
    <2>2. m(S) \in [PathsOf(S) -> {"POST", "PUT"}]
      BY <1>1, <2>0
    <2> HIDE DEF m
    <2>3. PICK o \in S : \A p \in S \ {o} :
              \/ <<o.path, p.path>> \in MatchingOrder(PathsOf(S))
              \/ o.path = p.path /\ o.method = m(S)[o.path]
      BY <2>0, <2>1, <2>2, FirstOperation
    <2>4. m(S)[o.path] = (IF o.path \in first THEN "PUT" ELSE "POST")
      BY DEF m, PathsOf
    <2>5. \A p \in S \ {o} : RangedBefore(o, p, first)
      BY <2>3, <2>4 DEF MatchingOrder, RangedBefore
    <2>6. First(S, first) \in S
      BY <2>5 DEF First
    <2>7. CreateOf(ops, r, first) \subseteq S
      BY <1>4, <2>6 DEF CreateOf, S
    <2> QED BY <1>0, <2>0, <2>7
  <1>5. CASE Matches(ops, r) = {} /\ OnParent(ops, r) = {} /\ Allowlisted(ops, r) = {}
    BY <1>5 DEF CreateOf
  <1> QED BY <1>2, <1>3, <1>4, <1>5
-----------------------------------------------------------------------------
(* Names.                                                                   *)

LEMMA LastLiteralType ==
    ASSUME NEW path \in Seq(Nat)
    PROVE  LastLiteral(path) \in Nat
  <1> DEFINE literals == {i \in DOMAIN path : IsLiteral(path[i])}
  <1>1. literals \in SUBSET (0..Len(path)) /\ literals \subseteq DOMAIN path /\ Len(path) \in Nat
    OBVIOUS
  <1>2. LastLiteral(path) = IF literals = {} THEN 0
                            ELSE path[CHOOSE i \in literals : \A j \in literals : j <= i]
    BY DEF LastLiteral
  <1> HIDE DEF literals
  <1>3. CASE literals # {}
    <2>1. \E i \in literals : \A j \in literals : j <= i
      BY <1>1, <1>3, HasGreatest
    <2>2. PICK i \in DOMAIN path : LastLiteral(path) = path[i]
      BY <1>1, <1>2, <1>3, <2>1
    <2> QED BY <2>2
  <1> QED BY <1>2, <1>3

LEMMA NameForType ==
    ASSUME NEW ref \in RefNames, NEW path \in Seq(Nat)
    PROVE  /\ NameFor(ref, path).service \in Seq(Nat)
           /\ NameFor(ref, path).noun \in Seq(Nat)
  <1>1. NoName = [service |-> <<>>, version |-> 0, noun |-> <<>>]
    BY DEF NoName
  <1>2. [NoName EXCEPT !.noun = <<LastLiteral(path)>>]
            = [service |-> <<>>, version |-> 0, noun |-> <<LastLiteral(path)>>]
    BY <1>1
  <1>3. <<LastLiteral(path)>> \in Seq(Nat) /\ <<>> \in Seq(Nat)
    BY LastLiteralType
  <1>4. ref.service \in Seq(Nat) /\ ref.noun \in Seq(Nat)
    BY DEF RefNames
  <1> QED BY <1>2, <1>3, <1>4 DEF NameFor

LEMMA OverlapBounds ==
    ASSUME NEW tail \in Seq(Nat)
    PROVE  Overlap(tail) \in 0..Len(tail)
  <1> DEFINE fits == {k \in 1..Len(tail) : /\ k <= Len(Provider)
                                           /\ \A i \in 1..k : Provider[Len(Provider) - k + i] = tail[i]}
  <1>1. fits \in SUBSET (0..Len(tail)) /\ Len(tail) \in Nat
    OBVIOUS
  <1>2. Overlap(tail) = IF fits = {} THEN 0 ELSE CHOOSE k \in fits : \A l \in fits : l <= k
    BY DEF Overlap
  <1> HIDE DEF fits
  <1>3. CASE fits # {}
    <2>1. \E k \in fits : \A l \in fits : l <= k
      BY <1>1, <1>3, HasGreatest
    <2> QED BY <1>1, <1>2, <1>3, <2>1
  <1> QED BY <1>1, <1>2, <1>3

LEMMA WithoutOverlapType ==
    ASSUME NEW tail \in Seq(Nat)
    PROVE  WithoutOverlap(tail) \in Seq(Nat)
  <1>1. Overlap(tail) + 1 \in 1..(Len(tail) + 1)
    BY OverlapBounds
  <1> QED BY <1>1 DEF WithoutOverlap

\* The rounds of Trimmed, n of them.
Rounds(tail, n, f) ==
    /\ f \in [0..n -> Seq(Nat)]
    /\ f[0] = tail
    /\ \A i \in 1..n : f[i] = WithoutOverlap(f[i - 1])

LEMMA RoundsExist ==
    ASSUME NEW tail \in Seq(Nat), NEW n \in Nat
    PROVE  \E f : Rounds(tail, n, f)
  <1> DEFINE S == {j \in Nat : \A g : ~Rounds(tail, j, g)}
  <1> SUFFICES ASSUME S # {} PROVE FALSE
    OBVIOUS
  <1>1. PICK j \in S : \A k \in S : j <= k
    <2>1. S \in SUBSET Nat
      OBVIOUS
    <2> HIDE DEF S
    <2> QED BY <2>1, HasLeast
  <1>2. j # 0
    <2> DEFINE g == [i \in 0..0 |-> tail]
    <2>1. g \in [0..0 -> Seq(Nat)] /\ g[0] = tail
      OBVIOUS
    <2>2. 1..0 = {}
      OBVIOUS
    <2> HIDE DEF g
    <2>3. Rounds(tail, 0, g)
      BY <2>1, <2>2 DEF Rounds
    <2> QED BY <1>1, <2>3
  <1>3. PICK g : Rounds(tail, j - 1, g)
    <2>1. j - 1 \in Nat /\ ~(j <= j - 1)
      BY <1>2
    <2>2. j - 1 \notin S
      BY <1>1, <2>1
    <2> QED BY <2>1, <2>2
  <1> DEFINE h == [i \in 0..j |-> IF i = j THEN WithoutOverlap(g[j - 1]) ELSE g[i]]
  <1>4. \A i \in 0..(j - 1) : g[i] \in Seq(Nat)
    BY <1>3 DEF Rounds
  <1>5. /\ j - 1 \in 0..(j - 1) /\ j \in 0..j /\ 0 \in 0..(j - 1) /\ 0 # j
        /\ \A i \in 0..j : i # j => i \in 0..(j - 1)
    BY <1>2
  <1>6. h \in [0..j -> Seq(Nat)]
    BY <1>4, <1>5, WithoutOverlapType
  <1>7. h[0] = tail
    BY <1>3, <1>5 DEF Rounds
  <1>8. ASSUME NEW i \in 1..j
        PROVE  h[i] = WithoutOverlap(h[i - 1])
    <2>1. i \in 0..j /\ i - 1 \in 0..j /\ i - 1 # j /\ i - 1 \in 0..(j - 1)
      OBVIOUS
    <2>2. h[i - 1] = g[i - 1]
      BY <2>1
    <2>3. CASE i = j
      BY <2>1, <2>2, <2>3
    <2>4. CASE i # j
      <3>1. i \in 1..(j - 1) /\ h[i] = g[i]
        BY <2>1, <2>4
      <3>2. g[i] = WithoutOverlap(g[i - 1])
        BY <1>3, <3>1 DEF Rounds
      <3> QED BY <2>2, <3>1, <3>2
    <2> QED BY <2>3, <2>4
  <1> HIDE DEF h
  <1>9. Rounds(tail, j, h)
    BY <1>6, <1>7, <1>8 DEF Rounds
  <1> QED BY <1>1, <1>9

LEMMA TrimmedType ==
    ASSUME NEW tail \in Seq(Nat)
    PROVE  Trimmed(tail) \in Seq(Nat)
  <1> DEFINE n == Len(tail)
             Body(f, i) == IF i = 0 THEN tail ELSE WithoutOverlap(f[i - 1])
             rest == CHOOSE f : f = [i \in 0..n |-> Body(f, i)]
  <1>1. Trimmed(tail) = rest[n] /\ n \in Nat
    BY DEF Trimmed
  <1> HIDE DEF n
  <1>2. \E f : f = [i \in 0..n |-> Body(f, i)]
    <2>1. PICK f : Rounds(tail, n, f)
      BY <1>1, RoundsExist
    <2>2. \A i \in 0..n : f[i] = Body(f, i)
      <3>1. \A i \in 0..n : i # 0 => i \in 1..n
        BY <1>1
      <3> QED BY <2>1, <3>1 DEF Rounds
    <2>3. f = [i \in 0..n |-> f[i]]
      BY <2>1 DEF Rounds
    <2> QED BY <2>2, <2>3
  <1>3. rest = [i \in 0..n |-> Body(rest, i)]
    BY <1>2
  <1> HIDE DEF rest
  <1> DEFINE S == {i \in Nat : i \in 0..n /\ rest[i] \notin Seq(Nat)}
  <1>4. S = {}
    <2> SUFFICES ASSUME S # {} PROVE FALSE
      OBVIOUS
    <2>1. PICK i \in S : \A k \in S : i <= k
      <3>1. S \in SUBSET Nat
        OBVIOUS
      <3> HIDE DEF S
      <3> QED BY <3>1, HasLeast
    <2>2. i \in 0..n /\ rest[i] = Body(rest, i)
      BY <1>3, <2>1
    <2>3. CASE i = 0
      BY <2>1, <2>2, <2>3
    <2>4. CASE i # 0
      <3>1. i - 1 \in 0..n /\ i - 1 \in Nat /\ ~(i <= i - 1)
        BY <1>1, <2>2, <2>4
      <3>2. rest[i - 1] \in Seq(Nat)
        BY <2>1, <3>1
      <3> QED BY <2>1, <2>2, <2>4, <3>2, WithoutOverlapType
    <2> QED BY <2>3, <2>4
  <1>5. n \in 0..n /\ n \in Nat
    BY <1>1
  <1> QED BY <1>1, <1>4, <1>5

LEMMA BaseNameType ==
    ASSUME NEW ops, IsOperations(ops), NEW o \in ops
    PROVE  BaseName(o) \in Seq(Nat)
  <1> DEFINE n == NameFor(o.ref, o.path)
  <1>1. n.service \in Seq(Nat) /\ n.noun \in Seq(Nat)
    BY OperationFields, NameForType
  <1> HIDE DEF n
  <1>2. Trimmed(n.service \o n.noun) \in Seq(Nat) /\ Provider \in Seq(Nat)
    <2>1. n.service \o n.noun \in Seq(Nat)
      BY <1>1
    <2> QED BY <2>1, TrimmedType, MappingAssumption
  <1>3. Combine(n.service, n.noun) \in Seq(Nat)
    BY <1>2 DEF Combine
  <1> QED BY <1>3 DEF BaseName, n
-----------------------------------------------------------------------------
(* Names are unique.                                                        *)

\* What Discover finds is independent of the order of methods.
LEMMA CandidatesAre ==
    ASSUME NEW ops, IsOperations(ops), NEW first
    PROVE  /\ Candidates(ops, first) = Candidates(ops, {})
           /\ Candidates(ops, first) \subseteq Reads(ops)
           /\ Reads(ops) \subseteq ops
           /\ \A r \in Reads(ops) : r.method = "GET"
  <1>1. ASSUME NEW r
        PROVE  CreateOf(ops, r, first) # {} <=> CreateOf(ops, r, {}) # {}
    BY DEF CreateOf
  <1> QED BY <1>1 DEF Candidates, Reads

LEMMA VersionType ==
    ASSUME NEW ops, IsOperations(ops), NEW r \in ops
    PROVE  /\ Version(r) \in Versions \cup {Unversioned}
           /\ Version(r) # Unversioned => Priority(Version(r)) \in Seq(Nat)
  <1>1. r.ref \in RefNames
    BY OperationFields
  <1>2. Version(r) \in Versions \cup {Unversioned}
    BY <1>1 DEF Version, RefNames
  <1> QED BY <1>2, MappingAssumption

LEMMA OutranksAsymmetric ==
    ASSUME NEW ops, IsOperations(ops), NEW a \in ops, NEW b \in ops, Outranks(a, b)
    PROVE  ~Outranks(b, a)
  <1>1. a.path \in Seq(Nat) /\ b.path \in Seq(Nat)
    BY OperationFields
  <1>2. CASE Version(a) # Unversioned /\ Version(b) # Unversioned
             /\ Priority(Version(a)) # Priority(Version(b))
    <2>1. Higher(Version(a), Version(b))
      BY <1>2 DEF Outranks
    <2>2. ~Higher(Version(b), Version(a))
      BY <1>2, <2>1, VersionType, SortsBeforeAsymmetric DEF Higher
    <2> QED BY <1>2, <2>2 DEF Outranks
  <1>3. CASE (Version(a) # Unversioned) # (Version(b) # Unversioned)
    BY <1>3 DEF Outranks
  <1>4. CASE /\ ~(Version(a) # Unversioned /\ Version(b) # Unversioned
                     /\ Priority(Version(a)) # Priority(Version(b)))
             /\ (Version(a) # Unversioned) = (Version(b) # Unversioned)
    <2>1. SortsBefore(a.path, b.path)
      BY <1>4 DEF Outranks
    <2>2. ~SortsBefore(b.path, a.path)
      BY <1>1, <2>1, SortsBeforeAsymmetric
    <2> QED BY <1>4, <2>2 DEF Outranks
  <1> QED BY <1>2, <1>3, <1>4

LEMMA OutranksTotal ==
    ASSUME NEW ops, IsOperations(ops), NEW a \in Reads(ops), NEW b \in Reads(ops), a # b
    PROVE  Outranks(a, b) \/ Outranks(b, a)
  <1>1. a \in ops /\ b \in ops /\ a.method = b.method
    BY DEF Reads
  <1>2. a.path \in Seq(Nat) /\ b.path \in Seq(Nat) /\ a.path # b.path
    BY <1>1, OperationFields, SameOperation
  <1>3. CASE Version(a) # Unversioned /\ Version(b) # Unversioned
             /\ Priority(Version(a)) # Priority(Version(b))
    <2>1. Higher(Version(a), Version(b)) \/ Higher(Version(b), Version(a))
      BY <1>1, <1>3, VersionType, SortsBeforeTotal DEF Higher
    <2> QED BY <1>3, <2>1 DEF Outranks
  <1>4. CASE (Version(a) # Unversioned) # (Version(b) # Unversioned)
    BY <1>4 DEF Outranks
  <1>5. CASE /\ ~(Version(a) # Unversioned /\ Version(b) # Unversioned
                     /\ Priority(Version(a)) # Priority(Version(b)))
             /\ (Version(a) # Unversioned) = (Version(b) # Unversioned)
    <2>1. SortsBefore(a.path, b.path) \/ SortsBefore(b.path, a.path)
      BY <1>2, SortsBeforeTotal
    <2> QED BY <1>5, <2>1 DEF Outranks
  <1> QED BY <1>3, <1>4, <1>5

LEMMA ConsideredBeforeTotal ==
    ASSUME NEW ops, IsOperations(ops), NEW a \in Reads(ops), NEW b \in Reads(ops), a # b
    PROVE  ConsideredBefore(a, b) \/ ConsideredBefore(b, a)
  <1>1. BaseName(a) \in Seq(Nat) /\ BaseName(b) \in Seq(Nat)
    BY BaseNameType DEF Reads
  <1>2. Outranks(a, b) \/ Outranks(b, a)
    BY OutranksTotal
  <1> QED BY <1>1, <1>2, SortsBeforeTotal DEF ConsideredBefore

LEMMA DiscoveredAre ==
    ASSUME NEW ops, NEW first
    PROVE  /\ \A x \in Discovered(ops, first) : \E r \in Candidates(ops, first) :
                 /\ Named(r, Candidates(ops, first))
                 /\ x = Resource(ops, r, NameWanted(r, Candidates(ops, first)), first)
                 /\ x.read = r /\ x.type = NameWanted(r, Candidates(ops, first))
                 /\ x.create = CHOOSE o \in CreateOf(ops, r, first) : TRUE
           /\ \A r \in Candidates(ops, first) : Named(r, Candidates(ops, first)) =>
                 \E x \in Discovered(ops, first) :
                     x.read = r /\ x.type = NameWanted(r, Candidates(ops, first))
  <1>1. \A r, type : /\ Resource(ops, r, type, first).read = r
                     /\ Resource(ops, r, type, first).type = type
                     /\ Resource(ops, r, type, first).create = CHOOSE o \in CreateOf(ops, r, first) : TRUE
    BY DEF Resource
  <1>2. \A x : x \in Discovered(ops, first) <=>
              \E r \in Candidates(ops, first) :
                  /\ Named(r, Candidates(ops, first))
                  /\ x = Resource(ops, r, NameWanted(r, Candidates(ops, first)), first)
    BY DEF Discovered
  <1> QED BY <1>1, <1>2

\* Two resources of a type are one.
LEMMA UniqueNames ==
    ASSUME NEW ops, IsOperations(ops), NoTwinNames(ops), NEW first,
           NEW x \in Discovered(ops, first), NEW y \in Discovered(ops, first), x.type = y.type
    PROVE  x = y
  <1> DEFINE cands == Candidates(ops, first)
  <1>1. PICK r \in cands : /\ Named(r, cands) /\ x = Resource(ops, r, NameWanted(r, cands), first)
                           /\ x.type = NameWanted(r, cands)
    BY DiscoveredAre
  <1>2. PICK s \in cands : /\ Named(s, cands) /\ y = Resource(ops, s, NameWanted(s, cands), first)
                           /\ y.type = NameWanted(s, cands)
    BY DiscoveredAre
  <1>3. cands = Candidates(ops, {}) /\ cands \subseteq Reads(ops) /\ Reads(ops) \subseteq ops
    BY CandidatesAre
  <1> HIDE DEF cands
  <1> SUFFICES ASSUME r # s PROVE FALSE
    BY <1>1, <1>2
  <1>4. NameWanted(r, cands) = NameWanted(s, cands)
    BY <1>1, <1>2
  <1>5. \A a, b \in cands : Version(a) # Unversioned => BaseName(b) # VersionedName(a.ref)
    BY <1>3 DEF NoTwinNames
  <1>6. CASE Wins(r, cands) /\ Wins(s, cands)
    <2>1. s \in Rivals(r, cands) /\ r \in Rivals(s, cands)
      BY <1>4, <1>6 DEF NameWanted, Rivals
    <2>2. Outranks(r, s) /\ Outranks(s, r)
      BY <1>6, <2>1 DEF Wins
    <2> QED BY <1>3, <2>2, OutranksAsymmetric
  <1>7. CASE Wins(r, cands) /\ ~Wins(s, cands)
    BY <1>2, <1>4, <1>5, <1>7 DEF NameWanted, Named
  <1>8. CASE ~Wins(r, cands) /\ Wins(s, cands)
    BY <1>1, <1>4, <1>5, <1>8 DEF NameWanted, Named
  <1>9. CASE ~Wins(r, cands) /\ ~Wins(s, cands)
    <2>1. ConsideredBefore(r, s) \/ ConsideredBefore(s, r)
      BY <1>3, ConsideredBeforeTotal
    <2> QED BY <1>1, <1>2, <1>4, <1>9, <2>1 DEF Named
  <1> QED BY <1>6, <1>7, <1>8, <1>9
-----------------------------------------------------------------------------
(* A type published in one more version.                                    *)

Copy(r, v, o) ==
    [o EXCEPT !.path = NewRoot(@), !.ref = IF @ = r.ref THEN InVersion(@, v) ELSE @]

Copies(ops, r, v) == {Copy(r, v, o) : o \in {r} \cup CreateOf(ops, r, {})}

Published(ops, r, v) ==
    /\ IsOperations(ops)
    /\ \A o \in ops : o.path[1] # NewWord
    /\ r \in Candidates(ops, {})
    /\ v \in Versions

LEMMA NewRoots ==
    ASSUME NEW p \in Seq(Nat)
    PROVE  /\ NewRoot(p) \in Seq(Nat) /\ NewRoot(p) # <<>>
           /\ Len(NewRoot(p)) = Len(p) + 1
           /\ NewRoot(p)[1] = NewWord
           /\ \A i \in 1..Len(p) : NewRoot(p)[i + 1] = p[i]
  <1>1. <<NewWord>> \in Seq(Nat) /\ Len(<<NewWord>>) = 1
    BY DEF NewWord
  <1> QED BY <1>1 DEF NewRoot

LEMMA NewRootOneToOne ==
    ASSUME NEW p \in Seq(Nat), NEW q \in Seq(Nat), NewRoot(p) = NewRoot(q)
    PROVE  p = q
  <1>1. Len(p) = Len(q)
    <2>1. Len(p) + 1 = Len(q) + 1
      BY NewRoots
    <2> QED BY <2>1
  <1>2. ASSUME NEW i \in 1..Len(p)
        PROVE  p[i] = q[i]
    <2>1. NewRoot(p)[i + 1] = p[i]
      BY NewRoots
    <2>2. NewRoot(q)[i + 1] = q[i]
      BY <1>1, NewRoots
    <2> QED BY <2>1, <2>2
  <1> QED BY <1>1, <1>2

LEMMA InVersionType ==
    ASSUME NEW ref \in RefNames, NEW v \in Versions
    PROVE  /\ InVersion(ref, v) \in RefNames
           /\ InVersion(ref, v).service = ref.service
           /\ InVersion(ref, v).noun = ref.noun
           /\ InVersion(ref, v).version = v
BY DEF InVersion, RefNames

LEMMA CopyFields ==
    ASSUME NEW ops, IsOperations(ops), NEW o \in ops, NEW r, NEW v
    PROVE  /\ DOMAIN Copy(r, v, o) = DOMAIN o
           /\ Copy(r, v, o).method = o.method
           /\ Copy(r, v, o).path = NewRoot(o.path)
           /\ Copy(r, v, o).ref = IF o.ref = r.ref THEN InVersion(o.ref, v) ELSE o.ref
           /\ Copy(r, v, o).items = o.items
           /\ Copy(r, v, o).response = o.response
  <1>1. DOMAIN o = {"method", "path", "verbs", "request", "response", "ref", "items", "params"}
    BY DEF IsOperations
  <1> QED BY <1>1 DEF Copy

LEMMA MoreAre ==
    ASSUME NEW ops, NEW r, NEW v
    PROVE  WithVersion(ops, r, v) = ops \cup Copies(ops, r, v)
BY DEF WithVersion, Copies, Copy

LEMMA CopiedFrom ==
    ASSUME NEW ops, NEW r, NEW v, Published(ops, r, v), NEW m \in Copies(ops, r, v)
    PROVE  \E o \in ops : /\ m = Copy(r, v, o)
                          /\ o = r \/ (o \in CreateOf(ops, r, {}) /\ o.method \in {"POST", "PUT"})
  <1>1. PICK o \in {r} \cup CreateOf(ops, r, {}) : m = Copy(r, v, o)
    BY DEF Copies
  <1>2. IsOperations(ops) /\ r \in ops
    BY CandidatesAre DEF Published
  <1> QED BY <1>1, <1>2, CreateIsOperation

LEMMA CopiesAreFinite ==
    ASSUME NEW ops, NEW r, NEW v, Published(ops, r, v)
    PROVE  IsFiniteSet(Copies(ops, r, v))
  <1> DEFINE S == {r} \cup CreateOf(ops, r, {})
             f == [o \in S |-> Copy(r, v, o)]
  <1>1. S \in SUBSET ops /\ IsFiniteSet(ops)
    BY CandidatesAre, CreateIsOperation DEF Published, IsOperations
  <1>2. Copies(ops, r, v) = {Copy(r, v, o) : o \in S}
    BY DEF Copies
  <1> HIDE DEF S
  <1>3. f \in Surjection(S, Copies(ops, r, v))
    BY <1>2 DEF Surjection
  <1>4. IsFiniteSet(S)
    BY <1>1, FS_Subset
  <1> HIDE DEF f
  <1> QED BY <1>3, <1>4, FS_Surjection

\* What is published is a document still.
LEMMA MoreOperations ==
    ASSUME NEW ops, NEW r, NEW v, Published(ops, r, v)
    PROVE  IsOperations(WithVersion(ops, r, v))
  <1> DEFINE more == WithVersion(ops, r, v)
             copied == Copies(ops, r, v)
  <1>1. more = ops \cup copied
    BY MoreAre
  <1>2. IsOperations(ops) /\ \A o \in ops : o.path[1] # NewWord
    BY DEF Published
  <1>3. ASSUME NEW m \in copied
        PROVE  /\ DOMAIN m = {"method", "path", "verbs", "request", "response", "ref", "items", "params"}
               /\ m.method \in {"GET", "POST", "PUT", "PATCH", "DELETE"}
               /\ m.path \in Seq(Nat) \ {<<>>} /\ m.path[1] = NewWord
               /\ {m.ref, m.items} \subseteq RefNames
    <2>1. PICK o \in ops : m = Copy(r, v, o)
      BY CopiedFrom
    <2>2. /\ DOMAIN m = DOMAIN o /\ m.method = o.method /\ m.path = NewRoot(o.path)
          /\ m.ref = (IF o.ref = r.ref THEN InVersion(o.ref, v) ELSE o.ref)
          /\ m.items = o.items
      BY <1>2, <2>1, CopyFields
    <2>3. v \in Versions
      BY DEF Published
    <2>4. m.ref \in RefNames /\ m.items \in RefNames
      BY <1>2, <2>2, <2>3, OperationFields, InVersionType
    <2>5. m.path \in Seq(Nat) \ {<<>>} /\ m.path[1] = NewWord
      <3>1. o.path \in Seq(Nat)
        BY <1>2, OperationFields
      <3> QED BY <2>2, <3>1, NewRoots
    <2> QED BY <1>2, <2>2, <2>4, <2>5 DEF IsOperations
  <1>4. ASSUME NEW o \in copied, NEW p \in copied, o.path = p.path, o.method = p.method
        PROVE  o = p
    <2>1. PICK a \in ops : o = Copy(r, v, a)
      BY CopiedFrom
    <2>2. PICK b \in ops : p = Copy(r, v, b)
      BY CopiedFrom
    <2>3. NewRoot(a.path) = NewRoot(b.path) /\ a.method = b.method
      BY <1>2, <1>4, <2>1, <2>2, CopyFields
    <2>4. a.path = b.path
      BY <1>2, <2>3, OperationFields, NewRootOneToOne
    <2> QED BY <1>2, <2>1, <2>2, <2>3, <2>4, SameOperation
  <1>5. IsFiniteSet(more)
    <2>1. IsFiniteSet(ops)
      BY <1>2 DEF IsOperations
    <2>2. IsFiniteSet(copied)
      BY CopiesAreFinite
    <2> HIDE DEF more, copied
    <2> QED BY <1>1, <2>1, <2>2, FS_Union
  <1> HIDE DEF more, copied
  <1>6. \A o, p \in more : o.path = p.path /\ o.method = p.method => o = p
    BY <1>1, <1>2, <1>3, <1>4, SameOperation
  <1>7. \A o \in more :
          /\ DOMAIN o = {"method", "path", "verbs", "request", "response", "ref", "items", "params"}
          /\ o.method \in {"GET", "POST", "PUT", "PATCH", "DELETE"}
          /\ o.path \in Seq(Nat) \ {<<>>}
          /\ {o.ref, o.items} \subseteq RefNames
    BY <1>1, <1>2, <1>3 DEF IsOperations
  <1>8. IsOperations(more)
    BY <1>5, <1>6, <1>7 DEF IsOperations
  <1> QED BY <1>8 DEF more

LEMMA CreateExists ==
    ASSUME NEW ops, NEW r, NEW first
    PROVE  CreateOf(ops, r, first) # {} <=>
              \/ Matches(ops, r) # {}
              \/ OnParent(ops, r) # {}
              \/ Allowlisted(ops, r) # {}
BY DEF CreateOf

LEMMA CandidatesRemain ==
    ASSUME NEW ops, NEW more, ops \subseteq more
    PROVE  Candidates(ops, {}) \subseteq Candidates(more, {})
  <1>1. ASSUME NEW r
        PROVE  /\ Matches(ops, r) \subseteq Matches(more, r)
               /\ OnParent(ops, r) \subseteq OnParent(more, r)
               /\ Allowlisted(ops, r) \subseteq Allowlisted(more, r)
    BY DEF Matches, OnParent, Allowlisted, Creates
  <1>2. ASSUME NEW r, CreateOf(ops, r, {}) # {}
        PROVE  CreateOf(more, r, {}) # {}
    BY <1>1, <1>2, CreateExists
  <1> QED BY <1>2 DEF Candidates, Reads

\* Whatever becomes a candidate bears the new name.
LEMMA NewCandidates ==
    ASSUME NEW ops, NEW r, NEW v, Published(ops, r, v),
           NEW n \in Candidates(WithVersion(ops, r, v), {}), n \notin Candidates(ops, {})
    PROVE  n.ref = InVersion(r.ref, v)
  <1> DEFINE more == WithVersion(ops, r, v)
             copied == Copies(ops, r, v)
  <1>0. more = ops \cup copied /\ IsOperations(ops) /\ (\A o \in ops : o.path[1] # NewWord)
    BY MoreAre DEF Published
  <1>1. ASSUME NEW m \in copied
        PROVE  \E o \in ops : /\ m.method = o.method /\ m.path = NewRoot(o.path)
                              /\ m.response = o.response
                              /\ m.ref = (IF o.ref = r.ref THEN InVersion(o.ref, v) ELSE o.ref)
                              /\ o = r \/ o.method \in {"POST", "PUT"}
                              /\ m.path \in Seq(Nat) /\ Len(m.path) > 1 /\ m.path[1] = NewWord
    <2>1. PICK o \in ops : /\ m.method = o.method /\ m.path = NewRoot(o.path)
                           /\ m.response = o.response
                           /\ m.ref = (IF o.ref = r.ref THEN InVersion(o.ref, v) ELSE o.ref)
                           /\ o = r \/ o.method \in {"POST", "PUT"}
      BY <1>0, CopiedFrom, CopyFields
    <2>2. o.path \in Seq(Nat) /\ Len(o.path) > 0
      BY <1>0, OperationFields
    <2>3. NewRoot(o.path) \in Seq(Nat) /\ Len(NewRoot(o.path)) > 1 /\ NewRoot(o.path)[1] = NewWord
      <3>1. /\ NewRoot(o.path) \in Seq(Nat) /\ NewRoot(o.path)[1] = NewWord
            /\ Len(NewRoot(o.path)) = Len(o.path) + 1
        BY <2>2, NewRoots
      <3>2. Len(o.path) \in Nat
        BY <2>2
      <3> QED BY <2>2, <3>1, <3>2
    <2> QED BY <2>1, <2>3
  <1>2. n \in Reads(more) /\ n.response # NoSchema /\ CreateOf(more, n, {}) # {}
    BY DEF Candidates
  <1> HIDE DEF more, copied
  <1>3. CASE n \in copied
    BY <1>1, <1>2, <1>3 DEF Reads
  <1>4. CASE n \in ops
    <2>1. CreateOf(ops, n, {}) = {}
      BY <1>2, <1>4 DEF Candidates, Reads
    <2>2. Matches(ops, n) = {} /\ OnParent(ops, n) = {} /\ Allowlisted(ops, n) = {}
      BY <2>1, CreateExists
    <2>3. n.path \in Seq(Nat) /\ n.path # <<>> /\ n.path[1] # NewWord
      BY <1>0, <1>4, OperationFields
    <2>4. ASSUME NEW m \in Matches(more, n)
          PROVE  n.ref = InVersion(r.ref, v)
      <3>1. m \in copied /\ m.method \in {"POST", "PUT"} /\ m.response # NoSchema
        BY <1>0, <2>2 DEF Matches, Creates
      <3>2. PICK o \in ops : /\ m.method = o.method /\ m.response = o.response
                             /\ m.ref = (IF o.ref = r.ref THEN InVersion(o.ref, v) ELSE o.ref)
        BY <1>1, <3>1
      <3>3. CASE m.ref # NoName /\ m.ref = n.ref
        <4>1. CASE o.ref = r.ref
          BY <3>2, <3>3, <4>1
        <4>2. CASE o.ref # r.ref
          <5>1. o \in Matches(ops, n)
            BY <3>1, <3>2, <3>3, <4>2 DEF Matches, Creates
          <5> QED BY <2>2, <5>1
        <4> QED BY <4>1, <4>2
      <3>4. CASE PathIsSelfOrParentCollection(n.path, m.path)
        <4>1. m.path \in Seq(Nat) /\ m.path # <<>> /\ m.path[1] = NewWord
          BY <1>1, <3>1
        <4>2. 1 \in DOMAIN m.path
          BY <4>1
        <4>3. n.path[1] = NewWord
          BY <3>4, <4>1, <4>2, MappingAssumption DEF PathIsSelfOrParentCollection
        <4> QED BY <2>3, <4>3
      <3> QED BY <3>3, <3>4 DEF Matches
    <2>5. OnParent(more, n) = {}
      <3> SUFFICES ASSUME NEW m \in OnParent(more, n) PROVE FALSE
        OBVIOUS
      <3>1. m \in copied /\ m.path = SubSeq(n.path, 1, Len(n.path) - 1)
        BY <1>0, <2>2 DEF OnParent, ParentCollection
      <3>2. m.path \in Seq(Nat) /\ Len(m.path) > 1 /\ m.path[1] = NewWord
        BY <1>1, <3>1
      <3>3. Len(n.path) - 1 >= 1
        BY <2>3, <3>1, <3>2
      <3>4. m.path[1] = n.path[1]
        BY <2>3, <3>1, <3>3
      <3> QED BY <2>3, <3>2, <3>4
    <2>6. Allowlisted(more, n) = {}
      <3> SUFFICES ASSUME NEW m \in Allowlisted(more, n) PROVE FALSE
        OBVIOUS
      <3>1. m \in copied /\ (m.path = n.path \/ ActionOn(n.path, m.path))
        BY <1>0, <2>2 DEF Allowlisted, Creates
      <3>2. m.path \in Seq(Nat) /\ Len(m.path) > 1 /\ m.path[1] = NewWord /\ 1 \in DOMAIN n.path
        BY <1>1, <2>3, <3>1
      <3>3. CASE Len(m.path) = Len(n.path) /\ \A i \in 1..(Len(n.path) - 1) : m.path[i] = n.path[i]
        <4>1. 1 \in 1..(Len(n.path) - 1)
          BY <2>3, <3>2, <3>3
        <4> QED BY <2>3, <3>2, <3>3, <4>1
      <3>4. CASE m.path = n.path \/ \A i \in DOMAIN n.path : m.path[i] = n.path[i]
        BY <2>3, <3>2, <3>4
      <3> QED BY <3>1, <3>3, <3>4 DEF ActionOn
    <2> QED BY <1>2, <2>4, <2>5, <2>6, CreateExists
  <1> QED BY <1>0, <1>2, <1>3, <1>4 DEF Reads
\* Of a rank below r's, and under a name that no candidate has.
Unobtrusive(ops, r, v) ==
    /\ Version(r) # Unversioned
    /\ Higher(Version(r), v)
    /\ \A c \in Candidates(ops, {}) :
          Version(c) # Unversioned => VersionedName(c.ref) # VersionedName(InVersion(r.ref, v))
    /\ NoTwinNames(WithVersion(ops, r, v))

LEMMA NewcomersAreOutranked ==
    ASSUME NEW ops, NEW r, NEW v, Published(ops, r, v), Unobtrusive(ops, r, v),
           NEW n, n.ref = InVersion(r.ref, v)
    PROVE  /\ BaseName(n) = BaseName(r)
           /\ VersionedName(n.ref) = VersionedName(InVersion(r.ref, v))
           /\ \A x \in Candidates(ops, {}) : x = r \/ Outranks(x, r) => Outranks(x, n)
  <1>1. /\ IsOperations(ops) /\ r \in ops /\ v \in Versions /\ v # Unversioned
        /\ Priority(v) \in Seq(Nat)
    BY CandidatesAre, MappingAssumption DEF Published
  <1>2. r.ref \in RefNames /\ Version(r) # Unversioned
    BY <1>1, OperationFields DEF Unobtrusive
  <1>3. /\ n.ref.service = r.ref.service /\ n.ref.noun = r.ref.noun /\ Version(n) = v
        /\ r.ref # NoName /\ n.ref # NoName
    BY <1>1, <1>2, InVersionType DEF Version, NoName, Unversioned
  <1>4. BaseName(n) = BaseName(r)
    BY <1>3 DEF BaseName, NameFor
  <1>5. ASSUME NEW x \in Candidates(ops, {}), x = r \/ Outranks(x, r)
        PROVE  Outranks(x, n)
    <2>1. x \in ops
      BY <1>1, CandidatesAre
    <2>2. Version(x) # Unversioned
      BY <1>2, <1>5 DEF Outranks
    <2>3. Priority(Version(x)) \in Seq(Nat) /\ Priority(Version(r)) \in Seq(Nat)
      BY <1>1, <1>2, <2>1, <2>2, VersionType
    <2>4. Priority(Version(x)) = Priority(Version(r)) \/ Higher(Version(x), Version(r))
      BY <1>2, <1>5, <2>2 DEF Outranks
    <2>5. SortsBefore(Priority(v), Priority(Version(r)))
      BY DEF Unobtrusive, Higher
    <2>6. SortsBefore(Priority(v), Priority(Version(x)))
      BY <1>1, <2>3, <2>4, <2>5, SortsBeforeTransitive DEF Higher
    <2>7. Priority(v) # Priority(Version(x))
      BY <1>1, <2>6, SortsBeforeIrreflexive
    <2> QED BY <1>1, <1>3, <2>2, <2>6, <2>7 DEF Outranks, Higher
  <1> QED BY <1>4, <1>5

LEMMA ResourcesStay ==
    ASSUME NEW ops, NEW r, NEW v, Published(ops, r, v), Unobtrusive(ops, r, v),
           NEW x \in Discovered(ops, {})
    PROVE  \E y \in Discovered(WithVersion(ops, r, v), {}) :
              /\ y.read = x.read
              /\ y.type = x.type
              /\ \A z \in Discovered(WithVersion(ops, r, v), {}) \ {y} : z.type # x.type
  <1> DEFINE more == WithVersion(ops, r, v)
             old == Candidates(ops, {})
             new == Candidates(more, {})
  <1>1. IsOperations(ops) /\ IsOperations(more) /\ NoTwinNames(more) /\ r \in old
    BY MoreOperations DEF Published, Unobtrusive
  <1>2. old \subseteq new
    BY MoreAre, CandidatesRemain
  <1>3. ASSUME NEW n \in new, n \notin old
        PROVE  /\ n.ref = InVersion(r.ref, v) /\ BaseName(n) = BaseName(r)
               /\ VersionedName(n.ref) = VersionedName(InVersion(r.ref, v))
               /\ \A c \in old : c = r \/ Outranks(c, r) => Outranks(c, n)
    <2>1. n.ref = InVersion(r.ref, v)
      BY <1>3, NewCandidates
    <2> QED BY <2>1, NewcomersAreOutranked
  <1>4. /\ old \subseteq Reads(ops) /\ new \subseteq more /\ old \subseteq ops
        /\ \A c \in old : Version(c) # Unversioned =>
              VersionedName(c.ref) # VersionedName(InVersion(r.ref, v))
    BY <1>1, CandidatesAre DEF Unobtrusive
  <1>5. PICK c \in old : Named(c, old) /\ x.read = c /\ x.type = NameWanted(c, old)
    BY DiscoveredAre
  <1> HIDE DEF old, new, more
  <1>6. ASSUME NEW a \in old
        PROVE  Wins(a, old) <=> Wins(a, new)
    <2>1. Rivals(a, old) \subseteq Rivals(a, new)
      BY <1>2 DEF Rivals
    <2>2. ASSUME Wins(a, old), NEW n \in Rivals(a, new)
          PROVE  Outranks(a, n)
      <3>1. CASE n \in old
        BY <2>2, <3>1 DEF Rivals, Wins
      <3>2. CASE n \notin old
        <4>1. n \in new /\ BaseName(n) = BaseName(a)
          BY DEF Rivals
        <4>2. BaseName(a) = BaseName(r)
          BY <1>3, <3>2, <4>1
        <4>3. a = r \/ Outranks(a, r)
          BY <1>1, <2>2, <4>2 DEF Rivals, Wins
        <4> QED BY <1>3, <3>2, <4>1, <4>3
      <3> QED BY <3>1, <3>2
    <2> QED BY <2>1, <2>2 DEF Wins
  <1>7. ASSUME NEW n \in new, n \notin old
        PROVE  ~Wins(n, new)
    <2>1. r \in Rivals(n, new) /\ Outranks(r, n)
      BY <1>1, <1>2, <1>3, <1>7 DEF Rivals
    <2>2. ~Outranks(n, r)
      BY <1>1, <1>2, <1>4, <2>1, OutranksAsymmetric
    <2> QED BY <2>1, <2>2 DEF Wins
  <1>8. \A a \in old : NameWanted(a, new) = NameWanted(a, old)
    BY <1>6 DEF NameWanted
  <1>9. Named(c, new)
    <2>1. CASE Wins(c, old)
      BY <1>6, <2>1 DEF Named
    <2>2. CASE ~Wins(c, old)
      <3>1. Version(c) # Unversioned
        BY <1>5, <2>2 DEF Named
      <3>2. NameWanted(c, new) = VersionedName(c.ref)
        BY <1>6, <2>2 DEF NameWanted
      <3>3. ASSUME NEW n \in new \ {c}, ConsideredBefore(n, c),
                   Wins(n, new) \/ Version(n) # Unversioned
            PROVE  NameWanted(n, new) # NameWanted(c, new)
        <4>1. CASE n \in old
          <5>1. Wins(n, old) \/ Version(n) # Unversioned
            BY <1>6, <3>3, <4>1
          <5>2. NameWanted(n, old) # NameWanted(c, old)
            BY <1>5, <2>2, <3>3, <4>1, <5>1 DEF Named
          <5> QED BY <1>8, <4>1, <5>2
        <4>2. CASE n \notin old
          <5>1. NameWanted(n, new) = VersionedName(n.ref)
            BY <1>7, <4>2 DEF NameWanted
          <5>2. VersionedName(n.ref) # VersionedName(c.ref)
            BY <1>3, <1>4, <3>1, <4>2
          <5> QED BY <3>2, <5>1, <5>2
        <4> QED BY <4>1, <4>2
      <3> QED BY <3>1, <3>3 DEF Named
    <2> QED BY <2>1, <2>2
  <1>10. PICK y \in Discovered(more, {}) : y.read = c /\ y.type = NameWanted(c, new)
    BY <1>2, <1>9, DiscoveredAre DEF new
  <1>11. y.read = x.read /\ y.type = x.type
    BY <1>5, <1>8, <1>10
  <1>12. \A z \in Discovered(more, {}) \ {y} : z.type # x.type
    BY <1>1, <1>11, UniqueNames
  <1>13. \E w \in Discovered(more, {}) :
              /\ w.read = x.read
              /\ w.type = x.type
              /\ \A z \in Discovered(more, {}) \ {w} : z.type # x.type
    BY <1>11, <1>12
  <1> QED BY <1>13 DEF more

LEMMA DocumentType ==
    ASSUME doc \in Docs
    PROVE  /\ IsOperations(doc.ops)
           /\ \A o \in doc.ops : o.path[1] # NewWord
BY MappingAssumption

LEMMA NobodyIsDisturbed ==
    ASSUME doc \in Docs
    PROVE  PrereleaseDisturbsNobody
  <1> SUFFICES ASSUME NEW r \in Candidates(doc.ops, {}), NEW v \in Versions,
                      Unobtrusive(doc.ops, r, v)
               PROVE  \A x \in Discovered(doc.ops, {}) :
                         \E y \in Discovered(WithVersion(doc.ops, r, v), {}) :
                            /\ y.read = x.read
                            /\ y.type = x.type
                            /\ \A z \in Discovered(WithVersion(doc.ops, r, v), {}) \ {y} :
                                  z.type # x.type
    BY DEF PrereleaseDisturbsNobody, Unobtrusive
  <1>1. Published(doc.ops, r, v)
    BY DocumentType DEF Published
  <1> QED BY <1>1, ResourcesStay
-----------------------------------------------------------------------------
(* From Discover to the types: the inductive invariant.                     *)

\* What has been discovered, and what of it has been looked at.
DiscoverInv ==
    /\ doc \in Docs
    /\ step \in {"discover", "build", "data", "buildData", "done"}
    /\ step = "discover" => found = {} /\ types = <<>>
    /\ step # "discover" => /\ found = Discovered(doc.ops, putFirst)
                            /\ NotedReads(doc.ops, putFirst) \subseteq notes
    /\ todo \subseteq found
    /\ step \notin {"discover", "build"} => todo = {}

\* Types are made of what was found, as ResourceType makes them.
TypesInv ==
    \A t \in DOMAIN types : /\ types[t].resource \in found
                            /\ types[t] = ResourceType(types[t].resource)

\* What was looked at has its type, or was reported.
BuiltInv ==
    NoTwinNames(doc.ops) =>
        \A f \in found \ todo : \/ f.read.path \in notes
                                \/ f.type \in DOMAIN types /\ types[f.type].resource = f

\* So have the other reads.
DataInv ==
    /\ step \in {"buildData", "done"} =>
          \A o \in doc.ops : o.method = "GET" =>
              \/ o.path \in notes
              \/ \E f \in found : o.path = f.read.path
              \/ \E t \in DOMAIN dataSources : o.path = dataSources[t].path
    /\ step = "done" =>
          \A t \in DOMAIN dataSources : t \in DOMAIN dataTypes \/ dataSources[t].path \in notes

BuildInv == DiscoverInv /\ TypesInv /\ BuiltInv /\ DataInv

LEMMA FoundAlike ==
    ASSUME NEW ops, IsOperations(ops), NEW first, NEW second, NEW x \in Discovered(ops, first)
    PROVE  \E y \in Discovered(ops, second) : y.read = x.read /\ y.type = x.type
  <1>1. Candidates(ops, first) = Candidates(ops, second)
    BY CandidatesAre
  <1>2. PICK r \in Candidates(ops, second) :
            /\ Named(r, Candidates(ops, second))
            /\ x.read = r /\ x.type = NameWanted(r, Candidates(ops, second))
    BY <1>1, DiscoveredAre
  <1> QED BY <1>2, DiscoveredAre

LEMMA FoundOrNoted ==
    ASSUME NEW ops, NEW first, NEW r \in Reads(ops)
    PROVE  r.path \in NotedReads(ops, first) \/ \E x \in Discovered(ops, first) : x.read = r
  <1>1. CASE r \in Candidates(ops, first) /\ Named(r, Candidates(ops, first))
    BY <1>1, DiscoveredAre
  <1>2. CASE ~(r \in Candidates(ops, first) /\ Named(r, Candidates(ops, first)))
    BY <1>2 DEF NotedReads
  <1> QED BY <1>1, <1>2

LEMMA StartBuildKeeps ==
    ASSUME BuildInv, StartBuild
    PROVE  BuildInv'
  <1>1. PICK first : /\ putFirst' = first
                     /\ found' = Discovered(doc.ops, first)
                     /\ notes' = notes \cup NotedReads(doc.ops, first)
    BY DEF StartBuild, Discover
  <1>2. step = "discover" /\ step' = "build" /\ todo' = found' /\ doc' = doc
        /\ types' = types /\ dataTypes' = dataTypes /\ dataSources' = dataSources
    BY DEF StartBuild, Discover
  <1>3. types = <<>> /\ doc \in Docs
    BY <1>2 DEF BuildInv, DiscoverInv
  <1>4. found' = Discovered(doc.ops, putFirst)'
    <2>1. doc' = doc
      BY <1>2
    <2>2. Discovered(doc.ops, putFirst)' = Discovered(doc.ops, putFirst')
      BY <2>1 DEF Discovered, Candidates, CreateOf, Matches, SameTopLevelProperties, Resource
    <2> QED BY <1>1, <2>2
  <1>5. NotedReads(doc.ops, putFirst)' \subseteq notes'
    <2>1. doc' = doc
      BY <1>2
    <2>2. NotedReads(doc.ops, putFirst)' = NotedReads(doc.ops, putFirst')
      BY <2>1 DEF NotedReads, Candidates, CreateOf, Matches, SameTopLevelProperties
    <2> QED BY <1>1, <2>2
  <1>6. DiscoverInv'
    BY <1>2, <1>3, <1>4, <1>5 DEF DiscoverInv
  <1>7. TypesInv'
    BY <1>2, <1>3 DEF TypesInv
  <1>8. BuiltInv' /\ DataInv'
    BY <1>2 DEF BuiltInv, DataInv
  <1> QED BY <1>6, <1>7, <1>8 DEF BuildInv

\* Only the document and the choice of methods matter to what is discovered.
LEMMA DiscoveredStays ==
    ASSUME UNCHANGED <<doc, putFirst>>
    PROVE  /\ Discovered(doc.ops, putFirst)' = Discovered(doc.ops, putFirst)
           /\ NotedReads(doc.ops, putFirst)' = NotedReads(doc.ops, putFirst)
           /\ NoTwinNames(doc.ops)' <=> NoTwinNames(doc.ops)
  <1>1. doc' = doc /\ putFirst' = putFirst
    OBVIOUS
  <1>2. Discovered(doc.ops, putFirst)' = Discovered(doc.ops, putFirst)
    BY <1>1 DEF Discovered, Candidates, CreateOf, Matches, SameTopLevelProperties, Resource
  <1>3. NotedReads(doc.ops, putFirst)' = NotedReads(doc.ops, putFirst)
    BY <1>1 DEF NotedReads, Candidates, CreateOf, Matches, SameTopLevelProperties
  <1>4. NoTwinNames(doc.ops)' <=> NoTwinNames(doc.ops)
    BY <1>1 DEF NoTwinNames, Candidates, CreateOf, Matches, SameTopLevelProperties
  <1> QED BY <1>2, <1>3, <1>4

LEMMA BuildResourceKeeps ==
    ASSUME BuildInv, BuildResource
    PROVE  BuildInv'
  <1>1. PICK r \in todo : /\ todo' = todo \ {r}
                          /\ \/ notes' = notes \cup {r.read.path} /\ types' = types
                             \/ types' = Put(types, r.type, ResourceType(r)) /\ notes' = notes
    BY DEF BuildResource
  <1>2. /\ step = "build" /\ step' = "build" /\ UNCHANGED <<doc, putFirst>>
        /\ found' = found /\ dataSources' = dataSources /\ dataTypes' = dataTypes /\ doc' = doc
    BY DEF BuildResource
  <1>3. DiscoverInv
    BY DEF BuildInv
  <1>4. r \in found /\ notes \subseteq notes'
    BY <1>1, <1>3 DEF DiscoverInv
  <1>5. DiscoverInv'
    BY <1>1, <1>2, <1>3, <1>4, DiscoveredStays DEF DiscoverInv
  <1>6. ASSUME NEW q
        PROVE  ResourceType(q)' = ResourceType(q) /\ ResourceType(q).resource = q
    BY <1>2 DEF ResourceType, AttributesOf
  <1>7. ASSUME NEW t \in DOMAIN types'
        PROVE  \/ t \in DOMAIN types /\ types'[t] = types[t]
               \/ t = r.type /\ types'[t] = ResourceType(r)
    BY <1>1 DEF Put
  <1>8. TypesInv'
    <2>1. ASSUME NEW t \in DOMAIN types'
          PROVE  types'[t].resource \in found /\ types'[t] = ResourceType(types'[t].resource)
      BY <1>4, <1>6, <1>7 DEF BuildInv, TypesInv
    <2>2. \A t \in DOMAIN types' : types'[t] = ResourceType(types[t].resource)'
      BY <1>2, <2>1 DEF ResourceType, AttributesOf
    <2> QED BY <1>2, <2>1, <2>2 DEF TypesInv
  <1>9. BuiltInv'
    <2> SUFFICES ASSUME NoTwinNames(doc.ops), NEW f \in found \ todo'
                 PROVE  \/ f.read.path \in notes'
                        \/ f.type \in DOMAIN types' /\ types'[f.type].resource = f
      BY <1>2, DiscoveredStays DEF BuiltInv
    <2>1. CASE f = r
      <3>1. r.type \in DOMAIN Put(types, r.type, ResourceType(r))
            /\ Put(types, r.type, ResourceType(r))[r.type] = ResourceType(r)
        BY DEF Put
      <3> QED BY <1>1, <1>6, <2>1, <3>1
    <2>2. CASE f # r
      <3>1. f \in found \ todo
        BY <1>1, <2>2
      <3>2. f.read.path \in notes \/ (f.type \in DOMAIN types /\ types[f.type].resource = f)
        BY <3>1 DEF BuildInv, BuiltInv
      <3>3. f.type # r.type
        BY <1>2, <1>3, <1>4, <2>2, DocumentType, UniqueNames DEF DiscoverInv
      <3>4. f.type \in DOMAIN types => f.type \in DOMAIN types' /\ types'[f.type] = types[f.type]
        BY <1>1, <3>3 DEF Put
      <3> QED BY <1>4, <3>2, <3>4
    <2> QED BY <2>1, <2>2
  <1>10. DataInv'
    BY <1>2 DEF DataInv
  <1> QED BY <1>5, <1>8, <1>9, <1>10 DEF BuildInv

LEMMA TypesStay ==
    ASSUME TypesInv, UNCHANGED <<doc, found, types>>
    PROVE  TypesInv'
  <1>1. doc' = doc /\ found' = found /\ types' = types
    OBVIOUS
  <1>2. \A t \in DOMAIN types : types[t] = ResourceType(types[t].resource)
    BY DEF TypesInv
  <1>3. (\A t \in DOMAIN types : types[t] = ResourceType(types[t].resource))'
    BY <1>1, <1>2 DEF ResourceType, AttributesOf
  <1> QED BY <1>1, <1>3 DEF TypesInv

\* The first of the reads that are called the same is kept.
LEMMA DataSourceIsKept ==
    ASSUME doc \in Docs, NEW open \in SUBSET doc.ops,
           NEW kept, kept = {o \in open : Served(o) /\ FirstOfName(o, open)},
           \A o \in open : o.method = "GET",
           NEW o \in kept
    PROVE  (CHOOSE p \in kept : DataName(p) = DataName(o)) = o
  <1>1. IsOperations(doc.ops)
    BY DocumentType
  <1>2. ASSUME NEW p \in kept, DataName(p) = DataName(o)
        PROVE  p = o
    <2>1. ~SortsBefore(p.path, o.path) /\ ~SortsBefore(o.path, p.path)
      BY <1>2 DEF FirstOfName
    <2>2. p.path \in Seq(Nat) /\ o.path \in Seq(Nat)
      BY <1>1, OperationFields
    <2>3. p.path = o.path
      BY <2>1, <2>2, SortsBeforeTotal
    <2> QED BY <1>1, <2>3, SameOperation
  <1> QED BY <1>2

LEMMA StartDataSourcesKeeps ==
    ASSUME BuildInv, StartDataSources
    PROVE  BuildInv'
  <1>1. PICK first : LET open == Unclaimed(doc.ops, first)
                         kept == {o \in open : Served(o) /\ FirstOfName(o, open)}
                     IN  /\ dataSources' = [t \in {DataName(o) : o \in kept} |->
                                               CHOOSE o \in kept : DataName(o) = t]
                         /\ notes' = notes \cup {o.path : o \in open \ kept}
    BY DEF StartDataSources, DiscoverDataSources
  <1>2. /\ step = "data" /\ step' = "buildData" /\ UNCHANGED <<doc, putFirst>>
        /\ found' = found /\ todo' = todo /\ types' = types /\ dataTypes' = dataTypes /\ doc' = doc
    BY DEF StartDataSources, DiscoverDataSources
  <1>3. DiscoverInv /\ notes \subseteq notes'
    BY <1>1 DEF BuildInv
  <1>4. DiscoverInv'
    BY <1>2, <1>3, DiscoveredStays DEF DiscoverInv
  <1>5. TypesInv'
    BY <1>2, TypesStay DEF BuildInv
  <1>6. BuiltInv'
    BY <1>2, <1>3, DiscoveredStays DEF BuildInv, BuiltInv
  <1>7. DataInv'
    <2> DEFINE open == Unclaimed(doc.ops, first)
               kept == {o \in open : Served(o) /\ FirstOfName(o, open)}
    <2>1. /\ dataSources' = [t \in {DataName(o) : o \in kept} |-> CHOOSE o \in kept : DataName(o) = t]
          /\ notes' = notes \cup {o.path : o \in open \ kept}
      BY <1>1
    <2>2. open \in SUBSET doc.ops /\ \A o \in open : o.method = "GET"
      BY DEF Unclaimed
    <2>3. ASSUME NEW o \in doc.ops, o.method = "GET", o \notin open
          PROVE  \E f \in found : o.path = f.read.path
      <3>1. PICK x \in Discovered(doc.ops, first) : o.path = x.read.path
        BY <2>3 DEF Unclaimed
      <3>2. found = Discovered(doc.ops, putFirst) /\ IsOperations(doc.ops)
        BY <1>2, <1>3, DocumentType DEF DiscoverInv
      <3>3. PICK y \in Discovered(doc.ops, putFirst) : y.read = x.read
        BY <3>2, FoundAlike
      <3> QED BY <3>1, <3>2, <3>3
    <2>4. ASSUME NEW o \in kept
          PROVE  \E t \in DOMAIN dataSources' : o.path = dataSources'[t].path
      <3>1. DataName(o) \in DOMAIN dataSources'
            /\ dataSources'[DataName(o)] = CHOOSE p \in kept : DataName(p) = DataName(o)
        BY <2>1
      <3>2. (CHOOSE p \in kept : DataName(p) = DataName(o)) = o
        <4>1. doc \in Docs /\ kept = {p \in open : Served(p) /\ FirstOfName(p, open)}
          BY <1>3 DEF DiscoverInv
        <4> HIDE DEF kept, open
        <4> QED BY <2>2, <4>1, DataSourceIsKept
      <3> QED BY <3>1, <3>2
    <2> HIDE DEF open, kept
    <2>5. ASSUME NEW o \in doc.ops, o.method = "GET"
          PROVE  \/ o.path \in notes'
                 \/ \E f \in found : o.path = f.read.path
                 \/ \E t \in DOMAIN dataSources' : o.path = dataSources'[t].path
      BY <2>1, <2>3, <2>4, <2>5
    <2> QED BY <1>2, <2>5 DEF DataInv
  <1> QED BY <1>4, <1>5, <1>6, <1>7 DEF BuildInv

LEMMA BuildDataSourcesKeeps ==
    ASSUME BuildInv, BuildDataSources
    PROVE  BuildInv'
  <1> DEFINE built == [t \in DOMAIN dataSources |-> DataAttributes(doc.schemas, dataSources[t])]
  <1>1. /\ dataTypes' = [t \in {u \in DOMAIN built : built[u] # NoAttributes} |-> built[t]]
        /\ notes' = notes \cup
              {dataSources[t].path : t \in {u \in DOMAIN built : built[u] = NoAttributes}}
    BY DEF BuildDataSources
  <1>2. /\ step = "buildData" /\ step' = "done" /\ UNCHANGED <<doc, putFirst>> /\ doc' = doc
        /\ found' = found /\ todo' = todo /\ types' = types /\ dataSources' = dataSources
    BY DEF BuildDataSources
  <1>3. DOMAIN built = DOMAIN dataSources
    OBVIOUS
  <1> HIDE DEF built
  <1>4. DiscoverInv /\ notes \subseteq notes'
    BY <1>1 DEF BuildInv
  <1>5. DiscoverInv'
    BY <1>2, <1>4, DiscoveredStays DEF DiscoverInv
  <1>6. TypesInv'
    BY <1>2, TypesStay DEF BuildInv
  <1>7. BuiltInv'
    BY <1>2, <1>4, DiscoveredStays DEF BuildInv, BuiltInv
  <1>8. \A t \in DOMAIN dataSources : t \in DOMAIN dataTypes' \/ dataSources[t].path \in notes'
    BY <1>1, <1>3
  <1>9. DataInv'
    BY <1>2, <1>4, <1>8 DEF BuildInv, DataInv
  <1> QED BY <1>5, <1>6, <1>7, <1>9 DEF BuildInv

LEMMA BuildDoneKeeps ==
    ASSUME BuildInv, BuildDone
    PROVE  BuildInv'
  <1>1. /\ step = "build" /\ step' = "data" /\ UNCHANGED <<doc, putFirst>> /\ doc' = doc
        /\ found' = found /\ todo' = todo /\ types' = types /\ dataSources' = dataSources
        /\ todo = {} /\ notes' = notes /\ dataTypes' = dataTypes
    BY DEF BuildDone
  <1>2. DiscoverInv'
    BY <1>1, DiscoveredStays DEF BuildInv, DiscoverInv
  <1>3. TypesInv'
    BY <1>1, TypesStay DEF BuildInv
  <1>4. BuiltInv'
    BY <1>1, DiscoveredStays DEF BuildInv, BuiltInv
  <1>5. DataInv'
    BY <1>1 DEF DataInv
  <1> QED BY <1>2, <1>3, <1>4, <1>5 DEF BuildInv

LEMMA BuildStutterKeeps ==
    ASSUME BuildInv, UNCHANGED buildVars
    PROVE  BuildInv'
  <1>1. /\ step' = step /\ UNCHANGED <<doc, putFirst>> /\ doc' = doc
        /\ found' = found /\ todo' = todo /\ types' = types /\ dataSources' = dataSources
        /\ notes' = notes /\ dataTypes' = dataTypes
    BY DEF buildVars, mappingVars
  <1>2. DiscoverInv'
    BY <1>1, DiscoveredStays DEF BuildInv, DiscoverInv
  <1>3. TypesInv'
    BY <1>1, TypesStay DEF BuildInv
  <1>4. BuiltInv'
    BY <1>1, DiscoveredStays DEF BuildInv, BuiltInv
  <1>5. DataInv'
    BY <1>1 DEF BuildInv, DataInv
  <1> QED BY <1>2, <1>3, <1>4, <1>5 DEF BuildInv

\* The inductive invariant of BuildSpec.
THEOREM BuildInvariant == BuildSpec => []BuildInv
  <1>1. BuildInit => BuildInv
    BY DEF BuildInit, MappingInit, BuildInv, DiscoverInv, TypesInv, BuiltInv, DataInv
  <1>2. BuildInv /\ [BuildNext]_buildVars => BuildInv'
    <2> SUFFICES ASSUME BuildInv, [BuildNext]_buildVars PROVE BuildInv'
      OBVIOUS
    <2> QED BY StartBuildKeeps, BuildResourceKeeps, BuildDoneKeeps, StartDataSourcesKeeps,
               BuildDataSourcesKeeps, BuildStutterKeeps DEF BuildNext
  <1> QED BY <1>1, <1>2, PTL DEF BuildSpec

LEMMA ReadsAreAccountedFor ==
    ASSUME BuildInv
    PROVE  EveryReadIsAccountedFor
  <1> SUFFICES ASSUME NoTwinNames(doc.ops)
               PROVE  /\ step = "data" => \A r \in Reads(doc.ops) : r.path \in ResourcePaths \cup notes
                      /\ step = "done" => \A o \in doc.ops :
                            o.method = "GET" => o.path \in ResourcePaths \cup DataPaths \cup notes
    BY DEF EveryReadIsAccountedFor
  <1>1. ASSUME NEW f \in found, step \notin {"discover", "build"}
        PROVE  f.read.path \in ResourcePaths \cup notes
    <2>1. f \in found \ todo
      BY <1>1 DEF BuildInv, DiscoverInv
    <2>2. f.read.path \in notes \/ (f.type \in DOMAIN types /\ types[f.type].resource = f)
      BY <2>1 DEF BuildInv, BuiltInv
    <2> QED BY <2>2 DEF ResourcePaths
  <1>2. ASSUME step = "data", NEW r \in Reads(doc.ops)
        PROVE  r.path \in ResourcePaths \cup notes
    <2>1. found = Discovered(doc.ops, putFirst) /\ NotedReads(doc.ops, putFirst) \subseteq notes
      BY <1>2 DEF BuildInv, DiscoverInv
    <2>2. r.path \in notes \/ \E x \in found : x.read = r
      BY <2>1, FoundOrNoted
    <2> QED BY <1>1, <1>2, <2>2
  <1>3. ASSUME step = "done", NEW o \in doc.ops, o.method = "GET"
        PROVE  o.path \in ResourcePaths \cup DataPaths \cup notes
    <2>1. \/ o.path \in notes
          \/ \E f \in found : o.path = f.read.path
          \/ \E t \in DOMAIN dataSources : o.path = dataSources[t].path
      BY <1>3 DEF BuildInv, DataInv
    <2>2. \A t \in DOMAIN dataSources : t \in DOMAIN dataTypes \/ dataSources[t].path \in notes
      BY <1>3 DEF BuildInv, DataInv
    <2> QED BY <1>1, <1>3, <2>1, <2>2 DEF DataPaths
  <1> QED BY <1>2, <1>3
-----------------------------------------------------------------------------
(* The parameters of paths.                                                 *)

\* A numbered suffix makes another name of a parameter for each number.
SuffixesDiffer ==
    \A p : \A m, n \in Nat : PathAttr(p, m) = PathAttr(p, n) => m = n

LEMMA FreeNameIsFree ==
    ASSUME SuffixesDiffer, NEW attrs, IsFiniteSet(DOMAIN attrs), NEW p
    PROVE  FreeName(p, attrs) \notin DOMAIN attrs
  <1> DEFINE D == DOMAIN attrs
             N == Cardinality(D) + 1
             Free(n) == PathAttr(p, n) \notin D
  <1>1. N \in Nat /\ IsFiniteSet(1..N) /\ Cardinality(1..N) = N /\ Cardinality(D) < N
        /\ IsFiniteSet(D)
    <2>1. Cardinality(D) \in Nat
      BY FS_CardinalityType
    <2> QED BY <2>1, FS_Interval
  <1> HIDE DEF D, N
  <1>2. \E n \in 1..N : Free(n)
    <2> SUFFICES ASSUME \A n \in 1..N : ~Free(n) PROVE FALSE
      OBVIOUS
    <2> DEFINE f == [n \in 1..N |-> PathAttr(p, n)]
    <2>1. f \in [1..N -> D]
      OBVIOUS
    <2>2. \A m, n \in 1..N : f[m] = f[n] => m = n
      <3>1. \A n \in 1..N : f[n] = PathAttr(p, n) /\ n \in Nat
        BY <1>1
      <3> QED BY <3>1 DEF SuffixesDiffer
    <2> HIDE DEF f
    <2> QED BY <1>1, <2>1, <2>2, FS_PigeonHole
  <1> DEFINE S == {n \in 1..N : Free(n)}
  <1>3. PICK n \in S : \A k \in S : n <= k
    <2>1. S \in SUBSET Nat /\ S # {}
      BY <1>1, <1>2
    <2> HIDE DEF S
    <2> QED BY <2>1, HasLeast
  <1>4. ASSUME NEW k \in 1..(n - 1)
        PROVE  PathAttr(p, k) \in D
    <2>1. k \in 1..N /\ ~(n <= k)
      BY <1>1, <1>3
    <2> QED BY <1>3, <2>1
  <1>5. FreeName(p, attrs) =
          PathAttr(p, CHOOSE m \in 1..N : Free(m) /\ \A k \in 1..(m - 1) : PathAttr(p, k) \in D)
    BY DEF FreeName, D, N
  <1>6. \E m \in 1..N : Free(m) /\ \A k \in 1..(m - 1) : PathAttr(p, k) \in D
    BY <1>3, <1>4
  <1>7. FreeName(p, attrs) \notin D
    BY <1>5, <1>6
  <1> QED BY <1>7 DEF D

\* What f has is left alone in h.
Extends(f, h) == DOMAIN f \subseteq DOMAIN h /\ \A k \in DOMAIN f : h[k] = f[k]

Usable(attrs, renames, p) ==
    /\ AttrOf(renames, p) \in DOMAIN attrs
    /\ IsText(attrs[AttrOf(renames, p)])

LEMMA SynthesizedIsText == IsText(Synthesized)
BY DEF IsText, Synthesized, Scalar

\* What a round of ensurePathParamsPresent starts from.
Accumulated(acc) ==
    /\ acc = [attrs |-> acc.attrs, renames |-> acc.renames]
    /\ IsFiniteSet(DOMAIN acc.attrs)
    /\ \A q \in DOMAIN acc.renames : q \in DOMAIN acc.attrs /\ ~IsText(acc.attrs[q])

LEMMA UsableStays ==
    ASSUME NEW attrs, NEW more, Extends(attrs, more), NEW renames, NEW q,
           Usable(attrs, renames, q)
    PROVE  Usable(more, renames, q)
BY DEF Extends, Usable

LEMMA ParamAdded ==
    ASSUME SuffixesDiffer, NEW acc, Accumulated(acc), NEW p
    PROVE  /\ Accumulated(WithParam(acc, p))
           /\ Extends(acc.attrs, WithParam(acc, p).attrs)
           /\ Usable(WithParam(acc, p).attrs, WithParam(acc, p).renames, p)
           /\ \A q : Usable(acc.attrs, acc.renames, q)
                        => Usable(WithParam(acc, p).attrs, WithParam(acc, p).renames, q)
  <1> DEFINE new == WithParam(acc, p)
             attrs == acc.attrs
             renames == acc.renames
  <1>0. /\ acc = [attrs |-> attrs, renames |-> renames]
        /\ IsFiniteSet(DOMAIN attrs)
        /\ \A q \in DOMAIN renames : q \in DOMAIN attrs /\ ~IsText(attrs[q])
    BY DEF Accumulated
  <1>1. /\ p \notin DOMAIN attrs => new = [acc EXCEPT !.attrs = Put(@, p, Synthesized)]
        /\ p \in DOMAIN attrs /\ IsText(attrs[p]) => new = acc
        /\ p \in DOMAIN attrs /\ ~IsText(attrs[p]) =>
              new = [attrs   |-> Put(attrs, FreeName(p, attrs), Synthesized),
                     renames |-> Put(renames, p, FreeName(p, attrs))]
    BY DEF WithParam
  <1> HIDE DEF new, attrs, renames
  <1>2. CASE p \notin DOMAIN attrs
    <2>1. new = [attrs |-> Put(attrs, p, Synthesized), renames |-> renames]
      BY <1>0, <1>1, <1>2
    <2>2. new.attrs = Put(attrs, p, Synthesized) /\ new.renames = renames
      BY <2>1
    <2>3. /\ DOMAIN new.attrs = DOMAIN attrs \cup {p} /\ new.attrs[p] = Synthesized
          /\ \A j \in DOMAIN attrs : new.attrs[j] = attrs[j]
      <3>1. /\ DOMAIN Put(attrs, p, Synthesized) = DOMAIN attrs \cup {p}
            /\ Put(attrs, p, Synthesized)[p] = Synthesized
            /\ \A j \in DOMAIN attrs : j # p => Put(attrs, p, Synthesized)[j] = attrs[j]
        BY DEF Put
      <3> QED BY <1>2, <2>2, <3>1
    <2>4. IsFiniteSet(DOMAIN new.attrs)
      BY <1>0, <2>3, FS_AddElement
    <2>5. Accumulated(new)
      BY <1>0, <2>1, <2>2, <2>3, <2>4 DEF Accumulated
    <2>6. Extends(attrs, new.attrs)
      BY <2>3 DEF Extends
    <2>7. Usable(new.attrs, new.renames, p)
      BY <1>0, <1>2, <2>2, <2>3, SynthesizedIsText DEF Usable, AttrOf
    <2>8. \A q : Usable(attrs, renames, q) => Usable(new.attrs, new.renames, q)
      BY <2>2, <2>6, UsableStays
    <2> QED BY <2>5, <2>6, <2>7, <2>8 DEF new, attrs, renames
  <1>3. CASE p \in DOMAIN attrs /\ IsText(attrs[p])
    <2>1. new = acc
      BY <1>1, <1>3
    <2>2. Usable(attrs, renames, p)
      BY <1>0, <1>3 DEF Usable, AttrOf
    <2> QED BY <2>1, <2>2 DEF new, attrs, renames, Extends
  <1>4. CASE p \in DOMAIN attrs /\ ~IsText(attrs[p])
    <2> DEFINE name == FreeName(p, attrs)
    <2>0. name \notin DOMAIN attrs
      BY <1>0, FreeNameIsFree
    <2> HIDE DEF name
    <2>1. new = [attrs |-> Put(attrs, name, Synthesized), renames |-> Put(renames, p, name)]
      BY <1>1, <1>4 DEF name
    <2>2. new.attrs = Put(attrs, name, Synthesized) /\ new.renames = Put(renames, p, name)
      BY <2>1
    <2>3. /\ DOMAIN new.attrs = DOMAIN attrs \cup {name} /\ new.attrs[name] = Synthesized
          /\ \A j \in DOMAIN attrs : new.attrs[j] = attrs[j]
      <3>1. /\ DOMAIN Put(attrs, name, Synthesized) = DOMAIN attrs \cup {name}
            /\ Put(attrs, name, Synthesized)[name] = Synthesized
            /\ \A j \in DOMAIN attrs : j # name => Put(attrs, name, Synthesized)[j] = attrs[j]
        BY DEF Put
      <3> QED BY <2>0, <2>2, <3>1
    <2>4. /\ DOMAIN new.renames = DOMAIN renames \cup {p} /\ new.renames[p] = name
          /\ \A q \in DOMAIN renames : q # p => new.renames[q] = renames[q]
      <3>1. /\ DOMAIN Put(renames, p, name) = DOMAIN renames \cup {p}
            /\ Put(renames, p, name)[p] = name
            /\ \A j \in DOMAIN renames : j # p => Put(renames, p, name)[j] = renames[j]
        BY DEF Put
      <3> QED BY <2>2, <3>1
    <2>5. IsFiniteSet(DOMAIN new.attrs)
      BY <1>0, <2>3, FS_AddElement
    <2>6. Accumulated(new)
      BY <1>0, <1>4, <2>1, <2>2, <2>3, <2>4, <2>5 DEF Accumulated
    <2>7. Extends(attrs, new.attrs)
      BY <2>3 DEF Extends
    <2>8. Usable(new.attrs, new.renames, p)
      BY <2>3, <2>4, SynthesizedIsText DEF Usable, AttrOf
    <2>9. ASSUME NEW q, Usable(attrs, renames, q)
          PROVE  Usable(new.attrs, new.renames, q)
      <3>1. CASE q = p
        BY <2>8, <3>1
      <3>2. CASE q # p
        <4>1. AttrOf(new.renames, q) = AttrOf(renames, q)
          BY <2>4, <3>2 DEF AttrOf
        <4> QED BY <2>7, <2>9, <4>1 DEF Usable, Extends
      <3> QED BY <3>1, <3>2
    <2> QED BY <2>6, <2>7, <2>8, <2>9 DEF new, attrs, renames
  <1> QED BY <1>2, <1>3, <1>4

\* The rounds of ensurePathParamsPresent, n of them.
Ensured(attrs, path, n, f) ==
    /\ f = [i \in 0..n |-> f[i]]
    /\ f[0] = [attrs |-> attrs, renames |-> <<>>]
    /\ \A i \in 1..n : f[i] = IF i \in PathParams(path) THEN WithParam(f[i - 1], ParamName(path[i]))
                              ELSE f[i - 1]

LEMMA EnsuredExist ==
    ASSUME NEW attrs, NEW path, NEW n \in Nat
    PROVE  \E f : Ensured(attrs, path, n, f)
  <1> DEFINE S == {j \in Nat : \A g : ~Ensured(attrs, path, j, g)}
             start == [attrs |-> attrs, renames |-> <<>>]
             Round(i, acc) == IF i \in PathParams(path) THEN WithParam(acc, ParamName(path[i])) ELSE acc
  <1> SUFFICES ASSUME S # {} PROVE FALSE
    OBVIOUS
  <1>1. PICK j \in S : \A k \in S : j <= k
    <2>1. S \in SUBSET Nat
      OBVIOUS
    <2> HIDE DEF S
    <2> QED BY <2>1, HasLeast
  <1>2. j # 0
    <2> DEFINE g == [i \in 0..0 |-> start]
    <2>1. g[0] = start /\ 1..0 = {}
      OBVIOUS
    <2>2. g = [i \in 0..0 |-> g[i]]
      OBVIOUS
    <2> HIDE DEF g
    <2>3. Ensured(attrs, path, 0, g)
      BY <2>1, <2>2 DEF Ensured
    <2> QED BY <1>1, <2>3
  <1>3. PICK g : Ensured(attrs, path, j - 1, g)
    <2>1. j - 1 \in Nat /\ ~(j <= j - 1)
      BY <1>2
    <2>2. j - 1 \notin S
      BY <1>1, <2>1
    <2> QED BY <2>1, <2>2
  <1> DEFINE h == [i \in 0..j |-> IF i = j THEN Round(j, g[j - 1]) ELSE g[i]]
  <1>4. /\ j - 1 \in 0..(j - 1) /\ j \in 0..j /\ 0 \in 0..j /\ 0 # j
        /\ \A i \in 0..j : i # j => i \in 0..(j - 1)
    BY <1>2
  <1> HIDE DEF Round, start
  <1>5. h[0] = start
    BY <1>3, <1>4 DEF Ensured, start
  <1>6. ASSUME NEW i \in 1..j
        PROVE  h[i] = Round(i, h[i - 1])
    <2>1. i \in 0..j /\ i - 1 \in 0..j /\ i - 1 # j
      OBVIOUS
    <2>2. h[i - 1] = g[i - 1]
      BY <2>1
    <2>3. CASE i = j
      BY <2>1, <2>2, <2>3
    <2>4. CASE i # j
      <3>1. i \in 1..(j - 1) /\ h[i] = g[i]
        BY <2>1, <2>4
      <3>2. g[i] = Round(i, g[i - 1])
        BY <1>3, <3>1 DEF Ensured, Round
      <3> QED BY <2>2, <3>1, <3>2
    <2> QED BY <2>3, <2>4
  <1>7. h = [i \in 0..j |-> h[i]]
    OBVIOUS
  <1> HIDE DEF h
  <1>8. Ensured(attrs, path, j, h)
    BY <1>5, <1>6, <1>7 DEF Ensured, Round, start
  <1> QED BY <1>1, <1>8

\* Every parameter of the path ends up with an attribute, at no one's expense.
LEMMA ParamsEnsured ==
    ASSUME SuffixesDiffer, NEW attrs, IsFiniteSet(DOMAIN attrs), NEW path \in Seq(Nat)
    PROVE  /\ IsFiniteSet(DOMAIN EnsurePathParamsPresent(attrs, path).attrs)
           /\ Extends(attrs, EnsurePathParamsPresent(attrs, path).attrs)
           /\ \A p \in Params(path) : Usable(EnsurePathParamsPresent(attrs, path).attrs,
                                             EnsurePathParamsPresent(attrs, path).renames, p)
  <1> DEFINE n == Len(path)
             Body(f, i) == IF i = 0 THEN [attrs |-> attrs, renames |-> <<>>]
                           ELSE IF i \in PathParams(path) THEN WithParam(f[i - 1], ParamName(path[i]))
                           ELSE f[i - 1]
             after == CHOOSE f : f = [i \in 0..n |-> Body(f, i)]
  <1>1. EnsurePathParamsPresent(attrs, path) = after[n] /\ n \in Nat
    BY DEF EnsurePathParamsPresent
  <1>0. PathParams(path) \subseteq 1..n
    BY DEF PathParams
  <1> HIDE DEF n
  <1>2. \E f : f = [i \in 0..n |-> Body(f, i)]
    <2>1. PICK f : Ensured(attrs, path, n, f)
      BY <1>1, EnsuredExist
    <2>2. \A i \in 0..n : f[i] = Body(f, i)
      <3>1. \A i \in 0..n : i # 0 => i \in 1..n
        BY <1>1
      <3> QED BY <2>1, <3>1 DEF Ensured
    <2>3. f = [i \in 0..n |-> f[i]]
      BY <2>1 DEF Ensured
    <2> QED BY <2>2, <2>3
  <1>3. after = [i \in 0..n |-> Body(after, i)]
    BY <1>2
  <1> HIDE DEF after
  <1>4. \A i \in 0..n : after[i] = Body(after, i)
    BY <1>3
  <1> DEFINE Good(i) == /\ Accumulated(after[i]) /\ Extends(attrs, after[i].attrs)
                        /\ \A j \in PathParams(path) : j <= i =>
                              Usable(after[i].attrs, after[i].renames, ParamName(path[j]))
             S == {i \in Nat : i \in 0..n /\ ~Good(i)}
  <1>5. S = {}
    <2> SUFFICES ASSUME S # {} PROVE FALSE
      OBVIOUS
    <2>1. PICK i \in S : \A k \in S : i <= k
      <3>1. S \in SUBSET Nat
        OBVIOUS
      <3> HIDE DEF S
      <3> QED BY <3>1, HasLeast
    <2>2. i \in 0..n /\ i \in Nat /\ ~Good(i)
      BY <2>1
    <2>3. CASE i = 0
      <3>1. after[i] = [attrs |-> attrs, renames |-> <<>>]
        BY <1>4, <2>2, <2>3
      <3>2. after[i].attrs = attrs /\ after[i].renames = <<>> /\ DOMAIN <<>> = {}
        BY <3>1
      <3>3. Accumulated(after[i])
        BY <3>1, <3>2 DEF Accumulated
      <3>4. Extends(attrs, after[i].attrs)
        BY <3>2 DEF Extends
      <3>5. \A j \in PathParams(path) : ~(j <= i)
        BY <1>0, <1>1, <2>3
      <3> QED BY <2>2, <3>3, <3>4, <3>5
    <2>4. CASE i # 0
      <3>1. i - 1 \in 0..n /\ i - 1 \in Nat /\ ~(i <= i - 1)
        BY <1>1, <2>2, <2>4
      <3>2. Good(i - 1)
        BY <2>1, <3>1
      <3>3. after[i] = IF i \in PathParams(path) THEN WithParam(after[i - 1], ParamName(path[i]))
                       ELSE after[i - 1]
        BY <1>4, <2>2, <2>4
      <3>4. \A j \in PathParams(path) : j <= i /\ j # i => j <= i - 1
        BY <1>0, <1>1, <2>2
      <3> HIDE DEF S
      <3>5. CASE i \in PathParams(path)
        <4> DEFINE p == ParamName(path[i])
        <4>1. /\ Accumulated(after[i])
              /\ Extends(after[i - 1].attrs, after[i].attrs)
              /\ Usable(after[i].attrs, after[i].renames, p)
              /\ \A q : Usable(after[i - 1].attrs, after[i - 1].renames, q)
                           => Usable(after[i].attrs, after[i].renames, q)
          BY <3>2, <3>3, <3>5, ParamAdded
        <4>2. Extends(attrs, after[i].attrs)
          BY <3>2, <4>1 DEF Extends
        <4>3. \A j \in PathParams(path) : j <= i =>
                  Usable(after[i].attrs, after[i].renames, ParamName(path[j]))
          BY <3>2, <3>4, <4>1
        <4> QED BY <2>2, <4>1, <4>2, <4>3
      <3>6. CASE i \notin PathParams(path)
        <4>1. after[i] = after[i - 1]
          BY <3>3, <3>6
        <4>2. \A j \in PathParams(path) : j <= i => j <= i - 1
          BY <3>4, <3>6
        <4> QED BY <2>2, <3>2, <4>1, <4>2
      <3> QED BY <3>5, <3>6
    <2> QED BY <2>3, <2>4
  <1>6. n \in 0..n /\ n \in Nat /\ \A j \in PathParams(path) : j <= n
    BY <1>0, <1>1
  <1>7. Good(n)
    BY <1>5, <1>6
  <1> QED BY <1>1, <1>6, <1>7 DEF Accumulated, Params

LEMMA TypesAreUsable ==
    ASSUME SuffixesDiffer, BuildInv
    PROVE  ParamsAreUsable
  <1> SUFFICES ASSUME NEW t \in DOMAIN types
               PROVE  /\ \A p \in Params(types[t].resource.read.path) :
                            Usable(types[t].attrs, types[t].pathParamAttr, p)
                      /\ \A p \in Params(types[t].resource.create.path) :
                            Usable(types[t].attrs, types[t].createPathParamAttr, p)
                      /\ Extends(AttributesOf(types[t].resource), types[t].attrs)
    BY DEF ParamsAreUsable, Usable, Extends
  <1> DEFINE r == types[t].resource
             read == EnsurePathParamsPresent(AttributesOf(r), r.read.path)
             create == EnsurePathParamsPresent(read.attrs, r.create.path)
  <1>1. r \in found /\ types[t] = ResourceType(r) /\ DiscoverInv
    BY DEF BuildInv, TypesInv
  <1>2. /\ types[t].attrs = create.attrs
        /\ types[t].pathParamAttr = read.renames
        /\ types[t].createPathParamAttr = create.renames
    BY <1>1 DEF ResourceType
  <1> HIDE DEF r
  <1>3. r.read \in doc.ops /\ r.create \in doc.ops
    <2>1. found = Discovered(doc.ops, putFirst) /\ doc \in Docs
      BY <1>1 DEF DiscoverInv
    <2>2. IsOperations(doc.ops)
      BY <2>1, DocumentType
    <2>3. PICK c \in Candidates(doc.ops, putFirst) :
              r.read = c /\ r.create = CHOOSE o \in CreateOf(doc.ops, c, putFirst) : TRUE
      BY <1>1, <2>1, DiscoveredAre
    <2>4. c \in doc.ops /\ CreateOf(doc.ops, c, putFirst) # {}
      BY <2>2, CandidatesAre DEF Candidates
    <2>5. r.create \in CreateOf(doc.ops, c, putFirst)
      BY <2>3, <2>4
    <2> QED BY <2>2, <2>3, <2>4, <2>5, CreateIsOperation
  <1>4. doc \in Docs /\ r.read.path \in Seq(Nat) /\ r.create.path \in Seq(Nat)
    BY <1>1, <1>3, DocumentType, OperationFields DEF DiscoverInv
  <1>5. IsFiniteSet(DOMAIN AttributesOf(r))
    BY <1>3, <1>4, BuildAssumption DEF AttributesOf
  <1>6. /\ IsFiniteSet(DOMAIN read.attrs)
        /\ Extends(AttributesOf(r), read.attrs)
        /\ \A p \in Params(r.read.path) : Usable(read.attrs, read.renames, p)
    BY <1>4, <1>5, ParamsEnsured
  <1> HIDE DEF read
  <1>7. /\ Extends(read.attrs, create.attrs)
        /\ \A p \in Params(r.create.path) : Usable(create.attrs, create.renames, p)
    BY <1>4, <1>6, ParamsEnsured
  <1> HIDE DEF create
  <1>8. \A p \in Params(r.read.path) : Usable(create.attrs, read.renames, p)
    BY <1>6, <1>7, UsableStays
  <1>9. Extends(AttributesOf(r), create.attrs)
    BY <1>6, <1>7 DEF Extends
  <1> QED BY <1>2, <1>7, <1>8, <1>9 DEF r

\* Names do not depend on the order in which the map of methods is ranged
\* over, which may be another each time resources are discovered.
THEOREM RangingNamesNothing ==
    ASSUME doc \in Docs, NEW first, NEW second
    PROVE  {<<x.read, x.type>> : x \in Discovered(doc.ops, first)}
              = {<<x.read, x.type>> : x \in Discovered(doc.ops, second)}
  <1>1. ASSUME NEW one, NEW other, NEW x \in Discovered(doc.ops, one)
        PROVE  <<x.read, x.type>> \in {<<y.read, y.type>> : y \in Discovered(doc.ops, other)}
    <2>1. PICK y \in Discovered(doc.ops, other) : y.read = x.read /\ y.type = x.type
      BY DocumentType, FoundAlike
    <2> QED BY <2>1
  <1> DEFINE Names(order) == {<<x.read, x.type>> : x \in Discovered(doc.ops, order)}
  <1>2. \A one, other : Names(one) \subseteq Names(other)
    BY <1>1
  <1> QED BY <1>2

\* No read of a document is lost: it makes a resource type or a data source,
\* or is reported, unless the document calls something in one word what it
\* calls something else in three.
THEOREM ReadsAreOfferedOrReported == BuildSpec => []EveryReadIsAccountedFor
  <1>1. BuildInv => EveryReadIsAccountedFor
    BY ReadsAreAccountedFor
  <1> QED BY <1>1, BuildInvariant, PTL

\* Publishing a type in a lower version renames no type and makes none share
\* its name.
THEOREM PrereleasesDisturbNobody == BuildSpec => []PrereleaseDisturbsNobody
  <1>1. BuildInv => PrereleaseDisturbsNobody
    BY NobodyIsDisturbed DEF BuildInv, DiscoverInv
  <1> QED BY <1>1, BuildInvariant, PTL

\* Every parameter of a resource type's paths has an attribute a URL can be
\* built from, and every attribute of the API's own is as it was.
THEOREM EveryTypeIsAddressable ==
    ASSUME SuffixesDiffer
    PROVE  BuildSpec => []ParamsAreUsable
  <1>1. BuildInv => ParamsAreUsable
    BY TypesAreUsable
  <1> QED BY <1>1, BuildInvariant, PTL

(***************************************************************************)
(* What the states of a type hold                                          *)
(***************************************************************************)

\* What is not carried is the object as it was last seen, normalised.
FromSeen ==
    recorded # None /\ ~raw =>
        \A a \in Attrs \ carryForwardFields : recorded[a] = Normal(a, Decode(seen)[a])

CarryInv == TypeOK /\ Addressable /\ NothingOrphaned /\ FromSeen
-----------------------------------------------------------------------------
(* Values and states.                                                       *)

LEMMA Reserved ==
    /\ Null \notin Texts /\ Unknown \notin Texts /\ None \notin Texts
    /\ \A t \in Texts : Canon(t) \in Texts /\ Canon(Canon(t)) = Canon(t)
    /\ None \notin States
    /\ Null # Unknown
BY CarryAssumption DEF States

LEMMA NormalType ==
    ASSUME NEW a \in Attrs, NEW v \in Texts \cup {Null, Unknown}
    PROVE  /\ Normal(a, v) \in Texts \cup {Null, Unknown}
           /\ v # Unknown => Normal(a, v) # Unknown
BY Reserved DEF Normal, HasValue

LEMMA NormalIdempotent ==
    ASSUME NEW a \in Attrs, NEW v \in Texts \cup {Null}
    PROVE  Normal(a, Normal(a, v)) = Normal(a, v)
BY Reserved DEF Normal, HasValue

LEMMA DecodeType ==
    ASSUME NEW o \in Objects
    PROVE  /\ Decode(o) \in States
           /\ \A a \in Attrs : Decode(o)[a] # Unknown
           /\ \A a \in InResponse : Decode(o)[a] = o[a] /\ o[a] \in Texts \cup {Null}
<1>1. \A a \in InResponse : a \in Attrs /\ o[a] \in Texts \cup {Null}
  BY CarryAssumption DEF Objects
<1>2. \A a \in Attrs : Decode(o)[a] = IF a \in InResponse THEN o[a] ELSE Null
  BY DEF Decode
<1>3. \A a \in Attrs : Decode(o)[a] \in Texts \cup {Null}
  BY <1>1, <1>2
<1>4. Decode(o) \in [Attrs -> Texts \cup {Null, Unknown}]
  BY <1>1 DEF Decode
<1> QED
  BY <1>1, <1>2, <1>3, <1>4, Reserved DEF States

\* Each attribute of a new state is carried or normalised.
LEMMA NewStateFields ==
    ASSUME NEW o \in Objects, NEW prior \in States
    PROVE  /\ NewState(o, prior) \in States
           /\ \A a \in Attrs : NewState(o, prior)[a] =
                IF a \in carryForwardFields THEN prior[a] ELSE Normal(a, Decode(o)[a])
<1> DEFINE fresh == applyNormalizers(Decode(o))
<1>1. \A a \in Attrs : fresh[a] = Normal(a, Decode(o)[a])
  BY DEF applyNormalizers
<1>2. \A a \in Attrs : Decode(o)[a] \in Texts \cup {Null, Unknown}
  BY DecodeType DEF States
<1>3. \A a \in Attrs : fresh[a] \in Texts \cup {Null, Unknown}
  BY <1>1, <1>2, NormalType
<1>4. \A a \in Attrs : prior[a] \in Texts \cup {Null, Unknown}
  BY DEF States
<1>5. NewState(o, prior) =
        [a \in Attrs |-> IF a \in carryForwardFields THEN prior[a] ELSE fresh[a]]
  BY DEF NewState, mergeCarryForward
<1> HIDE DEF fresh
<1> QED
  BY <1>1, <1>3, <1>4, <1>5 DEF States

\* The read parameters of a new state are the carried ones.
LEMMA NewStateAddress ==
    ASSUME NEW o \in Objects, NEW prior \in States
    PROVE  /\ AddressOf(NewState(o, prior)) = AddressOf(prior)
           /\ Resolves(NewState(o, prior), ReadPath) <=> Resolves(prior, ReadPath)
<1>1. \A a \in ReadPath : NewState(o, prior)[a] = prior[a]
  BY NewStateFields, CarryAssumption DEF carryForwardFields
<1> QED
  BY <1>1 DEF AddressOf, Resolves

\* A planned attribute has a value, none, or one the API is to choose.
LEMMA PlanType ==
    ASSUME NEW p \in Plans
    PROVE  /\ p \in States
           /\ \A a \in Attrs : HasValue(p[a]) => p[a] \in Texts
<1>1. PICK c \in Configurations :
        p = [a \in Attrs |-> IF c[a] = Null /\ a \in Computed THEN Unknown ELSE c[a]]
  BY DEF Plans
<1>2. \A a \in Attrs : c[a] \in Texts \cup {Null}
  BY DEF Configurations
<1> QED
  BY <1>1, <1>2 DEF States, HasValue

LEMMA ContentsType ==
    ASSUME NEW k \in Addresses, NEW o \in Contents[k]
    PROVE  o \in Objects
BY DEF Contents

LEMMA AddressIsFunction ==
    ASSUME NEW k \in Addresses, NEW s \in States, \A a \in ReadPath : s[a] = k[a]
    PROVE  AddressOf(s) = k /\ Resolves(s, ReadPath)
<1>1. k \in [ReadPath -> Texts]
  BY DEF Addresses
<1>2. k = [a \in ReadPath |-> k[a]]
  BY <1>1
<1>3. [a \in ReadPath |-> k[a]] = [a \in ReadPath |-> s[a]]
  OBVIOUS
<1>4. \A a \in ReadPath : HasValue(s[a])
  BY <1>1, Reserved DEF HasValue
<1> QED
  BY <1>2, <1>3, <1>4 DEF AddressOf, Resolves

\* None is not a value of any other kind.
LEMMA Kinds ==
    /\ None \notin Objects
    /\ None \notin Addresses
    /\ None \notin States
BY CarryAssumption DEF Objects, Addresses, States
-----------------------------------------------------------------------------
(* The invariant.                                                           *)

\* Storing an object that fits its address leaves the API well typed.
LEMMA StoreType ==
    ASSUME TypeOK, NEW k \in Addresses, NEW o \in Contents[k] \cup {None}
    PROVE  LET after == [objects EXCEPT ![k] = o]
           IN  /\ after \in [Addresses -> Objects \cup {None}]
               /\ \A q \in Addresses : after[q] # None => after[q] \in Contents[q]
BY ContentsType DEF TypeOK

LEMMA InitInv == Init => CarryInv
BY DEF Init, CarryInv, TypeOK, Addressable, NothingOrphaned, FromSeen

\* What a create or an update of the object at k records keeps the invariant.
LEMMA WriteInv ==
    ASSUME CarryInv, NEW k \in Addresses, NEW o \in Contents[k], NEW planned \in Plans,
           \A a \in ReadPath : HasValue(planned[a]) => planned[a] = k[a],
           objects' = [objects EXCEPT ![k] = o],
           recorded' = NewState(o, planned), mine' = k, seen' = o,
           raw' \in BOOLEAN, assigned' \in BOOLEAN, async' = async,
           Resolves(planned, ReadPath) \/ assigned'
    PROVE  CarryInv'
<1>1. planned \in States
  BY PlanType
<1>2. o \in Objects
  BY ContentsType
<1>3. recorded' \in States
  BY <1>1, <1>2, NewStateFields
<1>4. TypeOK'
  <2>1. /\ objects' \in [Addresses -> Objects \cup {None}]
        /\ \A q \in Addresses : objects'[q] # None => objects'[q] \in Contents[q]
    BY StoreType DEF CarryInv
  <2>2. mine' \in Addresses /\ seen' \in Objects
    BY <1>2
  <2>3. mine' # None /\ seen' # None
    BY <2>2, Kinds
  <2> QED
    BY <1>3, <2>1, <2>2, <2>3 DEF CarryInv, TypeOK
<1>5. Addressable'
  <2>1. /\ AddressOf(recorded') = AddressOf(planned)
        /\ Resolves(recorded', ReadPath) <=> Resolves(planned, ReadPath)
    BY <1>1, <1>2, NewStateAddress
  <2>2. Resolves(planned, ReadPath) => AddressOf(planned) = k
    BY <1>1, AddressIsFunction DEF Resolves
  <2> QED
    BY <2>1, <2>2 DEF Addressable
<1>6. FromSeen'
  BY <1>1, <1>2, NewStateFields DEF FromSeen
<1>7. NothingOrphaned'
  BY <1>3, Kinds DEF NothingOrphaned
<1> QED
  BY <1>4, <1>5, <1>6, <1>7 DEF CarryInv

\* A create either records what it made, or has left a parameter to the API.
LEMMA CreateInv == CarryInv /\ applyCreate => CarryInv'
<1> SUFFICES ASSUME CarryInv, applyCreate PROVE CarryInv'
  OBVIOUS
<1>1. PICK planned \in Plans, k \in Addresses :
        /\ \A a \in ReadPath : HasValue(planned[a]) => k[a] = planned[a]
        /\ \E o \in Contents[k] :
            /\ objects' = [objects EXCEPT ![k] = o]
            /\ mine' = k
            /\ assigned' = ~Resolves(planned, ReadPath)
            /\ LET merged == NewState(o, planned)
               IN  IF async /\ ~Resolves(merged, ReadPath)
                   THEN UNCHANGED <<recorded, seen>>
                   ELSE recorded' = merged /\ seen' = o
  BY DEF applyCreate
<1>2. PICK o \in Contents[k] :
            /\ objects' = [objects EXCEPT ![k] = o]
            /\ mine' = k
            /\ assigned' = ~Resolves(planned, ReadPath)
            /\ LET merged == NewState(o, planned)
               IN  IF async /\ ~Resolves(merged, ReadPath)
                   THEN UNCHANGED <<recorded, seen>>
                   ELSE recorded' = merged /\ seen' = o
  BY <1>1
<1>3. /\ recorded = None /\ raw' = raw /\ async' = async /\ raw \in BOOLEAN
      /\ assigned' \in BOOLEAN
  BY <1>2 DEF applyCreate, CarryInv, TypeOK, Resolves
<1>4. planned \in States /\ o \in Objects
  BY PlanType, ContentsType
<1>5. CASE async /\ ~Resolves(NewState(o, planned), ReadPath)
  <2>1. recorded' = None /\ seen' = seen
    BY <1>2, <1>3, <1>5
  <2>2. ~Resolves(planned, ReadPath)
    BY <1>4, <1>5, NewStateAddress
  <2>3. /\ objects' \in [Addresses -> Objects \cup {None}]
        /\ \A q \in Addresses : objects'[q] # None => objects'[q] \in Contents[q]
    BY <1>2, StoreType DEF CarryInv
  <2>4. TypeOK'
    BY <1>2, <1>3, <2>1, <2>3 DEF CarryInv, TypeOK
  <2> QED
    BY <1>2, <2>1, <2>2, <2>4 DEF CarryInv, Addressable, NothingOrphaned, FromSeen
<1>6. CASE ~(async /\ ~Resolves(NewState(o, planned), ReadPath))
  <2>1. recorded' = NewState(o, planned) /\ seen' = o
    BY <1>2, <1>6
  <2>2. Resolves(planned, ReadPath) \/ assigned'
    BY <1>2
  <2> QED
    BY <1>1, <1>2, <1>3, <2>1, <2>2, WriteInv
<1> QED
  BY <1>5, <1>6

\* What an import records leads to the object imported, or nowhere.
LEMMA ImportInv == CarryInv /\ ImportResourceState => CarryInv'
<1> SUFFICES ASSUME CarryInv, ImportResourceState PROVE CarryInv'
  OBVIOUS
<1>1. PICK k \in Addresses :
        /\ objects[k] # None
        /\ recorded' = Decode(objects[k]) /\ mine' = k /\ seen' = objects[k]
        /\ raw' = TRUE /\ assigned' = FALSE /\ UNCHANGED <<objects, async>>
  BY DEF ImportResourceState
<1> DEFINE o == objects[k]
<1>2. o \in Contents[k] /\ o \in Objects
  BY <1>1, ContentsType DEF CarryInv, TypeOK
<1>3. /\ recorded' = Decode(o) /\ mine' = k /\ seen' = o
      /\ raw' = TRUE /\ assigned' = FALSE /\ UNCHANGED <<objects, async>>
  BY <1>1
<1> HIDE DEF o
<1>4. recorded' \in States
  BY <1>2, <1>3, DecodeType
<1>5. TypeOK'
  BY <1>2, <1>3, <1>4, Kinds DEF CarryInv, TypeOK
<1>6. Resolves(recorded', ReadPath) => AddressOf(recorded') = k
  <2> SUFFICES ASSUME Resolves(recorded', ReadPath)
               PROVE  AddressOf(recorded') = k
    OBVIOUS
  <2>1. \A a \in ReadPath : a \in Attrs /\ HasValue(recorded'[a])
    BY CarryAssumption DEF Resolves
  <2>2. \A a \in ReadPath : recorded'[a] = IF a \in InResponse THEN o[a] ELSE Null
    BY <1>3, <2>1 DEF Decode
  <2>3. \A a \in ReadPath : a \in InResponse /\ o[a] # Null
    BY <2>1, <2>2 DEF HasValue
  <2>4. \A a \in ReadPath : o[a] = k[a]
    BY <1>2, <2>3 DEF Contents
  <2>5. \A a \in ReadPath : recorded'[a] = k[a]
    BY <2>2, <2>3, <2>4
  <2> QED
    BY <1>4, <2>5, AddressIsFunction
<1>7. Addressable'
  BY <1>3, <1>6 DEF Addressable
<1> QED
  BY <1>3, <1>4, <1>5, <1>7, Kinds DEF CarryInv, NothingOrphaned, FromSeen

\* The plan of an update that is not refused leads where the recorded state
\* does.
LEMMA UpdateAddress ==
    ASSUME CarryInv, recorded # None, NEW planned \in Plans, Resolves(planned, ReadPath),
           \A a \in ReadPath \cup CreatePath :
              planned[a] # Unknown => planned[a] = recorded[a]
    PROVE  /\ mine \in Addresses
           /\ AddressOf(planned) = mine /\ AddressOf(recorded) = mine
           /\ \A a \in ReadPath : planned[a] = mine[a]
<1>1. \A a \in ReadPath : HasValue(planned[a]) /\ planned[a] = recorded[a]
  BY DEF Resolves, HasValue
<1>2. Resolves(recorded, ReadPath) /\ AddressOf(planned) = AddressOf(recorded)
  BY <1>1 DEF Resolves, AddressOf
<1>3. AddressOf(recorded) = mine /\ mine \in Addresses
  BY <1>2 DEF CarryInv, TypeOK, Addressable
<1>4. \A a \in ReadPath : recorded[a] = mine[a]
  BY <1>3 DEF AddressOf
<1> QED
  BY <1>1, <1>2, <1>3, <1>4

LEMMA UpdateInv == CarryInv /\ applyUpdate => CarryInv'
<1> SUFFICES ASSUME CarryInv, applyUpdate PROVE CarryInv'
  OBVIOUS
<1>1. PICK planned \in Plans :
        /\ \A a \in ReadPath \cup CreatePath :
              planned[a] # Unknown => planned[a] = recorded[a]
        /\ Resolves(planned, ReadPath)
        /\ \E o \in Contents[AddressOf(planned)] :
            /\ objects' = [objects EXCEPT ![AddressOf(planned)] = o]
            /\ recorded' = NewState(o, planned)
            /\ seen' = o
  BY DEF applyUpdate
<1>2. /\ recorded # None /\ raw' = FALSE
      /\ UNCHANGED <<mine, assigned, async>> /\ assigned \in BOOLEAN
  BY DEF applyUpdate, CarryInv, TypeOK
<1>3. /\ mine \in Addresses /\ AddressOf(planned) = mine
      /\ \A a \in ReadPath : planned[a] = mine[a]
  BY <1>1, <1>2, UpdateAddress
<1>4. PICK o \in Contents[mine] :
            /\ objects' = [objects EXCEPT ![mine] = o]
            /\ recorded' = NewState(o, planned)
            /\ seen' = o
  BY <1>1, <1>3
<1> QED
  BY <1>1, <1>2, <1>3, <1>4, WriteInv

LEMMA DestroyInv == CarryInv /\ applyDestroy => CarryInv'
<1> SUFFICES ASSUME CarryInv, applyDestroy PROVE CarryInv'
  OBVIOUS
<1>1. AddressOf(recorded) \in Addresses
  BY DEF applyDestroy, CarryInv, TypeOK, Addressable
<1>2. TypeOK'
  BY <1>1, StoreType DEF applyDestroy, CarryInv, TypeOK
<1> QED
  BY <1>2 DEF applyDestroy, CarryInv, Addressable, NothingOrphaned, FromSeen

LEMMA ReadFindsInv == CarryInv /\ ReadFinds => CarryInv'
<1> SUFFICES ASSUME CarryInv, ReadFinds PROVE CarryInv'
  OBVIOUS
<1> DEFINE o == objects[AddressOf(recorded)]
<1>1. recorded # None /\ recorded \in States
  BY DEF ReadFinds, CarryInv, TypeOK
<1>2. AddressOf(recorded) = mine /\ mine \in Addresses /\ Resolves(recorded, ReadPath)
  BY <1>1 DEF ReadFinds, CarryInv, TypeOK, Addressable
<1>3. o \in Objects
  BY <1>2 DEF ReadFinds, CarryInv, TypeOK
<1>4. /\ recorded' = NewState(o, recorded) /\ seen' = o
      /\ raw' = FALSE /\ UNCHANGED <<objects, mine, assigned, async>>
  BY DEF ReadFinds
<1> HIDE DEF o
<1>5. recorded' \in States
  BY <1>1, <1>3, <1>4, NewStateFields
<1>6. TypeOK'
  BY <1>2, <1>3, <1>4, <1>5, Kinds DEF CarryInv, TypeOK
<1>7. Addressable'
  BY <1>1, <1>2, <1>3, <1>4, NewStateAddress DEF Addressable
<1>8. FromSeen'
  BY <1>1, <1>3, <1>4, NewStateFields DEF FromSeen
<1>9. NothingOrphaned'
  BY <1>5, Kinds DEF NothingOrphaned
<1> QED
  BY <1>6, <1>7, <1>8, <1>9 DEF CarryInv

LEMMA ReadMissesInv == CarryInv /\ ReadMisses => CarryInv'
BY DEF ReadMisses, CarryInv, TypeOK, Addressable, NothingOrphaned, FromSeen

LEMMA ElsewhereInv == CarryInv /\ Elsewhere => CarryInv'
<1> SUFFICES ASSUME CarryInv, Elsewhere PROVE CarryInv'
  OBVIOUS
<1>1. PICK k \in Addresses, o \in UNION {Contents[q] \cup {None} : q \in Addresses} :
        o \in Contents[k] \cup {None} /\ objects' = [objects EXCEPT ![k] = o]
  BY DEF Elsewhere
<1>2. UNCHANGED <<recorded, mine, seen, raw, assigned, async>>
  BY DEF Elsewhere
<1>3. TypeOK'
  BY <1>1, <1>2, StoreType DEF CarryInv, TypeOK
<1> QED
  BY <1>2, <1>3 DEF CarryInv, Addressable, NothingOrphaned, FromSeen

\* CarryInv is inductive: the carried parameters lead home or nowhere, and
\* what is not carried is the object as it was last seen.
THEOREM CarryInvariant == Spec => []CarryInv
<1>1. Init => CarryInv
  BY InitInv
<1>2. CarryInv /\ [Next]_vars => CarryInv'
  <2> SUFFICES ASSUME CarryInv, [Next]_vars PROVE CarryInv'
    OBVIOUS
  <2>1. CASE applyCreate
    BY <2>1, CreateInv
  <2>2. CASE applyUpdate
    BY <2>2, UpdateInv
  <2>3. CASE applyDestroy
    BY <2>3, DestroyInv
  <2>4. CASE ReadFinds
    BY <2>4, ReadFindsInv
  <2>5. CASE ReadMisses
    BY <2>5, ReadMissesInv
  <2>6. CASE ImportResourceState
    BY <2>6, ImportInv
  <2>7. CASE Elsewhere
    BY <2>7, ElsewhereInv
  <2>8. CASE UNCHANGED vars
    BY <2>8 DEF vars, CarryInv, TypeOK, Addressable, NothingOrphaned, FromSeen
  <2> QED
    BY <2>1, <2>2, <2>3, <2>4, <2>5, <2>6, <2>7, <2>8 DEF Next, ProviderNext
<1> QED
  BY <1>1, <1>2, PTL DEF Spec

\* The states, objects and addresses are of the kinds they should be.
THEOREM CarryTypeCorrect == Spec => []TypeOK
<1>1. CarryInv => TypeOK
  BY DEF CarryInv
<1> QED
  BY <1>1, CarryInvariant, PTL

\* Every operation finds the resource's own object from its recorded state, or
\* finds none because an import or a create left a parameter without a value.
THEOREM AlwaysAddressable == Spec => []Addressable
<1>1. CarryInv => Addressable
  BY DEF CarryInv
<1> QED
  BY <1>1, CarryInvariant, PTL

\* No create leaves an object behind that is not recorded, but one that left a
\* read parameter to the API.
THEOREM NeverOrphaned == Spec => []NothingOrphaned
<1>1. CarryInv => NothingOrphaned
  BY DEF CarryInv
<1> QED
  BY <1>1, CarryInvariant, PTL

\* An unchanged object never shows as drift: normalising is done when a value
\* is recorded, and the normalisers are idempotent.
THEOREM NeverFalseDrift == Spec => []NoFalseDrift
<1>1. CarryInv => NoFalseDrift
  <2> SUFFICES ASSUME CarryInv, NEW k \in Addresses, recorded # None, ~raw, k = mine,
                      objects[k] # None, Unchanged(objects[k])
               PROVE  NewState(objects[k], recorded) = recorded
    BY DEF NoFalseDrift
  <2> DEFINE o == objects[k]
  <2>1. recorded \in States /\ o \in Objects /\ seen \in Objects
    BY DEF CarryInv, TypeOK
  <2>2. \A a \in InResponse \ Ignored : Normal(a, o[a]) = Normal(a, seen[a])
    BY DEF Unchanged
  <2> HIDE DEF o
  <2>3. \A a \in Attrs \ carryForwardFields : Normal(a, Decode(o)[a]) = recorded[a]
    <3> SUFFICES ASSUME NEW a \in Attrs \ carryForwardFields
                 PROVE  Normal(a, Decode(o)[a]) = recorded[a]
      OBVIOUS
    <3>1. recorded[a] = Normal(a, Decode(seen)[a])
      BY DEF CarryInv, FromSeen
    <3>2. CASE a \in InResponse
      BY <2>1, <2>2, <3>1, <3>2, DecodeType DEF carryForwardFields
    <3>3. CASE a \notin InResponse
      BY <3>1, <3>3 DEF Decode
    <3> QED
      BY <3>2, <3>3
  <2>4. \A a \in Attrs : NewState(o, recorded)[a] = recorded[a]
    BY <2>1, <2>3, NewStateFields
  <2>5. NewState(o, recorded) \in States
    BY <2>1, NewStateFields
  <2>6. NewState(o, recorded) = recorded
    BY <2>1, <2>4, <2>5 DEF States
  <2> QED
    BY <2>6 DEF o
<1> QED
  BY <1>1, CarryInvariant, PTL

\* No change of the object is masked by what is carried forward, but of an
\* ignored attribute or of a parameter of the create path alone.
THEOREM DriftIsAlwaysSeen == Spec => DriftIsSeen
<1> DEFINE Seen == ReadFinds => \A k \in Addresses : k = mine =>
        \A a \in InResponse \ (Ignored \cup Omitted \cup (CreatePath \ ReadPath)) :
            Normal(a, recorded'[a]) = Normal(a, objects[k][a])
<1>1. CarryInv /\ [Next]_vars => [Seen]_vars
  <2> SUFFICES ASSUME CarryInv, ReadFinds, NEW a \in InResponse \ (Ignored \cup Omitted \cup (CreatePath \ ReadPath)), mine \in Addresses
               PROVE  Normal(a, recorded'[a]) = Normal(a, objects[mine][a])
    OBVIOUS
  <2> DEFINE o == objects[mine]
  <2>1. /\ recorded \in States /\ AddressOf(recorded) = mine
        /\ recorded' = NewState(objects[AddressOf(recorded)], recorded)
        /\ objects[AddressOf(recorded)] # None
    BY DEF ReadFinds, CarryInv, TypeOK, Addressable
  <2>2. recorded' = NewState(o, recorded) /\ o \in Contents[mine]
    BY <2>1 DEF CarryInv, TypeOK
  <2>3. o \in Objects /\ a \in Attrs
    BY <2>2, ContentsType, CarryAssumption
  <2>4. Decode(o)[a] = o[a] /\ o[a] \in Texts \cup {Null}
    BY <2>3, DecodeType
  <2>5. CASE a \in ReadPath
    <3>1. recorded'[a] = recorded[a]
      BY <2>1, <2>2, <2>3, <2>5, NewStateFields DEF carryForwardFields
    <3>2. recorded[a] = mine[a]
      BY <2>1, <2>5 DEF AddressOf
    <3>3. o[a] = mine[a]
      BY <2>2, <2>5 DEF Contents
    <3> QED
      BY <3>1, <3>2, <3>3
  <2>6. CASE a \notin ReadPath
    <3>1. a \notin carryForwardFields
      BY <2>6 DEF carryForwardFields
    <3>2. recorded'[a] = Normal(a, o[a])
      BY <2>1, <2>2, <2>3, <2>4, <3>1, NewStateFields
    <3> QED
      BY <2>3, <2>4, <3>2, NormalIdempotent
  <2> QED
    BY <2>5, <2>6
<1> QED
  BY <1>1, CarryInvariant, PTL DEF Spec, DriftIsSeen

\* The provider leaves every other object of the API alone.
THEOREM OwnIsTouchedAlone == Spec => TouchesOwn
<1> DEFINE Own == \A k \in Addresses \ {mine, mine'} :
                    objects'[k] # objects[k] => UNCHANGED <<recorded, mine, seen, raw, assigned>>
<1>1. CarryInv /\ [Next]_vars => [Own]_vars
  <2> SUFFICES ASSUME CarryInv, NEW k \in Addresses \ {mine, mine'}, ProviderNext
               PROVE  objects'[k] = objects[k]
    BY DEF Next, Elsewhere
  <2>1. recorded # None /\ Resolves(recorded, ReadPath) => AddressOf(recorded) = mine
    BY DEF CarryInv, Addressable
  <2>2. CASE applyCreate
    BY <2>2 DEF applyCreate, CarryInv, TypeOK
  <2>3. CASE applyUpdate
    <3>1. recorded # None
      BY <2>3 DEF applyUpdate
    <3>2. PICK planned \in Plans :
            /\ \A a \in ReadPath \cup CreatePath :
                  planned[a] # Unknown => planned[a] = recorded[a]
            /\ Resolves(planned, ReadPath)
            /\ \E o \in Contents[AddressOf(planned)] :
                objects' = [objects EXCEPT ![AddressOf(planned)] = o]
      BY <2>3 DEF applyUpdate
    <3>3. AddressOf(planned) = mine
      BY <3>1, <3>2, UpdateAddress
    <3> QED
      BY <3>2, <3>3 DEF CarryInv, TypeOK
  <2>4. CASE applyDestroy
    BY <2>1, <2>4 DEF applyDestroy, CarryInv, TypeOK
  <2>5. CASE ReadFinds \/ ReadMisses
    BY <2>5 DEF ReadFinds, ReadMisses
  <2>6. CASE ImportResourceState
    BY <2>6 DEF ImportResourceState
  <2> QED
    BY <2>2, <2>3, <2>4, <2>5, <2>6 DEF ProviderNext
<1> QED
  BY <1>1, CarryInvariant, PTL DEF Spec, TouchesOwn
=============================================================================

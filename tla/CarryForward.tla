----------------------------- MODULE CarryForward -----------------------------
(***************************************************************************)
(* internal/dynserver, attribute by attribute: what one resource's         *)
(* recorded state holds after each operation, and which object of the API  *)
(* the next operation goes to.                                             *)
(*                                                                         *)
(* An object is reached through the parameters of the read path.  A state  *)
(* is built from the API's answer: decoded, normalised, and then           *)
(* overwritten, attribute by attribute, with what was planned or recorded  *)
(* before wherever the attribute is carried forward.  The names in         *)
(* ReadPath and CreatePath are the attributes that hold the parameters,    *)
(* after ensurePathParamsPresent has renamed those that collide.           *)
(*                                                                         *)
(* DynServer models which operations succeed; here they do, unless an      *)
(* attribute they need has no value.                                       *)
(***************************************************************************)
EXTENDS FiniteSets

CONSTANTS
    Attrs,          \* attributes of the resource type's schema
    ReadPath,       \* those that fill the parameters of the read path
    CreatePath,     \* those that fill the parameters of the create path
    InResponse,     \* those the API's own representation has
    Omitted,        \* read parameters that some answers leave out
    Computed,       \* those the API gives a value where the configuration has none
    Optional,       \* those the configuration may leave unset or give a value
    Ignored,        \* drift.ignore
    Normalized,     \* drift.normalize
    Spellings,      \* the values of each attribute
    Canon(_),       \* the normaliser: lowercase, uppercase or trim
    Null, Unknown, None

Texts == UNION {Spellings[a] : a \in Attrs}

ASSUME CarryAssumption ==
    /\ ReadPath \subseteq Attrs
    /\ CreatePath \subseteq Attrs
    /\ InResponse \subseteq Attrs
    /\ Omitted \subseteq ReadPath \cap InResponse
    /\ Ignored \subseteq Attrs
    /\ Attrs \subseteq InResponse \cup ReadPath \cup CreatePath
    /\ \A t \in Texts : Canon(t) \in Texts /\ Canon(Canon(t)) = Canon(t)
    /\ {Null, Unknown, None} \cap Texts = {}
    /\ None \notin [Attrs -> Texts \cup {Null, Unknown}]
    /\ None \notin [InResponse -> Texts \cup {Null}]
    /\ None \notin [ReadPath -> Texts]
    /\ Null # Unknown

VARIABLES
    objects,    \* what the API has at each address
    recorded,   \* the state ubx has recorded for the resource, or None
    mine,       \* history: the address of the object made or imported for it
    seen,       \* history: the object as it was when it was last recorded
    raw,        \* history: the recorded state is an import's, as decoded
    assigned,   \* history: the create left a read parameter to the API
    async       \* whether the API answers a write with an operation to poll

vars == <<objects, recorded, mine, seen, raw, assigned, async>>

Addresses == {k \in [ReadPath -> Texts] : \A a \in ReadPath : k[a] \in Spellings[a]}

Objects ==
    {o \in [InResponse -> Texts \cup {Null}] : \A a \in InResponse :
        o[a] \in IF a \in Omitted THEN Spellings[a] \cup {Null} ELSE Spellings[a]}

\* What the API may have at an address: the parameters it represents are
\* the ones it is reached by, where it does not leave them out.
Contents == [k \in Addresses |->
    {o \in Objects : \A a \in InResponse \cap ReadPath :
        o[a] = k[a] \/ (a \in Omitted /\ o[a] = Null)}]

States == [Attrs -> Texts \cup {Null, Unknown}]

\* What a configuration gives: a value for every attribute it sets, none for
\* one that is left to the API or unset.
Configurations ==
    {c \in [Attrs -> Texts \cup {Null}] : \A a \in Attrs :
        /\ c[a] \in Spellings[a] \cup {Null}
        /\ a \in Computed \ Optional => c[a] = Null
        /\ a \notin Computed \cup Optional => c[a] # Null}

\* A computed attribute that is absent from the configuration is Unknown in
\* the planned state, in an update as in a create.
Plans ==
    {[a \in Attrs |-> IF c[a] = Null /\ a \in Computed THEN Unknown ELSE c[a]] :
        c \in Configurations}

TypeOK ==
    /\ objects \in [Addresses -> Objects \cup {None}]
    /\ \A k \in Addresses : objects[k] # None => objects[k] \in Contents[k]
    /\ recorded \in States \cup {None}
    /\ mine \in Addresses \cup {None}
    /\ seen \in Objects \cup {None}
    /\ raw \in BOOLEAN
    /\ assigned \in BOOLEAN
    /\ async \in BOOLEAN
    /\ recorded # None => mine # None /\ seen # None
-----------------------------------------------------------------------------
(* From answers to states.                                                  *)

\* wire.FromJSON: an attribute the answer does not mention is null.
Decode(o) == [a \in Attrs |-> IF a \in InResponse THEN o[a] ELSE Null]

HasValue(v) == v \notin {Null, Unknown}

Normal(a, v) == IF a \in Normalized /\ HasValue(v) THEN Canon(v) ELSE v

applyNormalizers(state) == [a \in Attrs |-> Normal(a, state[a])]

\* Bug: parameters of the read path are not carried.
CarryWithoutReadPath == CreatePath \cup Ignored

\* Bug: all that was planned or recorded is carried.
CarryAll == Attrs

carryForwardFields == ReadPath \cup CreatePath \cup Ignored

mergeCarryForward(fresh, prior) ==
    [a \in Attrs |-> IF a \in carryForwardFields THEN prior[a] ELSE fresh[a]]

\* The tail shared by create, update and read.
NewState(o, prior) == mergeCarryForward(applyNormalizers(Decode(o)), prior)

\* extractStringAttrs has a value for every parameter, or reports an error.
Resolves(state, params) == \A a \in params : HasValue(state[a])

AddressOf(state) == [a \in ReadPath |-> state[a]]
-----------------------------------------------------------------------------
(* What the API does with a request.                                        *)

\* requestBody: an attribute with no value is not sent.
Sent(planned, params) == {a \in Attrs \ params : HasValue(planned[a])}

\* The API stores what it is sent, spelt its own way where a normaliser is
\* configured; it stamps ignored attributes as it likes.
Kept == InResponse \ (Ignored \cup ReadPath)

Stores(o, planned, attrs) ==
    \A a \in Kept : a \in attrs => Normal(a, o[a]) = Normal(a, planned[a])

\* What a PATCH does not mention stays, unless the API computes it.
Keeps(o, old, attrs) ==
    \A a \in InResponse \ (attrs \cup Computed \cup Ignored) : o[a] = old[a]
-----------------------------------------------------------------------------
Init ==
    /\ objects \in [Addresses -> {None}]
    /\ recorded = None
    /\ mine = None
    /\ seen = None
    /\ raw = FALSE
    /\ assigned = FALSE
    /\ async \in BOOLEAN

\* The object is put where its read parameters say, the API choosing those
\* that are not given.  After an asynchronous create the object is read
\* again, through the parameters found in the merged state; when one has no
\* value the create reports an error and nothing is recorded.
applyCreate ==
    /\ recorded = None
    /\ \E planned \in Plans, k \in Addresses :
        /\ Resolves(planned, CreatePath)
        /\ objects[k] = None
        /\ \A a \in ReadPath : HasValue(planned[a]) => k[a] = planned[a]
        /\ \E o \in Contents[k] :
            /\ Stores(o, planned, Sent(planned, CreatePath) \cup CreatePath)
            /\ objects' = [objects EXCEPT ![k] = o]
            /\ mine' = k
            /\ assigned' = ~Resolves(planned, ReadPath)
            /\ LET merged == NewState(o, planned)
               IN  IF async /\ ~Resolves(merged, ReadPath)
                   THEN UNCHANGED <<recorded, seen>>
                   ELSE /\ recorded' = merged
                        /\ seen' = o
    /\ UNCHANGED <<raw, async>>

\* A change to a path parameter is a replacement, which ubx plans as a
\* destroy and a create; the other attributes are the configuration's.  One
\* that the configuration leaves to the API is Unknown again, and an update
\* that needs it is refused.
applyUpdate ==
    /\ recorded # None
    /\ \E planned \in Plans :
        /\ \A a \in ReadPath \cup CreatePath :
              planned[a] # Unknown => planned[a] = recorded[a]
        /\ Resolves(planned, ReadPath)
        /\ objects[AddressOf(planned)] # None
        /\ \E o \in Contents[AddressOf(planned)] :
            /\ Stores(o, planned, Sent(planned, ReadPath))
            /\ Keeps(o, objects[AddressOf(planned)], Sent(planned, ReadPath))
            /\ objects' = [objects EXCEPT ![AddressOf(planned)] = o]
            /\ recorded' = NewState(o, planned)
            /\ seen' = o
    /\ raw' = FALSE
    /\ UNCHANGED <<mine, assigned, async>>

\* A destroy of what is gone already is a clean one.
applyDestroy ==
    /\ recorded # None
    /\ Resolves(recorded, ReadPath)
    /\ objects' = [objects EXCEPT ![AddressOf(recorded)] = None]
    /\ recorded' = None
    /\ mine' = None
    /\ seen' = None
    /\ raw' = FALSE
    /\ assigned' = FALSE
    /\ UNCHANGED async

\* Bug: a read normalises nothing.
ReadRaw ==
    /\ recorded # None
    /\ Resolves(recorded, ReadPath)
    /\ objects[AddressOf(recorded)] # None
    /\ recorded' = mergeCarryForward(Decode(objects[AddressOf(recorded)]), recorded)
    /\ seen' = objects[AddressOf(recorded)]
    /\ raw' = FALSE
    /\ UNCHANGED <<objects, mine, assigned, async>>

ReadFinds ==
    /\ recorded # None
    /\ Resolves(recorded, ReadPath)
    /\ objects[AddressOf(recorded)] # None
    /\ recorded' = NewState(objects[AddressOf(recorded)], recorded)
    /\ seen' = objects[AddressOf(recorded)]
    /\ raw' = FALSE
    /\ UNCHANGED <<objects, mine, assigned, async>>

ReadMisses ==
    /\ recorded # None
    /\ Resolves(recorded, ReadPath)
    /\ objects[AddressOf(recorded)] = None
    /\ recorded' = None
    /\ mine' = None
    /\ seen' = None
    /\ raw' = FALSE
    /\ assigned' = FALSE
    /\ UNCHANGED <<objects, async>>

\* Bug: an import normalises what it decodes, its address included.
ImportNormalized ==
    /\ recorded = None
    /\ \E k \in Addresses :
        /\ objects[k] # None
        /\ recorded' = applyNormalizers(Decode(objects[k]))
        /\ mine' = k
        /\ seen' = objects[k]
    /\ raw' = TRUE
    /\ assigned' = FALSE
    /\ UNCHANGED <<objects, async>>

\* The parameters come from the import ID.  The answer is recorded as it is
\* decoded: neither normalised nor given the parameters it does not have.
ImportResourceState ==
    /\ recorded = None
    /\ \E k \in Addresses :
        /\ objects[k] # None
        /\ recorded' = Decode(objects[k])
        /\ mine' = k
        /\ seen' = objects[k]
    /\ raw' = TRUE
    /\ assigned' = FALSE
    /\ UNCHANGED <<objects, async>>

\* Other users of the API make, change, respell and delete objects.
Elsewhere ==
    /\ \E k \in Addresses : \E o \in Contents[k] \cup {None} :
            objects' = [objects EXCEPT ![k] = o]
    /\ UNCHANGED <<recorded, mine, seen, raw, assigned, async>>

ProviderNext ==
    \/ applyCreate
    \/ applyUpdate
    \/ applyDestroy
    \/ ReadFinds
    \/ ReadMisses
    \/ ImportResourceState

Next == ProviderNext \/ Elsewhere

Spec == Init /\ [][Next]_vars
-----------------------------------------------------------------------------
(* Correctness.                                                             *)

\* The recorded state leads to the resource's own object or nowhere, and
\* nowhere only in two cases: as an import left it, without a parameter that
\* the answer does not repeat, or as a create left it whose configuration gave
\* no value for a parameter.  extractStringAttrs then refuses every operation.
Addressable ==
    recorded # None =>
        /\ Resolves(recorded, ReadPath) => AddressOf(recorded) = mine
        /\ Resolves(recorded, ReadPath) \/ raw \/ assigned

\* The object is the one last recorded, spelling and ignored attributes aside.
Unchanged(o) ==
    \A a \in InResponse \ Ignored : Normal(a, o[a]) = Normal(a, seen[a])

\* Refreshing a resource nobody has changed leaves its recorded state alone,
\* however the API spells it and whatever it stamps (DriftPolicy), once an
\* operation other than the import has recorded it.
NoFalseDrift ==
    \A k \in Addresses :
        /\ recorded # None
        /\ ~raw
        /\ k = mine
        /\ objects[k] # None
        /\ Unchanged(objects[k])
        => NewState(objects[k], recorded) = recorded

\* A read that finds the object records every attribute the answer has, up to
\* spelling, unless it is to be ignored or is a parameter of the create path
\* alone: carrying values forward hides no other change.
DriftIsSeen ==
    [][ReadFinds => \A k \in Addresses : k = mine =>
        \A a \in InResponse \ (Ignored \cup Omitted \cup (CreatePath \ ReadPath)) :
            Normal(a, recorded'[a]) = Normal(a, objects[k][a])]_vars

\* The provider changes, makes and deletes its own object and no other: any
\* other is changed by others, in a step that records nothing.
TouchesOwn ==
    [][\A k \in Addresses \ {mine, mine'} :
        objects'[k] # objects[k] => UNCHANGED <<recorded, mine, seen, raw, assigned>>]_vars

\* An object that a create has made is recorded, unless the create left a
\* parameter of the read path to the API.
NothingOrphaned == mine # None => recorded # None \/ assigned
=============================================================================

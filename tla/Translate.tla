------------------------------ MODULE Translate ------------------------------
(***************************************************************************)
(* internal/schema: what attributes an OpenAPI schema becomes, and what    *)
(* signals are collected for them.                                         *)
(***************************************************************************)
EXTENDS Schemas, Naturals, Sequences, FiniteSets, SequencesExt

CONSTANTS
    MaxDepth,       \* defaultMaxDepth
    ToSnakeCase(_)  \* of a property's name, one to one

\* The identity of a schema that was put together for the occasion.
Fresh == 0

\* Types.  Endless is none: the call that was to make it does not return.
Dynamic == [is |-> "dynamic"]
Endless == [is |-> "endless"]
ListOf(t) == [is |-> "list", of |-> t]
MapOf(t) == [is |-> "map", of |-> t]
ObjectOf(fields) == [is |-> "object", fields |-> fields]
Nested(attrs) == [is |-> "nested", attrs |-> attrs]

\* As a value, an object has fields without flags.
RECURSIVE ObjectValueType(_)
ObjectValueType(attrs) ==
    ObjectOf([n \in DOMAIN attrs |->
                IF attrs[n].type.is = "nested" THEN ObjectValueType(attrs[n].type.attrs)
                ELSE attrs[n].type])

\* enterObject refuses.
Refused(id, active) == (id # Fresh /\ Contains(active, id)) \/ Len(active) >= MaxDepth

IsObjectType(s) ==
    \/ s.kind = "object"
    \/ s.kind = "" /\ (s.props # <<>> \/ s.additional # NoSchema)

HasProperties(s) == IsObjectType(s) /\ s.props # <<>>

\* fieldPolicy.apply
Policy(s, required) ==
    [required  |-> ~s.readOnly /\ required,
     optional  |-> ~s.readOnly /\ ~required,
     computed  |-> s.readOnly,
     writeOnly |-> ~s.readOnly /\ s.writeOnly]

\* What f says, and what it is silent about from h.
Over(f, h) == [n \in DOMAIN f \cup DOMAIN h |-> IF n \in DOMAIN f THEN f[n] ELSE h[n]]

Synthetic(props, required) ==
    [kind |-> "", props |-> props, required |-> required, items |-> NoSchema, additional |-> NoSchema,
     union |-> <<>>, allOf |-> <<>>, readOnly |-> FALSE, writeOnly |-> FALSE]

\* A later branch overrides an earlier one, the schema's own properties all.
MergeAllOf(g, s) ==
    Synthetic(Over(s.props, FoldLeft(LAMBDA props, b : Over(g[b].props, props), <<>>, s.allOf)),
              s.required \cup UNION {g[b].required : b \in Range(s.allOf)})

\* An earlier branch of a union overrides a later one; nothing is required.
MergeUnion(g, branches) ==
    Synthetic(FoldLeft(LAMBDA props, b : Over(props, g[b].props), <<>>, branches), {})

AllOfKind(g, branches, kind) == \A b \in Range(branches) : g[b].kind = kind

AllObjects(g, branches) == \A b \in Range(branches) : IsObjectType(g[b])
-----------------------------------------------------------------------------
(* Translator.  active is the stack of schemas being expanded.  Lists and  *)
(* maps do not enter it: ring are those on the way since it changed last,  *)
(* and one that is met again there is met for ever.                        *)

RECURSIVE BuildProperties(_, _, _, _), BuildAttribute(_, _, _, _), BuildType(_, _, _, _)

BuildProperties(g, id, s, active) ==
    IF Refused(id, active) THEN NoAttributes
    ELSE [a \in {ToSnakeCase(n) : n \in DOMAIN s.props} |->
            LET n == CHOOSE m \in DOMAIN s.props : ToSnakeCase(m) = a
            IN  BuildAttribute(g, s.props[n], n \in s.required, Append(active, id))]

\* The cut of a circle makes an object dynamic.
BuildAttribute(g, id, required, active) ==
    LET s     == g[id]
        attrs == BuildProperties(g, id, s, active)
        type  == IF ~HasProperties(s) THEN BuildType(g, id, active, {})
                 ELSE IF attrs = NoAttributes THEN Dynamic ELSE Nested(attrs)
    IN  [type |-> type, of |-> {id}] @@ Policy(s, required)

\* buildArray and buildMap go on to the elements alike.
ElementType(g, id, active, ring) ==
    IF HasProperties(g[id]) THEN ObjectValueType(BuildProperties(g, id, g[id], active))
    ELSE BuildType(g, id, active, ring)

BuildUnion(g, s, active) ==
    CASE AllOfKind(g, s.union, "string") -> Scalar("string")
      [] AllOfKind(g, s.union, "integer") -> Scalar("integer")
      [] AllOfKind(g, s.union, "boolean") -> Scalar("boolean")
      [] AllObjects(g, s.union) ->
            ObjectValueType(BuildProperties(g, Fresh, MergeUnion(g, s.union), active))
      [] OTHER -> Dynamic

BuildComposedType(g, id, active) ==
    IF Refused(id, active) THEN Dynamic
    ELSE IF g[id].union # <<>> THEN BuildUnion(g, g[id], Append(active, id))
    ELSE ObjectValueType(BuildProperties(g, Fresh, MergeAllOf(g, g[id]), Append(active, id)))

BuildType(g, id, active, ring) ==
    LET s == g[id] IN
    CASE id \in ring -> Endless
      [] id \notin ring /\ (s.union # <<>> \/ s.allOf # <<>>) -> BuildComposedType(g, id, active)
      [] OTHER ->
            IF s.kind = "array"
            THEN ListOf(IF s.items = NoSchema THEN Dynamic
                        ELSE ElementType(g, s.items, active, ring \cup {id}))
            ELSE IF IsObjectType(s)
            THEN IF s.additional = NoSchema THEN Dynamic
                 ELSE MapOf(ElementType(g, s.additional, active, ring \cup {id}))
            ELSE IF s.kind = "" THEN Dynamic ELSE Scalar(s.kind)

\* Bug: what the schema is composed of is left out.
BuildTopLevelOwn(g, id) ==
    IF id = NoSchema \/ ~IsObjectType(g[id]) THEN NoAttributes
    ELSE BuildProperties(g, id, g[id], <<>>)

BuildTopLevel(g, id) ==
    IF id = NoSchema THEN NoAttributes
    ELSE IF g[id].allOf # <<>> THEN BuildProperties(g, Fresh, MergeAllOf(g, g[id]), <<id>>)
    ELSE IF IsObjectType(g[id]) THEN BuildProperties(g, id, g[id], <<>>)
    ELSE NoAttributes
-----------------------------------------------------------------------------
(* MergeResourceAttributes *)

ServerSet(attr) ==
    [attr EXCEPT !.required = FALSE, !.optional = FALSE, !.writeOnly = FALSE, !.computed = TRUE]

ServerMaySet(attr) == [attr EXCEPT !.optional = TRUE, !.computed = TRUE]

SaysReadOnly(attr) == attr.computed /\ ~attr.optional /\ ~attr.required

RECURSIVE MergeResourceAttributes(_, _)

\* Bug: what create says of a nested object is kept as it is.
MergeBothFlat(c, r) ==
    IF SaysReadOnly(r) THEN ServerSet(c) ELSE IF ~c.required THEN ServerMaySet(c) ELSE c

MergeBoth(c, r) ==
    LET both   == [c EXCEPT !.of = @ \cup r.of]
        merged == IF c.type.is = "nested" /\ r.type.is = "nested"
                  THEN [both EXCEPT !.type =
                           Nested(MergeResourceAttributes(c.type.attrs, r.type.attrs))]
                  ELSE both
    IN  IF SaysReadOnly(r) THEN ServerSet(merged)
        ELSE IF ~c.required THEN ServerMaySet(merged)
        ELSE merged

MergeResourceAttributes(create, read) ==
    [n \in DOMAIN create \cup DOMAIN read |->
        IF n \notin DOMAIN read THEN create[n]
        ELSE IF n \notin DOMAIN create THEN ServerSet(read[n])
        ELSE MergeBoth(create[n], read[n])]
-----------------------------------------------------------------------------
(* Signals: for the names of attributes, the schemas whose limits are told *)
(* (from), and the signals inside.  Every schema says something here.      *)

RECURSIVE CollectSignals(_, _, _)

\* An allOf's branches override the schema's own properties.
SignalProps(g, s) ==
    LET own == FoldLeft(LAMBDA props, b : Over(g[b].props, props), s.props, s.allOf)
    IN  IF s.union = <<>> \/ ~AllObjects(g, s.union) THEN own
        ELSE Over(own, MergeUnion(g, s.union).props)

NestedSignalFor(g, id, active) ==
    CASE g[id].kind = "array" -> CollectSignals(g, g[id].items, active)
      [] g[id].kind # "array" /\ HasProperties(g[id]) -> CollectSignals(g, id, active)
      [] OTHER -> <<>>

CollectSignals(g, id, active) ==
    IF id = NoSchema \/ Contains(active, id) \/ Len(active) >= MaxDepth THEN <<>>
    ELSE LET props == SignalProps(g, g[id]) IN
         [a \in {ToSnakeCase(n) : n \in DOMAIN props} |->
            LET n == CHOOSE m \in DOMAIN props : ToSnakeCase(m) = a
            IN  [from   |-> {props[n]},
                 nested |-> NestedSignalFor(g, props[n], Append(active, id))]]

RECURSIVE MergeSignalMaps(_, _)
MergeSignalMaps(dst, src) ==
    [n \in DOMAIN dst \cup DOMAIN src |->
        IF n \notin DOMAIN src THEN dst[n]
        ELSE IF n \notin DOMAIN dst THEN src[n]
        ELSE [from   |-> dst[n].from \cup src[n].from,
              nested |-> MergeSignalMaps(dst[n].nested, src[n].nested)]]
=============================================================================

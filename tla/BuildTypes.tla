------------------------------ MODULE BuildTypes ------------------------------
(***************************************************************************)
(* DynBuild with the translation of schemas that the code has (Translate): *)
(* whether the attributes of a type carry what the document says.          *)
(***************************************************************************)
EXTENDS DynBuild, Translate

MergedAttributes(g, request, answer) ==
    MergeResourceAttributes(BuildTopLevel(g, request), BuildTopLevel(g, answer))

MergedSignals(g, request, answer) ==
    MergeSignalMaps(CollectSignals(g, request, <<>>), CollectSignals(g, answer, <<>>))

\* buildOperationParamAttrs: what the operation itself declares.
ParamAttrs(g, o) ==
    [a \in {ToSnakeCase(n) : n \in DOMAIN o.params} |->
        LET n == CHOOSE m \in DOMAIN o.params : ToSnakeCase(m) = a
        IN  BuildAttribute(g, o.params[n].schema, o.params[n].required, <<Fresh>>)]

DataSourceAttributes(g, o) ==
    MergeResourceAttributes(ParamAttrs(g, o), BuildTopLevel(g, o.response))

-----------------------------------------------------------------------------
(* Correctness *)

\* What JSON Schema makes of a schema: all that declare a field of it.
RECURSIVE Declared(_, _)
Declared(id, n) ==
    LET s == doc.schemas[id]
    IN  {s.props[m] : m \in {n} \cap DOMAIN s.props}
        \cup UNION {Declared(b, n) : b \in Range(s.allOf \o s.union)}

RECURSIVE FieldsOf(_)
FieldsOf(id) ==
    DOMAIN doc.schemas[id].props
    \cup UNION {FieldsOf(b) : b \in Range(doc.schemas[id].allOf \o doc.schemas[id].union)}

FieldTypes(type) ==
    IF type.is = "nested" THEN [n \in DOMAIN type.attrs |-> type.attrs[n].type]
    ELSE IF type.is = "object" THEN type.fields
    ELSE <<>>

\* A type has a place for everything the schema describes, to some depth, or
\* is dynamic and has room for anything.
RECURSIVE Carries(_, _, _)
Carries(type, id, depth) ==
    LET s == doc.schemas[id] IN
    \/ depth = 0
    \/ type = Dynamic
    \/ /\ type # Endless
       /\ \A n \in FieldsOf(id) :
             /\ ToSnakeCase(n) \in DOMAIN FieldTypes(type)
             /\ \E d \in Declared(id, n) : Carries(FieldTypes(type)[ToSnakeCase(n)], d, depth - 1)
       /\ s.items # NoSchema => type.is = "list" /\ Carries(type.of, s.items, depth - 1)
       /\ s.additional # NoSchema => type.is = "map" /\ Carries(type.of, s.additional, depth - 1)
       /\ s.kind \in {"string", "integer", "boolean"} => type = Scalar(s.kind)

\* Restrictions under which the translation leaves nothing out.  A field
\* whose schema has both properties and something to compose or to map them
\* with is translated by the properties alone; what an allOf's branch is
\* composed of itself is left out.
Inner(g) ==
    UNION {Range(g[id].props) \cup Range(g[id].allOf \o g[id].union) \cup {g[id].items, g[id].additional} :
             id \in DOMAIN g} \ {NoSchema}

PlainObjects(g) ==
    \A id \in Inner(g) :
        /\ g[id].props # <<>> => g[id].allOf \o g[id].union = <<>> /\ g[id].additional = NoSchema
        /\ \A b \in Range(g[id].allOf \o g[id].union) : g[b].allOf \o g[b].union = <<>>

\* A list or a map of objects that contain it is cut short at an object
\* without fields; one of itself and nothing else never ends.
Elements(g, id) == {g[id].items, g[id].additional} \ {NoSchema}

RECURSIVE Within(_, _, _)
Within(g, ids, n) ==
    IF n = 0 THEN ids
    ELSE Within(g, ids \cup UNION {Range(g[id].props) \cup Range(g[id].allOf \o g[id].union)
                                     \cup Elements(g, id) : id \in ids}, n - 1)

NoRoundLists(g) ==
    \A id \in DOMAIN g : \A e \in Elements(g, id) :
        g[e].union = <<>> => id \notin Within(g, {e}, Cardinality(DOMAIN g))

\* Nothing a document describes is left out silently: every field, element
\* and value of a request, at every depth, has its place in the type, or the
\* place above it is dynamic, and so has what only the answer describes.
\* (Where both describe a field, the request does.)
NothingFlattened ==
    PlainObjects(doc.schemas) /\ NoRoundLists(doc.schemas) =>
        \A t \in DOMAIN types :
            LET request == types[t].resource.create.request
                answer  == types[t].resource.read.response
                attrs   == AttributesOf(types[t].resource)
                Depth   == Cardinality(DOMAIN doc.schemas)
            IN  /\ Carries(Nested(attrs), request, Depth)
                /\ \A n \in FieldsOf(answer) \ FieldsOf(request) :
                      /\ ToSnakeCase(n) \in DOMAIN attrs
                      /\ \E d \in Declared(answer, n) :
                            Carries(attrs[ToSnakeCase(n)].type, d, Depth)

\* What the API says is its own to set (readOnly, in its answer) is never
\* asked of the user, however deep inside objects both sides describe, and
\* what a request must have remains required.  (Of an object that either
\* side composes, the flags inside are the request's.)
RECURSIVE FlagsAgree(_, _, _)
FlagsAgree(attrs, create, read) ==
    \A n \in FieldsOf(create) \cup FieldsOf(read) :
        LET attr == attrs[ToSnakeCase(n)]
            cs   == Declared(create, n)
            rs   == Declared(read, n)
            ReadOnly(ids) == ids # {} /\ \A d \in ids : doc.schemas[d].readOnly
        IN  ToSnakeCase(n) \in DOMAIN attrs =>
              /\ ReadOnly(rs) => SaysReadOnly(attr) /\ ~attr.writeOnly
              /\ rs = {} /\ ~ReadOnly(cs) => ~SaysReadOnly(attr)
              /\ n \in doc.schemas[create].required /\ ~ReadOnly(cs) /\ ~ReadOnly(rs) => attr.required
              /\ attr.type.is = "nested" =>
                    \A c \in cs, r \in rs :
                        HasProperties(doc.schemas[c]) /\ HasProperties(doc.schemas[r])
                            => FlagsAgree(attr.type.attrs, c, r)

ReadOnlyStaysComputed ==
    PlainObjects(doc.schemas) /\ NoRoundLists(doc.schemas) =>
    \A t \in DOMAIN types :
        LET r == types[t].resource
        IN  r.create.request # NoSchema /\ doc.schemas[r.create.request].union = <<>> =>
                FlagsAgree(types[t].attrs, r.create.request, r.read.response)

=============================================================================

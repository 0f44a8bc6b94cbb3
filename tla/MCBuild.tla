------------------------------- MODULE MCBuild -------------------------------
(***************************************************************************)
(* Instances of BuildTypes for TLC: documents whose operations are         *)
(* puzzling and whose schemas are simple, and documents of one resource    *)
(* whose schemas are puzzling.                                             *)
(***************************************************************************)
EXTENDS BuildTypes

MCProvider == <<10>>

MCIsParam(s) == s \in {50, 51}

\* {owner}:restore
MCStem(s) == IF s = 52 THEN 50 ELSE 0

MCIsWatch(s) == s = 24

MCParamName(s) == IF s = 50 THEN "owner" ELSE "id"

MCPathAttr(p, n) == IF n = 1 THEN p \o "_path" ELSE p \o "_path" \o ToString(n)

MCToSnakeCase(name) == IF name = "isOn" THEN "is_on" ELSE name

Service == <<20>>
Noun == <<30>>

MCIsExcluded(noun) == \E i \in DOMAIN noun : noun[i] = 45

MCIsStatus(ref) == \E i \in DOMAIN ref.noun : ref.noun[i] = 46

\* v1, v2beta1, v1alpha1; the words sort after the noun.
MCVersions == {41, 42, 43}

MCPriority(v) == CASE v = 41 -> <<2, 1, 0>>
                   [] v = 42 -> <<1, 2, 1>>
                   [] OTHER -> <<0, 1, 1>>

(* Operations *)

Named3(v) == [service |-> Service, version |-> v, noun |-> Noun]

Flat(noun) == [service |-> <<>>, version |-> Unversioned, noun |-> noun]

MCRefs == {Named3(41), Named3(42), Named3(43), Flat(Service \o Noun), Flat(<<20, 42, 30>>), NoName}

Status == Flat(<<46>>)

Op(method, path, ref, verbs) ==
    [method |-> method, path |-> path, verbs |-> verbs, request |-> 1, response |-> 2, ref |-> ref,
     items |-> NoName, params |-> <<>>]

Listing(path, ref) == [Op("GET", path, Flat(<<60>>), {}) EXCEPT !.items = ref]

\* How an item at path is made: not at all, on its collection with or
\* without an answer, in place, with an answer whose property is another
\* component, both, or by an action: below it, or the second best of two.
Ways == {"none", "post", "silent", "put", "other", "both", "action", "restore"}

Item(path, ref, way) ==
    LET col == SubSeq(path, 1, Len(path) - 1)
        post == Op("POST", col, ref, {"create"})
        put == Op("PUT", path, ref, {"create"})
        action == [Op("POST", path, Flat(<<61>>), {"action"}) EXCEPT !.response = NoSchema]
        last == Len(path)
    IN  {Op("GET", path, ref, {}), Listing(col, ref)} \cup
        CASE way = "none" -> {}
          [] way = "post" -> {post}
          [] way = "silent" -> {[post EXCEPT !.response = NoSchema]}
          [] way = "put" -> {put, Op("DELETE", path, NoName, {})}
          [] way = "other" -> {[put EXCEPT !.response = 4, !.verbs = {}]}
          [] way = "both" -> {put, Op("POST", path, ref, {"create"}), Op("PATCH", path, ref, {})}
          [] way = "action" -> {[action EXCEPT !.path = path \o <<70>>]}
          [] OTHER -> {[action EXCEPT !.verbs = @ \cup {"watch"}],
                       [action EXCEPT !.path[last] = 52]}

(* Schemas *)

Untyped == Synthetic(<<>>, {})
Text == [Untyped EXCEPT !.kind = "string"]
OwnText == [Text EXCEPT !.readOnly = TRUE]
Obj(props) == [Untyped EXCEPT !.kind = "object", !.props = props]
Arr(items) == [Untyped EXCEPT !.kind = "array", !.items = items]
Dict(values) == [Untyped EXCEPT !.kind = "object", !.additional = values]

Simple == (1 :> Obj("id" :> 3)) @@ (2 :> Obj("id" :> 3)) @@ (3 :> Text)
            @@ (4 :> Obj("id" :> 5)) @@ (5 :> Text)

OperationDocs ==
    {[ops |-> Item(<<21, 50>>, r1, w1) \cup Item(<<22, 51>>, r2, w2) \cup Item(<<23, 50, 24, 51>>, r3, "post"),
      schemas |-> Simple, named |-> {5}] :
        r1 \in MCRefs \cup {Status}, w1 \in Ways, r2 \in MCRefs, w2 \in {"none", "post", "both", "action"},
        r3 \in {Named3(43), Flat(<<45>>)}}

\* 1 is what requests have, 2 what answers have; 5 and 7 are objects, 6 is
\* whatever a field may be otherwise.
Fields(x, y) == ("owner" :> x) @@ ("isOn" :> y)

Others == {Arr(3), Arr(5), Arr(6), Dict(5), Untyped, Obj(<<>>),
           [Untyped EXCEPT !.union = <<3, 3>>], [Untyped EXCEPT !.union = <<5, 7>>],
           [Untyped EXCEPT !.union = <<3, 5>>], [Untyped EXCEPT !.allOf = <<5, 7>>],
           [Obj("id" :> 3) EXCEPT !.allOf = <<7>>]}

Answers == {[Obj(Fields(x, y)) EXCEPT !.allOf = composed] :
                x \in {4, 5, 6}, y \in {4, 6}, composed \in {<<>>, <<5>>, <<7>>}}

Requests == {[Obj(Fields(3, 3)) EXCEPT !.required = {"owner"}],
             [Obj(Fields(8, 4)) EXCEPT !.required = {"owner"}],
             [Obj("id" :> 3) EXCEPT !.allOf = <<7>>]}

Graphs ==
    {(1 :> request) @@ (2 :> answer) @@ (3 :> Text) @@ (4 :> OwnText)
       @@ (5 :> Obj(("id" :> 4) @@ ("next" :> next))) @@ (6 :> other)
       @@ (7 :> [Obj(("id" :> 3) @@ ("more" :> 6)) EXCEPT !.required = {"id"}])
       @@ (8 :> Obj(("id" :> 3) @@ ("next" :> 9))) @@ (9 :> [Text EXCEPT !.writeOnly = TRUE]) :
         request \in Requests, answer \in Answers, next \in {3, 5, 6, 2}, other \in Others}

OneResource(g, same) ==
    LET ref  == Named3(41)
        post == [Op("POST", <<21>>, ref, {"create"}) EXCEPT !.request = IF same THEN 2 ELSE 1]
        list == [Op("GET", <<21>>, Flat(<<60>>), {}) EXCEPT
                    !.response = 6, !.params = "isOn" :> [schema |-> 4, required |-> TRUE]]
    IN  [ops |-> {Op("GET", <<21, 50>>, ref, {}), post, list}, schemas |-> g, named |-> {}]

SchemaDocs == {OneResource(g, same) : g \in Graphs, same \in BOOLEAN}

MCDocs == OperationDocs \cup SchemaDocs
=============================================================================

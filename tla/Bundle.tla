-------------------------------- MODULE Bundle --------------------------------
(***************************************************************************)
(* internal/openapi/bundle.go: Bundle makes a document whose references    *)
(* lead into other files readable without them, so that it can be pinned.  *)
(*                                                                         *)
(* A text gives every definition of every file what it refers to.  The     *)
(* loaded document is a graph: a *place* is one SchemaRef (ParameterRef,   *)
(* ...) object, it has the reference string that stood there and the value *)
(* it was resolved to, and the places inside a value are shared by all     *)
(* references to it.  What is marshalled of a place is its string alone.   *)
(* Schemas, parameters, bodies, responses and headers are walked by one    *)
(* rule and kept in tables of their own: a definition's kind goes with its *)
(* name here.                                                              *)
(*                                                                         *)
(* Resolving the references is the library's part (openapi3.Loader): a     *)
(* text says what each definition was resolved to.                         *)
(***************************************************************************)
EXTENDS Naturals, Sequences, FiniteSets, Functions

CONSTANTS
    Files,      \* files the description is split into, 1 is the document
    Names       \* names of definitions

Main == 1

\* The file of a reference that begins with "#": the file it stands in.
Here == 0

NoRef == [file |-> Here, name |-> 0]

Defs == [file : Files, name : Names]

\* The paths of the document are a definition no reference leads to.
Paths == [file |-> Main, name |-> 0]

OwnEntries == {d \in Defs : d.file = Main}

References == [file : Files \cup {Here}, name : Names]

\* The map f with v under k.
Put(f, k, v) == [j \in DOMAIN f \cup {k} |-> IF j = k THEN v ELSE f[j]]

ASSUME BundleAssumption ==
    /\ Files \subseteq Nat \ {0} /\ Main \in Files
    /\ Names \subseteq Nat \ {0}

Target(d, r) == [file |-> IF r.file = Here THEN d.file ELSE r.file, name |-> r.name]

\* definitionsSection: a Swagger 2 document.  A definition that is nothing but
\* a reference has the value of what it refers to, which is length references
\* away: a description in which references only lead to references does not
\* load.
IsText(t) ==
    /\ t.definitionsSection \in BOOLEAN
    /\ t.alias[Paths] = NoRef
    /\ \A d \in Defs \cup {Paths} :
          /\ t.alias[d] \in References \cup {NoRef}
          /\ t.inside[d] \in Seq(References)
          /\ t.value[d] \in Defs \cup {Paths}
          /\ t.length[d] \in Nat
          /\ IF t.alias[d] = NoRef THEN t.value[d] = d
             ELSE /\ t.value[d] = t.value[Target(d, t.alias[d])]
                  /\ t.length[d] = t.length[Target(d, t.alias[d])] + 1

\* What a definition refers to.
RefersTo(t, d) == ({t.alias[d]} \cup Range(t.inside[d])) \ {NoRef}

\* No reference leads into another file.
SingleFile(t) ==
    \A d \in Defs \cup {Paths} :
        /\ t.value[d].file = d.file
        /\ \A r \in RefersTo(t, d) : r.file = Here

\* No reference leads into the document by its file's name, and no entry of
\* the document is a reference into another file.
NoWayBack(t) ==
    \A d \in Defs \cup {Paths} :
        /\ t.value[d].file = Main <=> d.file = Main
        /\ \A r \in RefersTo(t, d) : r.file # Main

VARIABLES
    text,       \* the files, as published
    stage,      \* "idle", "walk", "rewrite", "done"
    stack,      \* the calls of walk* that are still to be made, next one first
    entries,    \* component entries that collect has not come to yet
    visited,    \* places walked
    collected,  \* external*: places to be rewritten
    names,      \* the entry each collected string is to name
    refs,       \* the string at each rewritten place
    components  \* the entries Bundle has made: name -> value

bundleVars == <<text, stage, stack, entries, visited, collected, names, refs, components>>

-----------------------------------------------------------------------------
(* The loaded document *)

Final(d) == text.value[d]

\* The entry of a definition, and the places inside it.
Entry(d) == [in |-> d, at |-> 0]

Inside(d) == [i \in 1..Len(text.inside[d]) |-> [in |-> d, at |-> i]]

Reference(p) == IF p.at = 0 THEN text.alias[p.in] ELSE text.inside[p.in][p.at]

Value(p) == IF Reference(p) = NoRef THEN p.in ELSE Final(Target(p.in, Reference(p)))

\* Two places in different files may hold the same string.  A converted
\* Swagger 2 document spells its own components otherwise than the files
\* it refers to, which are left as they are.
Spelling(p) ==
    LET r == Reference(p)
    IN  << r.file,
           IF r.file = Here /\ p.in.file # Main /\ text.definitionsSection THEN 1 ELSE 0,
           r.name, 1 >>

IsExternalRef(s) == s[1] # Here

\* No document is being bundled.
BundleIdle ==
    /\ text = <<>>
    /\ stage = "idle"
    /\ stack = <<>>
    /\ entries = {}
    /\ visited = {}
    /\ collected = {}
    /\ names = <<>>
    /\ refs = <<>>
    /\ components = <<>>

\* Bundle is called with a document that was loaded from t.
BundleCall(t) ==
    /\ stage = "idle"
    /\ text' = t
    /\ stage' = "walk"
    /\ stack' = [i \in 1..Len(t.inside[Paths]) |->
                   [place |-> [in |-> Paths, at |-> i], foreign |-> FALSE]]
    /\ entries' = {Entry(d) : d \in OwnEntries}
    /\ UNCHANGED <<visited, collected, names, refs, components>>

\* The caller has written what it needs of the document, and lets it go.
BundleDropped ==
    /\ text' = <<>>
    /\ stage' = "idle"
    /\ stack' = <<>>
    /\ entries' = {}
    /\ visited' = {}
    /\ collected' = {}
    /\ names' = <<>>
    /\ refs' = <<>>
    /\ components' = <<>>

-----------------------------------------------------------------------------
(* collect *)

\* The paths come first, in order; then the components, as a map is ranged
\* over, in any order.
NextEntry ==
    /\ stage = "walk"
    /\ stack = <<>>
    /\ \E p \in entries :
          /\ stack' = <<[place |-> p, foreign |-> FALSE]>>
          /\ entries' = entries \ {p}
    /\ UNCHANGED <<text, stage, visited, collected, names, refs, components>>

HasRef(p) == Reference(p) # NoRef

Leaves(p) == HasRef(p) /\ IsExternalRef(Spelling(p))

NeedsBundle(p, foreign) == HasRef(p) /\ (foreign \/ Leaves(p))

ChildForeign(p, foreign) == foreign \/ Leaves(p)

\* Bug: places are walked as often as they are met.
WalkUnguarded ==
    /\ stage = "walk"
    /\ stack # <<>>
    /\ LET call == Head(stack)
       IN  /\ visited' = visited \cup {call.place}
           /\ collected' = collected \cup {p \in {call.place} : NeedsBundle(p, call.foreign)}
           /\ stack' = [i \in DOMAIN Inside(Value(call.place)) |->
                          [place |-> Inside(Value(call.place))[i],
                           foreign |-> ChildForeign(call.place, call.foreign)]] \o Tail(stack)
    /\ UNCHANGED <<text, stage, entries, names, refs, components>>

\* walkSchema, walkParameter, walkHeader, walkRequestBody, walkResponse and
\* walkContent: a call about a place walked before returns at once.
Walk ==
    /\ stage = "walk"
    /\ stack # <<>>
    /\ LET call == Head(stack)
           calls == [i \in DOMAIN Inside(Value(call.place)) |->
                        [place |-> Inside(Value(call.place))[i],
                         foreign |-> ChildForeign(call.place, call.foreign)]]
       IN  IF call.place \in visited
           THEN stack' = Tail(stack) /\ UNCHANGED <<visited, collected>>
           ELSE /\ visited' = visited \cup {call.place}
                /\ collected' = collected \cup
                      {p \in {call.place} : NeedsBundle(p, call.foreign)}
                /\ stack' = calls \o Tail(stack)
    /\ UNCHANGED <<text, stage, entries, names, refs, components>>

-----------------------------------------------------------------------------
(* rewrite *)

\* The order of strings: "#" sorts before any path.
SortsBefore(s, t) ==
    \E i \in 1..3 : s[i] < t[i] /\ \A j \in 1..(i - 1) : s[j] = t[j]

ExistingNames == {<<d.name, 1>> : d \in OwnEntries}

\* The strings that are named before s and derive the same base name.
Rivals(s, strings) == {t \in strings : t[3] = s[3] /\ SortsBefore(t, s)}

\* Bug: names that exist are not avoided.
NamesOfNewOnly(strings) == [s \in strings |-> <<s[3], Cardinality(Rivals(s, strings)) + 1>>]

\* One name for each distinct string, in the order of the strings: what
\* refLocalName derives, with the first suffix that is not taken.  The
\* document's own names have none.
BundleNames(strings) ==
    [s \in strings |->
        << s[3],
           Cardinality(Rivals(s, strings) \cup ({<<s[3], 1>>} \cap ExistingNames)) + 1 >>]

LocalRef(name) == <<Here, 0, name[1], name[2]>>

StartRewrite ==
    /\ stage = "walk"
    /\ stack = <<>>
    /\ entries = {}
    /\ stage' = "rewrite"
    /\ names' = BundleNames({Spelling(p) : p \in collected})
    /\ UNCHANGED <<text, stack, entries, visited, collected, refs, components>>

\* One round of the loop over external*, a map too.
Rewrite ==
    /\ stage = "rewrite"
    /\ \E p \in collected \ DOMAIN refs :
          /\ components' = Put(components, names[Spelling(p)], Value(p))
          /\ refs' = Put(refs, p, LocalRef(names[Spelling(p)]))
    /\ UNCHANGED <<text, stage, stack, entries, visited, collected, names>>

Finish ==
    /\ stage = "rewrite"
    /\ collected = DOMAIN refs
    /\ stage' = "done"
    /\ UNCHANGED <<text, stack, entries, visited, collected, names, refs, components>>

BundleNext == NextEntry \/ Walk \/ StartRewrite \/ Rewrite \/ Finish

-----------------------------------------------------------------------------
(* Reading the result again, without a network: LoadOpenAPIMember's parse of *)
(* what GenerateOpenAPIMember marshalled.                                    *)

StringAt(p) == IF p \in DOMAIN refs THEN refs[p] ELSE Spelling(p)

\* What is written: the paths, the components, and the insides of every
\* value that is spelled out somewhere.
SpelledOut ==
    Range(components) \cup {Paths} \cup
    {d \in OwnEntries : text.alias[d] = NoRef}

WrittenInsides == UNION {Range(Inside(d)) : d \in SpelledOut}

WrittenEntries == {Entry(d) : d \in {e \in OwnEntries : text.alias[e] # NoRef}}

Written == WrittenInsides \cup WrittenEntries

\* The entry a string names in the document as written, if there is one.
IsOwnEntry(s) == s[1] = Here /\ s[2] = 0 /\ <<s[3], s[4]>> \in ExistingNames

IsNewEntry(s) == s[1] = Here /\ s[2] = 0 /\ <<s[3], s[4]>> \in DOMAIN components

OwnEntry(s) == [file |-> Main, name |-> s[3]]

NoValue == [file |-> Here, name |-> 0]

\* Where a string leads, own being what the document's own entries say.
Lookup(s, own) ==
    IF IsNewEntry(s) THEN components[<<s[3], s[4]>>]
    ELSE IF IsOwnEntry(s) THEN own[OwnEntry(s)]
    ELSE NoValue

\* An own entry may still be a reference.
OwnValues ==
    LET own[d \in OwnEntries] ==
            IF text.alias[d] = NoRef THEN d ELSE Lookup(StringAt(Entry(d)), own)
    IN  own

ReadAs(s) == Lookup(s, OwnValues)

\* ErrExternalRefsUnsupported otherwise.
LoadsAlone == \A p \in Written : ReadAs(StringAt(p)) # NoValue

\* At every place that is written, what is read is what stood there.
SaysTheSame == \A p \in Written : ReadAs(StringAt(p)) = Value(p)

-----------------------------------------------------------------------------
(* Correctness *)

\* The restrictions under which Bundle keeps what it promises.  Different
\* things referred to by the same string, in two of the files, become one
\* entry.
Unambiguous ==
    \A p, q \in collected : Spelling(p) = Spelling(q) => Value(p) = Value(q)

\* An entry of the document that is itself a reference to another file is
\* reached by "#" references, and what is inside is then walked as if it
\* were the document's own.
NoBorrowedEntry ==
    \A d \in OwnEntries : Final(d).file = Main

\* A bundled document can be read without a network, and what is read back at
\* every place is what stood there when the files were at hand: nothing is
\* missing, and nothing has become another definition of the same name.
SameMeaning ==
    stage = "done" /\ Unambiguous /\ NoBorrowedEntry => LoadsAlone /\ SaysTheSame
=============================================================================

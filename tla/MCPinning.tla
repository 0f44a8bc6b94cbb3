------------------------------- MODULE MCPinning -------------------------------
(***************************************************************************)
(* Instances of Pinning for TLC.                                           *)
(***************************************************************************)
EXTENDS Pinning

CONSTANTS t, tds       \* the table's name and its second member's

MCTableName == t

MCDSName == tds

-----------------------------------------------------------------------------
(* A document and two files it refers to. *)

MCFiles == 1..3

MCNames == 1..2

R(f, n) == [file |-> f, name |-> n]

\* A definition holds nothing, refers to something inside, or is a reference.
Leaf == [alias |-> NoRef, inside |-> <<>>]
With(r) == [alias |-> NoRef, inside |-> <<r>>]
Is(r) == [alias |-> r, inside |-> <<>>]

\* Files 2 and 3 have both definitions; 1 and 2 are what the "#" references of
\* all files have in common.
SplitBoth(swagger, op, own, own2, a1, a2, b2) ==
    LET shape == [d \in Defs \cup {Paths} |->
                    CASE d = Paths -> [alias |-> NoRef, inside |-> op]
                      [] d.file = Main -> IF d.name = 1 THEN own ELSE own2
                      [] d.file = 2 -> IF d.name = 1 THEN a1 ELSE a2
                      [] OTHER -> IF d.name = 1 THEN Leaf ELSE b2]
        steps[d \in Defs \cup {Paths}] ==
            IF shape[d].alias = NoRef THEN 0 ELSE steps[Target(d, shape[d].alias)] + 1
        final[d \in Defs \cup {Paths}] ==
            IF shape[d].alias = NoRef THEN d ELSE final[Target(d, shape[d].alias)]
    IN  [ definitionsSection |-> swagger,
          alias |-> [d \in Defs \cup {Paths} |-> shape[d].alias],
          inside |-> [d \in Defs \cup {Paths} |-> shape[d].inside],
          value |-> [d \in Defs \cup {Paths} |-> final[d]],
          length |-> [d \in Defs \cup {Paths} |-> steps[d]] ]

\* There is nothing in the document's own 2.
Split(swagger, op, own, a1, a2, b2) == SplitBoth(swagger, op, own, Leaf, a1, a2, b2)

\* The paths refer to the document's own definition and to both other files,
\* or to one of them.
SplitTexts ==
    {Split(swagger, op, own, a1, a2, b2) :
        swagger \in BOOLEAN,
        op \in {<<R(Here, 1), R(2, 1)>>, <<R(Here, 1), R(3, 2)>>},
        own \in {With(R(Here, 2)), With(R(2, 2)), Is(R(Here, 2)), Is(R(2, 1)), Is(R(3, 2))},
        a1 \in {Leaf, With(R(Here, 2)), With(R(3, 1)), With(R(Main, 1))},
        a2 \in {Leaf, With(R(Here, 1)), Is(R(3, 1))},
        b2 \in {Leaf, With(R(Here, 1)), With(R(2, 2))}}

OneFile == Split(FALSE, <<R(Here, 1)>>, Leaf, Leaf, Leaf, Leaf)

TwoFiles == Split(TRUE, <<R(Here, 1), R(2, 1)>>, Leaf, With(R(3, 1)), Leaf, Leaf)

-----------------------------------------------------------------------------
(* Tables and documents *)

Document(id, tx, resources, reads, redoclyOnly, awsJson) ==
    [ id |-> id, text |-> tx, resources |-> resources, reads |-> reads, tied |-> FALSE,
      redoclyOnly |-> redoclyOnly, awsJson |-> awsJson, renamed |-> <<>>, misread |-> FALSE ]

Bare(source) ==
    [ source |-> source, dataSources |-> FALSE, redocly |-> FALSE, namespaceFromTags |-> FALSE,
      wireName |-> Unset, execution |-> 1, timeouts |-> Unset, resources |-> Unset,
      targetPrefix |-> Unset, versionQualifier |-> Unset, namespace |-> Unset ]

\* Every setting of a source given, or none of the optional ones.
Tables(source) ==
    {[ Bare(source) EXCEPT !.dataSources = lone, !.wireName = w,
         !.namespaceFromTags = (source = "openapi" /\ w = 7), !.timeouts = w,
         !.resources = Given(source # "openapi", w), !.targetPrefix = p,
         !.versionQualifier = w, !.namespace = w ] :
        lone \in {FALSE} \cup (IF source = "cloudformation" THEN {} ELSE {TRUE}),
        w \in {Unset, 7}, p \in {Unset} \cup (IF source = "smithy" THEN {8} ELSE {})}

OtherTable == [Bare("smithy") EXCEPT !.execution = 2, !.wireName = 9]

\* One bundling after the other, of every way the files can refer to each other.
BundleScenarios ==
    {[ tables |-> <<[Bare("openapi") EXCEPT !.dataSources = TRUE]>>,
       documents |-> <<Document(1, tx, FALSE, TRUE, FALSE, FALSE)>> ] : tx \in SplitTexts}

\* A table that is edited after it was cut, or whose source changes, and a
\* document that is published anew at any time.
TableScenarios ==
    {[ tables |-> <<table, [table EXCEPT !.execution = 2, !.wireName = 9]>>,
       documents |-> << Document(1, TwoFiles, r, TRUE, FALSE, FALSE),
                        Document(2, OneFile, TRUE, r, FALSE, TRUE) >> ] :
        table \in UNION {Tables(source) : source \in Sources}, r \in BOOLEAN}
    \cup
    {[ tables |-> <<Bare(source), OtherTable>>,
       documents |-> <<Document(1, OneFile, TRUE, TRUE, FALSE, FALSE)>> ] : source \in Sources}

RedoclyScenarios ==
    {[ tables |-> <<[Bare("openapi") EXCEPT !.redocly = TRUE]>>,
       documents |-> <<Document(1, OneFile, TRUE, TRUE, TRUE, FALSE)>> ]}

\* An entry that is a reference into another file, and one that refers to it:
\* whichever collect comes to first, it walks what is inside the other file.
BorrowedEntry ==
    SplitBoth(FALSE, <<R(3, 1)>>, With(R(Here, 2)), Is(R(2, 1)), With(R(Here, 2)), Leaf, Leaf)

\* Another file that refers to the document's own 2 by its file: what is inside
\* is renamed if it is come to from there.
WayBack ==
    SplitBoth(FALSE, <<R(3, 1)>>, With(R(2, 1)), With(R(Here, 1)), With(R(Main, 2)), Leaf, Leaf)

BorrowedScenarios ==
    {[ tables |-> <<[Bare("openapi") EXCEPT !.dataSources = TRUE]>>,
       documents |-> <<Document(1, tx, FALSE, TRUE, FALSE, FALSE)>> ] :
        tx \in {BorrowedEntry, WayBack}}

\* A POST and a PUT of one path that both answer with the resource.
TieScenarios ==
    {[ tables |-> <<Bare("openapi")>>,
       documents |-> <<[Document(1, tx, TRUE, TRUE, FALSE, FALSE) EXCEPT !.tied = TRUE]>> ] :
        tx \in {OneFile, TwoFiles}}

MCScenarios ==
    BundleScenarios \cup TableScenarios \cup RedoclyScenarios \cup BorrowedScenarios
        \cup TieScenarios
=============================================================================

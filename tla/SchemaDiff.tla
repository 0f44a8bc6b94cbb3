------------------------------ MODULE SchemaDiff ------------------------------
(***************************************************************************)
(* internal/snapshot/diff.go: how much one schema differs from another,    *)
(* and what that must mean for the programs written for the old one.       *)
(*                                                                         *)
(* A schema gives each resource type its attributes, by name.  An          *)
(* attribute has a type, the three flags that say who provides its value,  *)
(* and a description.  A type's kind is its shape down to the first object *)
(* (a string, an object, a list of objects) and its fields are those of    *)
(* that object; the objects within that one are compared by the same rule  *)
(* in the code and are kept equal here.                                    *)
(***************************************************************************)
EXTENDS Naturals

NoChange == 0
Patch == 1
Minor == 2
Major == 3

Levels == NoChange..Major

\* raise: the highest of the levels met.
Raised(levels) ==
    IF Major \in levels THEN Major
    ELSE IF Minor \in levels THEN Minor
    ELSE IF Patch \in levels THEN Patch
    ELSE NoChange

\* Two collections compared by name: what is new is an addition, what has
\* disappeared is a breach, what stays is compared.
ByName(old, new, Diff(_, _)) ==
    Raised({Minor : n \in DOMAIN new \ DOMAIN old}
           \cup {Major : n \in DOMAIN old \ DOMAIN new}
           \cup {Diff(old[n], new[n]) : n \in DOMAIN old \cap DOMAIN new})

diffLeaf(old, new) == IF old = new THEN NoChange ELSE Major

diffType(old, new) ==
    IF old.kind # new.kind THEN Major
    ELSE ByName(old.fields, new.fields, diffLeaf)

\* oldWritable, nextWritable.
Writable(a) == a.optional /\ ~a.computed

\* Bug: an attribute that becomes required is judged by its write access.
FlagsWithoutRequired(old, new) ==
    CASE old.required /\ ~new.required -> Minor
      [] Writable(old) /\ ~Writable(new) /\ ~new.required -> Major
      [] ~Writable(old) /\ Writable(new) /\ ~old.required -> Minor
      [] OTHER -> IF old.text # new.text THEN Patch ELSE NoChange

diffAttributeFlags(old, new) ==
    CASE ~old.required /\ new.required -> Major
      [] old.required /\ ~new.required -> Minor
      [] (old.required <=> new.required) /\ Writable(old) /\ ~Writable(new) -> Major
      [] (old.required <=> new.required) /\ ~Writable(old) /\ Writable(new) -> Minor
      [] OTHER -> IF old.text # new.text THEN Patch ELSE NoChange

diffAttribute(old, new) ==
    Raised({diffType(old.type, new.type), diffAttributeFlags(old, new)})

diffBlock(old, new) == ByName(old, new, diffAttribute)

DiffLevel(old, new) == ByName(old, new, diffBlock)
-----------------------------------------------------------------------------
(* What the levels are for.                                                 *)

\* A program may give the attribute a value.
Settable(a) == a.required \/ a.optional

\* What a program reads of a value of the old type is there in the new one.
Readable(old, new) ==
    /\ old.kind = new.kind
    /\ \A f \in DOMAIN old.fields : f \in DOMAIN new.fields /\ old.fields[f] = new.fields[f]

\* A program that uses a resource type still works: it may set what it sets,
\* it sets all it must, and it finds what it reads.
BlockWorks(old, new) ==
    /\ \A a \in DOMAIN old :
          /\ a \in DOMAIN new
          /\ Readable(old[a].type, new[a].type)
          /\ Settable(old[a]) => Settable(new[a])
    /\ \A a \in DOMAIN new : new[a].required => a \in DOMAIN old /\ old[a].required

\* Every program written for the old schema works with the new one.
StillWorks(old, new) ==
    \A t \in DOMAIN old : t \in DOMAIN new /\ BlockWorks(old[t], new[t])

\* The breaches DiffLevel does not take for one: a new attribute that is
\* required at once, a required one that can no longer be set, and one that
\* could be set or left to the API and is now the API's alone.
AddsRequired(old, new) == \E a \in DOMAIN new \ DOMAIN old : new[a].required

LosesRequired(old, new) ==
    \E a \in DOMAIN old \cap DOMAIN new : old[a].required /\ ~Settable(new[a])

LosesDefaulted(old, new) ==
    \E a \in DOMAIN old \cap DOMAIN new :
        old[a].optional /\ old[a].computed /\ ~Settable(new[a])

Understated(old, new) ==
    \E t \in DOMAIN old \cap DOMAIN new :
        \/ AddsRequired(old[t], new[t])
        \/ LosesRequired(old[t], new[t])
        \/ LosesDefaulted(old[t], new[t])
=============================================================================

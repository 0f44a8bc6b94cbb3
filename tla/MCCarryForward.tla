---------------------------- MODULE MCCarryForward ----------------------------
(***************************************************************************)
(* Instances of CarryForward for TLC.                                      *)
(***************************************************************************)
EXTENDS CarryForward, TLC

\* A repository: created in an organisation, read by owner and name, with a
\* label the API respells, a stamp that changes by itself and a number the
\* API assigns.  A name that is not given is the API's choice.
\* Some answers leave the owner out.
Repository == {"org", "owner", "name", "label", "stamp", "number"}

RepositorySpellings ==
    [org |-> {"a"}, owner |-> {"a"}, name |-> {"A", "a"}, label |-> {"A", "a", "b"},
     stamp |-> {"a", "b"}, number |-> {"a"}]

\* lowercase
MCCanon(t) == IF t = "A" THEN "a" ELSE t
=============================================================================

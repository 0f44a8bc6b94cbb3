---------------------------- MODULE MCFetchCache ----------------------------
(***************************************************************************)
(* Instances of FetchCache for TLC.                                        *)
(***************************************************************************)
EXTENDS FetchCache

CONSTANTS p1, p2, f1, f2, f3

MCProcs == {p1, p2}

MCFiles == {f1, f2, f3}

\* Revisions of different lengths.
MCRevisions == 1..2

\* The longer body is long enough to be cut in the middle.
MCLength(r) == r
=============================================================================

---------------------------- MODULE MCDynServer ----------------------------
(***************************************************************************)
(* Instances of DynServer for TLC.                                         *)
(***************************************************************************)
EXTENDS DynServer

\* A missing object, a conflict, a status no table knows, a server error.
MCErrorStatuses == {404, 409, 418, 503}

\* The fewest statuses that keep the three classes apart.
MCFewStatuses == {404, 503}
=============================================================================

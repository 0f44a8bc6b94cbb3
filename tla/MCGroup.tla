-------------------------------- MODULE MCGroup --------------------------------
(***************************************************************************)
(* An instance of Group for TLC: every group of three members of whatever  *)
(* sources, every exclude table, and one name they may all contribute.     *)
(***************************************************************************)
EXTENDS Group

MCMembers == 1..3

MCSources == 1..4
=============================================================================

----------------------------- MODULE MCCCServer -----------------------------
(***************************************************************************)
(* Instances of CCServer for TLC: the constants are numbers and sets of    *)
(* strings, given their values in the configurations.                      *)
(***************************************************************************)
EXTENDS CCServer
=============================================================================

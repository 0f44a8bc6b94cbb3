------------------------------- MODULE Schemas -------------------------------
(***************************************************************************)
(* What is made of an OpenAPI document: schemas go in, attributes come out.*)
(*                                                                         *)
(* The schemas of a document are a function g from their identities, which *)
(* are numbers, to records; a reference is the identity of what it leads   *)
(* to, so schemas may contain themselves:                                  *)
(*   kind        "object", "array", "string", "integer", "boolean" or ""   *)
(*   props       property name -> schema                                   *)
(*   required    names of properties                                       *)
(*   items       the schema of an array's items, or NoSchema               *)
(*   additional  the schema of other properties, or NoSchema               *)
(*   union       the branches of its oneOf or anyOf, in order              *)
(*   allOf       the branches of its allOf, in order                       *)
(*   readOnly, writeOnly                                                   *)
(* Attributes are a function from names to records with a type, the flags  *)
(* of the protocol, and the schemas the attribute was made from (of).      *)
(* The code keeps a list sorted by name: properties whose names convert to *)
(* the same attribute name are not modelled.                               *)
(***************************************************************************)
NoSchema == 0

NoAttributes == <<>>

Scalar(kind) == [is |-> kind]
=============================================================================

----------------------------- MODULE MCSerializer -----------------------------
(***************************************************************************)
(* Serializer on a small instance: three threads and four requests, model  *)
(* values.  No symmetry: the run checks temporal properties.               *)
(***************************************************************************)
EXTENDS Serializer
===============================================================================

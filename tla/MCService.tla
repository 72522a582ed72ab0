------------------------------ MODULE MCService ------------------------------
(***************************************************************************)
(* Service on small instances: two workers, one or two clients.            *)
(***************************************************************************)
EXTENDS Service
===============================================================================

----------------------------- MODULE MCWorkerPool -----------------------------
(***************************************************************************)
(* WorkerPool on a small instance: three processors, two events, two joins *)
(* that time out.                                                          *)
(***************************************************************************)
EXTENDS WorkerPool
===============================================================================

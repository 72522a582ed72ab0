----------------------------- MODULE MCCrashReport -----------------------------
(***************************************************************************)
(* CrashReport on a small instance: two threads and the log thread, all of *)
(* which may crash, and one line that is written in the ordinary way.      *)
(***************************************************************************)
EXTENDS CrashReport
===============================================================================

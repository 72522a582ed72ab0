----------------------------- MODULE MCAsyncSocket -----------------------------
(***************************************************************************)
(* AsyncSocket on small instances: one connection, two workers, one send   *)
(* of each end.                                                            *)
(***************************************************************************)
EXTENDS AsyncSocket

\* The calls a user may make.
Everything == {"send", "disconnect", "close"}

\* Without the abortive one.
Orderly == {"send", "disconnect"}
===============================================================================

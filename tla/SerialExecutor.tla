---------------------------- MODULE SerialExecutor ----------------------------
(***************************************************************************)
(* What a serializer promises to its users, with no thread and no counter  *)
(* in sight: requests are accepted into one line, and executed one at a    *)
(* time, each once, in the order of the line.  The log promises the same   *)
(* to those that write: to execute a line is to give it to the devices.    *)
(* Serializer.tla and AsyncLog.tla are shown to implement it.              *)
(***************************************************************************)
EXTENDS Sequences

CONSTANT Requests   \* the calls of execute, each carrying one job; or the lines

VARIABLES
    waiting,    \* accepted, not started
    current,    \* the request being executed: <<>> or <<r>>
    finished    \* executed, in the order of their ends

vars == <<waiting, current, finished>>

Init == waiting = <<>> /\ current = <<>> /\ finished = <<>>

\* A request joins the line; nothing is accepted twice.
Accept(r) ==
    /\ \A s \in {waiting, current, finished} : \A i \in DOMAIN s : s[i] # r
    /\ waiting' = Append(waiting, r)
    /\ UNCHANGED <<current, finished>>

\* The head of the line starts, only when nothing is being executed.
Start ==
    /\ current = <<>> /\ waiting # <<>>
    /\ current' = <<Head(waiting)>>
    /\ waiting' = Tail(waiting)
    /\ UNCHANGED finished

Finish ==
    /\ current # <<>>
    /\ finished' = finished \o current
    /\ current' = <<>>
    /\ UNCHANGED waiting

Next == (\E r \in Requests : Accept(r)) \/ Start \/ Finish

Spec == Init /\ [][Next]_vars
===============================================================================

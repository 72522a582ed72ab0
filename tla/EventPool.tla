------------------------------- MODULE EventPool -------------------------------
(***************************************************************************)
(* What a pool of workers promises to those that post events to it, with   *)
(* no thread, no port and no join in sight: an event that is posted is     *)
(* handled once at most, and not at all only if the pool was closed before *)
(* anybody took it; when close is through, nothing is being handled, and   *)
(* nothing ever is again.  WorkerPool.tla is shown to implement it.        *)
(***************************************************************************)
CONSTANT Events     \* the calls of postEvent

VARIABLES
    state,      \* of the pool: "new", "open" or "closed"
    place       \* of each event

vars == <<state, place>>

Init == state = "new" /\ place = [e \in Events |-> "unposted"]

Move(e, from, to) == place[e] = from /\ place' = [place EXCEPT ![e] = to]

Open == state = "new" /\ state' = "open" /\ UNCHANGED place

Post(e) == state = "open" /\ Move(e, "unposted", "waiting") /\ UNCHANGED state
Begin(e) == state = "open" /\ Move(e, "waiting", "running") /\ UNCHANGED state
End(e) == state = "open" /\ Move(e, "running", "handled") /\ UNCHANGED state

\* A pool that is closed has nothing running, and drops what was not begun.
Close ==
    /\ state # "closed" /\ state' = "closed"
    /\ \A e \in Events : place[e] # "running"
    /\ place' = [e \in Events |-> IF place[e] = "waiting" THEN "dropped" ELSE place[e]]

Next == Open \/ Close \/ \E e \in Events : Post(e) \/ Begin(e) \/ End(e)

Spec == Init /\ [][Next]_vars
===============================================================================

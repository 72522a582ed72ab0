---------------------------- MODULE ServerCallbacks ----------------------------
(***************************************************************************)
(* What the users of a server see of it, with no accept, port or worker in *)
(* sight: the calls of ServerCallback, and the service's connections.  The *)
(* calls never overlap; each connection is accepted once and enters the    *)
(* service with that, leaves it once, later; onClosed comes once at most,  *)
(* and nothing is accepted after it.  Service.tla is shown to implement it.*)
(***************************************************************************)
EXTENDS Naturals

CONSTANT Connections

VARIABLES
    call,       \* the call in progress: "onAccepted", "onClosed" or "none"
    member,     \* of the service, each connection: "new", "in" or "gone"
    told        \* the calls of onClosed that returned

vars == <<call, member, told>>

Init == call = "none" /\ member = [c \in Connections |-> "new"] /\ told = 0

Call(callback) ==
    /\ call = "none" /\ told = 0
    /\ call' = callback
    /\ UNCHANGED <<member, told>>

Accepted(c) ==
    /\ call = "onAccepted" /\ call' = "none"
    /\ member[c] = "new" /\ member' = [member EXCEPT ![c] = "in"]
    /\ UNCHANGED told

Closed ==
    /\ call = "onClosed" /\ call' = "none"
    /\ told' = told + 1
    /\ UNCHANGED member

\* The end of a connection, whatever the server is doing
Leave(c) ==
    /\ member[c] = "in" /\ member' = [member EXCEPT ![c] = "gone"]
    /\ UNCHANGED <<call, told>>

Next ==
    \/ \E callback \in {"onAccepted", "onClosed"} : Call(callback)
    \/ Closed
    \/ \E c \in Connections : Accepted(c) \/ Leave(c)

Spec == Init /\ [][Next]_vars
===============================================================================

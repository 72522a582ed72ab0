---------------------------- MODULE ClientCallbacks ----------------------------
(***************************************************************************)
(* What the users of a connection see of it, with no receive, port or      *)
(* worker in sight: the calls of ClientCallback at each end.  They do not  *)
(* overlap; onConnected is the first one, onReceived comes only between it *)
(* and onClosed, which is the last one and comes once at most; or          *)
(* onConnectFailed is the only one.  onSent is left out: it comes at any   *)
(* time.  AsyncSocket.tla is shown to implement it.                        *)
(***************************************************************************)
CONSTANT Ends

VARIABLES
    stage,      \* of each end: "new", "connected" or "over"
    call        \* the call in progress there, or "none"

vars == <<stage, call>>

Init == stage = [s \in Ends |-> "new"] /\ call = [s \in Ends |-> "none"]

Call(s, callback, from, to) ==
    /\ stage[s] = from /\ stage' = [stage EXCEPT ![s] = to]
    /\ call[s] = "none" /\ call' = [call EXCEPT ![s] = callback]

OnConnected(s) == Call(s, "onConnected", "new", "connected")
OnConnectFailed(s) == Call(s, "onConnectFailed", "new", "over")
OnReceived(s) == Call(s, "onReceived", "connected", "connected")
OnClosed(s) == Call(s, "onClosed", "connected", "over")

Return(s) ==
    /\ call[s] # "none" /\ call' = [call EXCEPT ![s] = "none"]
    /\ UNCHANGED stage

Next ==
    \E s \in Ends :
        OnConnected(s) \/ OnConnectFailed(s) \/ OnReceived(s) \/ OnClosed(s) \/ Return(s)

Spec == Init /\ [][Next]_vars
===============================================================================
